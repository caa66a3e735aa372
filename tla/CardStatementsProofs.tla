------------------------ MODULE CardStatementsProofs ------------------------
(***************************************************************************)
(* The money of a card and its statements, for every calendar, set of      *)
(* rows and amounts.  That the limit and the account hold what the rows    *)
(* say needs no assumption.  That statements stay what they were when they *)
(* were recorded, that the debt is carried from one to the next, and that  *)
(* the reports show it, is proved for requests that do not straddle the    *)
(* end of a cycle.                                                         *)
(***************************************************************************)
EXTENDS CardStatements, CentsLemmas

USE CardStatementsAssumption

-----------------------------------------------------------------------------
(* Sums. *)

(* A sum is an integer; it depends on the amounts of its rows alone.       *)
LEMMA WorthType ==
    ASSUME NEW S, IsFiniteSet(S), NEW f
    PROVE  Worth(S, f) \in Nat
  BY TotalType DEF Worth

(* Rows of the same amounts have the same worth. *)
LEMMA WorthSame ==
    ASSUME NEW S, NEW f, NEW g, \A x \in S : f[x].amount = g[x].amount
    PROVE  Worth(S, f) = Worth(S, g)
<1>. DEFINE A == [x \in S |-> f[x].amount]
            B == [x \in S |-> g[x].amount]
<1>1. A = B
  OBVIOUS
<1>. QED
  BY <1>1 DEF Worth

(* No rows are worth nothing. *)
LEMMA WorthEmpty == ASSUME NEW f PROVE Worth({}, f) = 0
  BY TotalEmpty DEF Worth

(* Rows that are worth nothing. *)
LEMMA WorthZero ==
    ASSUME NEW S, NEW f, \A x \in S : f[x].amount = 0
    PROVE  Worth(S, f) = 0
<1>. DEFINE A == [x \in S |-> f[x].amount]
<1>1. \A x \in S : A[x] = 0
  OBVIOUS
<1>2. Total(S, A, MaxAmount) = 0
  <2>. HIDE DEF A
  <2>. QED
    BY <1>1, TotalZero
<1>. QED
  BY <1>2 DEF Worth

(* The rows of two sets that share none. *)
LEMMA WorthUnion ==
    ASSUME NEW S, NEW T, IsFiniteSet(S), IsFiniteSet(T), S \cap T = {}, NEW f
    PROVE  Worth(S \cup T, f) = Worth(S, f) + Worth(T, f)
<1>. DEFINE A == [x \in S \cup T |-> f[x].amount]
<1>1. Total(S \cup T, A, MaxAmount) = Total(S, A, MaxAmount) + Total(T, A, MaxAmount)
  <2>. HIDE DEF A
  <2>. QED
    BY TotalUnion
<1>2. Total(S, A, MaxAmount) = Worth(S, f)
  <2>. DEFINE B == [x \in S |-> f[x].amount]
  <2>1. \A x \in S : A[x] = B[x]
    OBVIOUS
  <2>. HIDE DEF A, B
  <2>2. Total(S, A, MaxAmount) = Total(S, B, MaxAmount)
    BY <2>1, TotalSame
  <2>. QED
    BY <2>2 DEF B, Worth
<1>3. Total(T, A, MaxAmount) = Worth(T, f)
  <2>. DEFINE B == [x \in T |-> f[x].amount]
  <2>1. \A x \in T : A[x] = B[x]
    OBVIOUS
  <2>. HIDE DEF A, B
  <2>2. Total(T, A, MaxAmount) = Total(T, B, MaxAmount)
    BY <2>1, TotalSame
  <2>. QED
    BY <2>2 DEF B, Worth
<1>4. Total(S \cup T, A, MaxAmount) = Worth(S \cup T, f)
  BY DEF Worth
<1>. HIDE DEF A
<1>. QED
  BY <1>1, <1>2, <1>3, <1>4

(* What one row contributes. *)
Part(S, f, x) == IF x \in S THEN f[x].amount ELSE 0

(* When one row changes, enters or leaves, the worth changes by what it contributes. *)
LEMMA WorthOne ==
    ASSUME NEW S, NEW T, IsFiniteSet(S), IsFiniteSet(T), NEW f, NEW g, NEW x,
           S \ {x} = T \ {x}, \A y \in S \ {x} : f[y].amount = g[y].amount,
           Part(S, f, x) \in 0..MaxAmount, Part(T, g, x) \in 0..MaxAmount
    PROVE  Worth(T, g) = Worth(S, f) - Part(S, f, x) + Part(T, g, x)
<1>1. ASSUME NEW R, IsFiniteSet(R), NEW h, Part(R, h, x) \in 0..MaxAmount
      PROVE  /\ Worth(R, h) = Worth(R \ {x}, h) + Part(R, h, x)
             /\ Worth(R \ {x}, h) \in Nat
  <2>1. IsFiniteSet(R \ {x}) /\ Worth(R \ {x}, h) \in Nat
    BY <1>1, FS_RemoveElement, WorthType
  <2>2. CASE x \in R
    <3>. DEFINE A == [y \in R |-> h[y].amount]
    <3>1. A[x] \in 0..MaxAmount /\ A[x] = Part(R, h, x)
      BY <1>1, <2>2 DEF Part
    <3>2. Total(R \ {x}, A, MaxAmount) = Total(R, A, MaxAmount) - A[x]
      <4>1. IsFiniteSet(R) /\ x \in R /\ A[x] \in 0..MaxAmount
        BY <1>1, <2>2, <3>1
      <4>. HIDE DEF A
      <4>. QED
        BY <4>1, TotalRemove
    <3>3. Total(R \ {x}, A, MaxAmount) = Worth(R \ {x}, h)
      BY TotalSame DEF Worth
    <3>4. Total(R, A, MaxAmount) \in Nat /\ Total(R, A, MaxAmount) = Worth(R, h)
      BY <1>1, TotalType DEF Worth
    <3>. HIDE DEF A
    <3>. QED
      BY <2>1, <3>1, <3>2, <3>3, <3>4
  <2>3. CASE x \notin R
    <3>1. R \ {x} = R /\ Part(R, h, x) = 0
      BY <2>3 DEF Part
    <3>. QED
      BY <2>1, <3>1
  <2>. QED
    BY <2>2, <2>3
<1>2. Worth(S \ {x}, f) = Worth(T \ {x}, g)
  <2>1. PICK R : R = S \ {x}
    OBVIOUS
  <2>2. Worth(R, f) = Worth(R, g)
    BY <2>1, WorthSame
  <2>. QED
    BY <2>1, <2>2
<1>3. /\ Worth(S, f) = Worth(S \ {x}, f) + Part(S, f, x) /\ Worth(S \ {x}, f) \in Nat
      /\ Worth(T, g) = Worth(T \ {x}, g) + Part(T, g, x)
  BY <1>1
<1>. QED
  BY <1>2, <1>3


-----------------------------------------------------------------------------
(* The sums of the model, by the cycles they look at. *)

ExpenseTable == [Expense -> ExpenseRow \cup {NoExpense}]
RefundTable  == [Refund -> RefundRow \cup {NoRefund}]
PaymentTable == [Payment -> PaymentRow \cup {NoPayment}]

(* The rows of a table that count in the cycles W, and what they are worth. *)
ChargedRows(W, f)  == {e \in Expense : f[e].status \in Counted /\ f[e].postedOn \in W}
ReturnedRows(W, f) == {r \in Refund : f[r].postedOn \in W}
PaidRows(W, f)     == {p \in Payment : f[p] # NoPayment /\ f[p].statement \in W}

Charged(W, f)  == Worth(ChargedRows(W, f), f)
Returned(W, f) == Worth(ReturnedRows(W, f), f)
Paid(W, f)     == Worth(PaidRows(W, f), f)

(* What one row counts for. *)
Charge(row)       == IF row.status \in Counted THEN row.amount ELSE 0
ChargeIn(row, W)  == IF row.status \in Counted /\ row.postedOn \in W THEN row.amount ELSE 0
RefundIn(row, W)  == IF row.postedOn \in W THEN row.amount ELSE 0
PaymentIn(row, W) == IF row # NoPayment /\ row.statement \in W THEN row.amount ELSE 0

(* The fields of a row. *)
LEMMA ExpenseFields ==
    ASSUME NEW r \in ExpenseRow \cup {NoExpense}
    PROVE  /\ r.amount \in 0..MaxAmount /\ r.amount \in Int
           /\ r.postedOn \in 0..NumCycles
           /\ r.status \in Counted \cup {"FORECAST", "NONE"}
           /\ r.status = "NONE" <=> r = NoExpense
           /\ r.status # "NONE" => r \in ExpenseRow /\ r.postedOn \in Cycle /\ r.amount \in Amount
  BY DEF ExpenseRow, NoExpense, Cycle, Amount, Counted

(* The fields of a refund, of a row that does not exist included. *)
LEMMA RefundFields ==
    ASSUME NEW r \in RefundRow \cup {NoRefund}
    PROVE  /\ r.amount \in 0..MaxAmount /\ r.amount \in Int
           /\ r.postedOn \in 0..NumCycles
  BY DEF RefundRow, NoRefund, Cycle, Amount

(* The fields of a payment, of a row that does not exist included. *)
LEMMA PaymentFields ==
    ASSUME NEW r \in PaymentRow \cup {NoPayment}
    PROVE  /\ r.amount \in 0..MaxAmount /\ r.amount \in Int
           /\ r.statement \in 0..NumCycles
           /\ r # NoPayment => r \in PaymentRow
  BY DEF PaymentRow, NoPayment, Cycle, Amount

(* All sums are integers. *)
LEMMA SumTypes ==
    ASSUME NEW W, NEW f
    PROVE  /\ Charged(W, f) \in Nat
           /\ Returned(W, f) \in Nat
           /\ Paid(W, f) \in Nat
<1>1. IsFiniteSet(ChargedRows(W, f))
  BY FS_Subset DEF ChargedRows
<1>2. IsFiniteSet(ReturnedRows(W, f))
  BY FS_Subset DEF ReturnedRows
<1>3. IsFiniteSet(PaidRows(W, f))
  BY FS_Subset DEF PaidRows
<1>. QED
  BY <1>1, <1>2, <1>3, WorthType DEF Charged, Returned, Paid

(* The write of one row moves a sum by what the row counted and counts. *)
LEMMA ChargedSwap ==
    ASSUME NEW f \in ExpenseTable, NEW g \in ExpenseTable, NEW e \in Expense, NEW W,
           \A o \in Expense \ {e} : g[o] = f[o]
    PROVE  Charged(W, g) = Charged(W, f) - ChargeIn(f[e], W) + ChargeIn(g[e], W)
<1>1. PICK S : S = ChargedRows(W, f)
  OBVIOUS
<1>2. PICK T : T = ChargedRows(W, g)
  OBVIOUS
<1>3. IsFiniteSet(S) /\ IsFiniteSet(T)
  <2>1. S \subseteq Expense /\ T \subseteq Expense
    BY <1>1, <1>2 DEF ChargedRows
  <2>. QED
    BY <2>1, FS_Subset
<1>4. S \ {e} = T \ {e} /\ \A o \in S \ {e} : f[o].amount = g[o].amount
  BY <1>1, <1>2 DEF ChargedRows
<1>5. Part(S, f, e) = ChargeIn(f[e], W) /\ Part(T, g, e) = ChargeIn(g[e], W)
  BY <1>1, <1>2 DEF Part, ChargeIn, ChargedRows
<1>6. Part(S, f, e) \in 0..MaxAmount /\ Part(T, g, e) \in 0..MaxAmount
  <2>1. f[e].amount \in 0..MaxAmount /\ g[e].amount \in 0..MaxAmount
    BY ExpenseFields DEF ExpenseTable
  <2>. QED
    BY <2>1 DEF Part
<1>7. Worth(T, g) = Worth(S, f) - Part(S, f, e) + Part(T, g, e)
  BY <1>3, <1>4, <1>6, WorthOne
<1>. QED
  BY <1>1, <1>2, <1>5, <1>7 DEF Charged

(* When one refund changes, the refunds of a window change by what it adds to the window. *)
LEMMA ReturnedSwap ==
    ASSUME NEW f \in RefundTable, NEW g \in RefundTable, NEW e \in Refund, NEW W,
           \A o \in Refund \ {e} : g[o] = f[o]
    PROVE  Returned(W, g) = Returned(W, f) - RefundIn(f[e], W) + RefundIn(g[e], W)
<1>1. PICK S : S = ReturnedRows(W, f)
  OBVIOUS
<1>2. PICK T : T = ReturnedRows(W, g)
  OBVIOUS
<1>3. IsFiniteSet(S) /\ IsFiniteSet(T)
  <2>1. S \subseteq Refund /\ T \subseteq Refund
    BY <1>1, <1>2 DEF ReturnedRows
  <2>. QED
    BY <2>1, FS_Subset
<1>4. S \ {e} = T \ {e} /\ \A o \in S \ {e} : f[o].amount = g[o].amount
  BY <1>1, <1>2 DEF ReturnedRows
<1>5. Part(S, f, e) = RefundIn(f[e], W) /\ Part(T, g, e) = RefundIn(g[e], W)
  BY <1>1, <1>2 DEF Part, RefundIn, ReturnedRows
<1>6. Part(S, f, e) \in 0..MaxAmount /\ Part(T, g, e) \in 0..MaxAmount
  <2>1. f[e].amount \in 0..MaxAmount /\ g[e].amount \in 0..MaxAmount
    BY RefundFields DEF RefundTable
  <2>. QED
    BY <2>1 DEF Part
<1>7. Worth(T, g) = Worth(S, f) - Part(S, f, e) + Part(T, g, e)
  BY <1>3, <1>4, <1>6, WorthOne
<1>. QED
  BY <1>1, <1>2, <1>5, <1>7 DEF Returned

(* When one payment changes, the same holds of what was paid to a statement and of all
   payments. *)
LEMMA PaidSwap ==
    ASSUME NEW f \in PaymentTable, NEW g \in PaymentTable, NEW e \in Payment, NEW W,
           \A o \in Payment \ {e} : g[o] = f[o]
    PROVE  /\ Paid(W, g) = Paid(W, f) - PaymentIn(f[e], W) + PaymentIn(g[e], W)
           /\ Worth(Payment, g) = Worth(Payment, f) - f[e].amount + g[e].amount
<1>1. PICK S : S = PaidRows(W, f)
  OBVIOUS
<1>2. PICK T : T = PaidRows(W, g)
  OBVIOUS
<1>3. IsFiniteSet(S) /\ IsFiniteSet(T)
  <2>1. S \subseteq Payment /\ T \subseteq Payment
    BY <1>1, <1>2 DEF PaidRows
  <2>. QED
    BY <2>1, FS_Subset
<1>4. S \ {e} = T \ {e} /\ \A o \in S \ {e} : f[o].amount = g[o].amount
  BY <1>1, <1>2 DEF PaidRows
<1>5. Part(S, f, e) = PaymentIn(f[e], W) /\ Part(T, g, e) = PaymentIn(g[e], W)
  BY <1>1, <1>2 DEF Part, PaymentIn, PaidRows
<1>6. f[e].amount \in 0..MaxAmount /\ g[e].amount \in 0..MaxAmount
  BY PaymentFields DEF PaymentTable
<1>7. Part(S, f, e) \in 0..MaxAmount /\ Part(T, g, e) \in 0..MaxAmount
  BY <1>6 DEF Part
<1>8. Worth(T, g) = Worth(S, f) - Part(S, f, e) + Part(T, g, e)
  BY <1>3, <1>4, <1>7, WorthOne
<1>9. Worth(Payment, g) = Worth(Payment, f) - Part(Payment, f, e) + Part(Payment, g, e)
  <2>1. Part(Payment, f, e) \in 0..MaxAmount /\ Part(Payment, g, e) \in 0..MaxAmount
    BY <1>6 DEF Part
  <2>2. \A o \in Payment \ {e} : f[o].amount = g[o].amount
    OBVIOUS
  <2>. QED
    BY <2>1, <2>2, WorthOne
<1>10. Part(Payment, f, e) = f[e].amount /\ Part(Payment, g, e) = g[e].amount
  BY DEF Part
<1>11. Paid(W, g) = Paid(W, f) - PaymentIn(f[e], W) + PaymentIn(g[e], W)
  BY <1>1, <1>2, <1>5, <1>8 DEF Paid
<1>12. Worth(Payment, g) = Worth(Payment, f) - f[e].amount + g[e].amount
  BY <1>9, <1>10
<1>. QED
  BY <1>11, <1>12

(* Marking rows paid or unpaid changes no sum. *)
LEMMA ChargedMarked ==
    ASSUME NEW f, NEW g, NEW W,
           \A e \in Expense : /\ g[e].amount = f[e].amount
                              /\ g[e].postedOn = f[e].postedOn
                              /\ g[e].status \in Counted <=> f[e].status \in Counted
    PROVE  Charged(W, g) = Charged(W, f)
<1>1. PICK S : S = ChargedRows(W, f)
  OBVIOUS
<1>2. S = ChargedRows(W, g) /\ \A e \in S : f[e].amount = g[e].amount
  BY <1>1 DEF ChargedRows
<1>3. Worth(S, f) = Worth(S, g)
  BY <1>2, WorthSame
<1>. QED
  BY <1>1, <1>2, <1>3 DEF Charged

(* The cycles of two sets that share none. *)
LEMMA SumsSplit ==
    ASSUME NEW U, NEW V, NEW W, U = V \cup W, V \cap W = {}
    PROVE  /\ \A f : Charged(U, f) = Charged(V, f) + Charged(W, f)
           /\ \A f : Returned(U, f) = Returned(V, f) + Returned(W, f)
           /\ \A f : Paid(U, f) = Paid(V, f) + Paid(W, f)
<1>1. ASSUME NEW f PROVE Charged(U, f) = Charged(V, f) + Charged(W, f)
  <2>1. PICK S, T : S = ChargedRows(V, f) /\ T = ChargedRows(W, f)
    OBVIOUS
  <2>2. ChargedRows(U, f) = S \cup T /\ S \cap T = {}
    BY <2>1 DEF ChargedRows
  <2>3. S \subseteq Expense /\ T \subseteq Expense
    BY <2>1 DEF ChargedRows
  <2>4. IsFiniteSet(S) /\ IsFiniteSet(T)
    BY <2>3, FS_Subset
  <2>5. Worth(S \cup T, f) = Worth(S, f) + Worth(T, f)
    BY <2>2, <2>4, WorthUnion
  <2>. QED
    BY <2>1, <2>2, <2>5 DEF Charged
<1>2. ASSUME NEW f PROVE Returned(U, f) = Returned(V, f) + Returned(W, f)
  <2>1. PICK S, T : S = ReturnedRows(V, f) /\ T = ReturnedRows(W, f)
    OBVIOUS
  <2>2. ReturnedRows(U, f) = S \cup T /\ S \cap T = {}
    BY <2>1 DEF ReturnedRows
  <2>3. S \subseteq Refund /\ T \subseteq Refund
    BY <2>1 DEF ReturnedRows
  <2>4. IsFiniteSet(S) /\ IsFiniteSet(T)
    BY <2>3, FS_Subset
  <2>5. Worth(S \cup T, f) = Worth(S, f) + Worth(T, f)
    BY <2>2, <2>4, WorthUnion
  <2>. QED
    BY <2>1, <2>2, <2>5 DEF Returned
<1>3. ASSUME NEW f PROVE Paid(U, f) = Paid(V, f) + Paid(W, f)
  <2>1. PICK S, T : S = PaidRows(V, f) /\ T = PaidRows(W, f)
    OBVIOUS
  <2>2. PaidRows(U, f) = S \cup T /\ S \cap T = {}
    BY <2>1 DEF PaidRows
  <2>3. S \subseteq Payment /\ T \subseteq Payment
    BY <2>1 DEF PaidRows
  <2>4. IsFiniteSet(S) /\ IsFiniteSet(T)
    BY <2>3, FS_Subset
  <2>5. Worth(S \cup T, f) = Worth(S, f) + Worth(T, f)
    BY <2>2, <2>4, WorthUnion
  <2>. QED
    BY <2>1, <2>2, <2>5 DEF Paid
<1>. QED
  BY <1>1, <1>2, <1>3

(* One more cycle. *)
LEMMA SumsExtend ==
    ASSUME NEW k \in Int, k >= 1, NEW f, NEW g, NEW h
    PROVE  /\ Charged(1..k, f) = Charged(1..(k - 1), f) + Charged({k}, f)
           /\ Returned(1..k, g) = Returned(1..(k - 1), g) + Returned({k}, g)
           /\ Paid(1..k, h) = Paid(1..(k - 1), h) + Paid({k}, h)
<1>1. PICK U, V, W : U = 1..k /\ V = 1..(k - 1) /\ W = {k}
  OBVIOUS
<1>2. U = V \cup W /\ V \cap W = {}
  BY <1>1
<1>3. /\ Charged(U, f) = Charged(V, f) + Charged(W, f)
      /\ Returned(U, g) = Returned(V, g) + Returned(W, g)
      /\ Paid(U, h) = Paid(V, h) + Paid(W, h)
  BY <1>2, SumsSplit
<1>. QED
  BY <1>1, <1>3

(* No cycles, no sum. *)
LEMMA SumsOfNone ==
    ASSUME NEW f, NEW g, NEW h
    PROVE  Charged({}, f) = 0 /\ Returned({}, g) = 0 /\ Paid({}, h) = 0
<1>1. ChargedRows({}, f) = {} /\ ReturnedRows({}, g) = {} /\ PaidRows({}, h) = {}
  BY DEF ChargedRows, ReturnedRows, PaidRows
<1>. QED
  BY <1>1, WorthEmpty DEF Charged, Returned, Paid

(* The values of a statement, in these sums. *)
LEMMA Values ==
    ASSUME NEW k
    PROVE  /\ TotalOf(k) = Charged({k}, expense) - Returned({k}, refund)
           /\ RemainingOf(k) = TotalOf(k) + previousBalance[k] - Paid({k}, payment)
           /\ Worth(EarlyPayments, payment) = Paid({0}, payment)
<1>1. PostedIn(k) = ChargedRows({k}, expense)
  BY DEF PostedIn, ChargedRows
<1>2. RefundedIn(k) = ReturnedRows({k}, refund)
  BY DEF RefundedIn, ReturnedRows
<1>3. PaymentsOf(k) = PaidRows({k}, payment) /\ PaymentsOf(0) = PaidRows({0}, payment)
  BY DEF PaymentsOf, PaidRows
<1>. QED
  BY <1>1, <1>2, <1>3 DEF TotalOf, RemainingOf, EarlyPayments, Charged, Returned, Paid

(* The amounts of a statement are integers. *)
LEMMA ValueTypes ==
    ASSUME TypeOK, NEW k \in Cycle
    PROVE  /\ TotalOf(k) \in Int
           /\ RemainingOf(k) \in Int
           /\ Rolled(k) \in Int
<1>1. ASSUME NEW j \in Cycle
      PROVE  TotalOf(j) \in Int /\ RemainingOf(j) \in Int
  <2>1. previousBalance[j] \in Int
    BY DEF TypeOK
  <2>2. Charged({j}, expense) \in Int /\ Returned({j}, refund) \in Int /\ Paid({j}, payment) \in Int
    BY SumTypes
  <2>3. TotalOf(j) = Charged({j}, expense) - Returned({j}, refund)
    BY Values
  <2>4. RemainingOf(j) = TotalOf(j) + previousBalance[j] - Paid({j}, payment)
    BY Values
  <2>5. TotalOf(j) \in Int
    BY <2>2, <2>3
  <2>. QED
    BY <2>1, <2>2, <2>4, <2>5
<1>2. k # 1 => RemainingOf(k - 1) \in Int
  <2>1. k # 1 => k - 1 \in Cycle
    BY DEF Cycle
  <2>. QED
    BY <1>1, <2>1
<1>3. Rolled(k) \in Int
  BY <1>2 DEF Rolled
<1>. QED
  BY <1>1, <1>3

-----------------------------------------------------------------------------
(* What an operation on an expense leaves in pending. *)

(* The change of the limit is what the row charged minus what it will      *)
(* charge, and the operation does not settle or unsettle it.               *)
Fits(old, new, delta) ==
    /\ delta = Charge(old) - Charge(new)
    /\ old.status = "PAID" <=> new.status = "PAID"

(* An operation keeps what a charge is worth and when, or stays out of the *)
(* closed window.                                                          *)
Ahead(row) == row.status \in Counted => row.postedOn >= now
Steady(old, new) ==
    /\ old.status \in Counted /\ new.status \in Counted
    /\ old.postedOn = new.postedOn /\ old.amount = new.amount
Frozen(old, new) == Steady(old, new) \/ (Ahead(old) /\ Ahead(new))

BeginStep(e) ==
    Arrive(e) \/ Confirm(e) \/ Verify(e) \/ Update(e) \/ ApplyModelToFollowing(e) \/ Leave(e)

(* Whatever the operation, what it leaves in pending is a row of its type  *)
(* that fits the limit and, unless it posts a closed expense again, leaves *)
(* the closed window alone.                                                *)
LEMMA BeginShape ==
    ASSUME TypeOK, NEW e \in Expense, BeginStep(e)
    PROVE  \E row \in ExpenseRow \cup {NoExpense}, delta \in Int :
             /\ Begin(e, row, delta)
             /\ Fits(expense[e], row, delta)
             /\ ~Repost => Frozen(expense[e], row)
<1>. DEFINE Goal(row, delta) == /\ row \in ExpenseRow \cup {NoExpense}
                                /\ delta \in Int
                                /\ Begin(e, row, delta)
                                /\ Fits(expense[e], row, delta)
                                /\ ~Repost => Frozen(expense[e], row)
<1>0. PICK old \in ExpenseRow \cup {NoExpense} : old = expense[e]
  BY DEF TypeOK
<1>1. /\ old.amount \in 0..MaxAmount /\ old.amount \in Int
      /\ old.status \in Counted \cup {"FORECAST", "NONE"}
      /\ old.status = "NONE" <=> old = NoExpense
      /\ old.status # "NONE" => old \in ExpenseRow /\ old.postedOn \in Cycle /\ old.amount \in Amount
  BY ExpenseFields
<1>2. now \in Cycle
  BY DEF TypeOK
<1>. SUFFICES \E row, delta : Goal(row, delta)
  OBVIOUS
<1>3. CASE Arrive(e)
  <2>1. PICK row \in ExpenseRow :
          /\ row.status # "PAID" /\ ~InClosedWindow(row)
          /\ Begin(e, row, IF row.status = "FORECAST" THEN 0 ELSE -row.amount)
    BY <1>3 DEF Arrive
  <2>2. old.status = "NONE"
    BY <1>0, <1>1, <1>3 DEF Arrive
  <2>3. row.amount \in Int /\ row.status \in Counted \cup {"FORECAST"} /\ row.postedOn \in Int
    BY DEF ExpenseRow, Amount, Cycle
  <2>4. PICK delta : delta = IF row.status = "FORECAST" THEN 0 ELSE -row.amount
    OBVIOUS
  <2>5. delta \in Int /\ Fits(old, row, delta)
    BY <2>1, <2>2, <2>3, <2>4 DEF Fits, Charge, Counted
  <2>6. Frozen(old, row)
    BY <1>2, <2>1, <2>2, <2>3 DEF Frozen, Ahead, Counted, InClosedWindow, Cycle
  <2>7. Begin(e, row, delta)
    BY <2>1, <2>4
  <2>. QED
    BY <1>0, <2>5, <2>6, <2>7
<1>4. CASE Confirm(e)
  <2>1. PICK row : row = [old EXCEPT !.status = "OPEN"]
    OBVIOUS
  <2>2. old.status = "FORECAST" /\ ~InClosedWindow(old)
    BY <1>0, <1>4 DEF Confirm
  <2>3. row \in ExpenseRow /\ row.status = "OPEN" /\ row.amount = old.amount /\ row.postedOn = old.postedOn
    BY <1>1, <2>1, <2>2 DEF ExpenseRow, Counted
  <2>4. Begin(e, row, -old.amount)
    BY <1>0, <1>4, <2>1 DEF Confirm
  <2>5. Fits(old, row, -old.amount) /\ -old.amount \in Int
    BY <1>1, <2>2, <2>3 DEF Fits, Charge, Counted
  <2>6. old.postedOn \in Int
    BY <1>1, <2>2 DEF Cycle
  <2>7. Frozen(old, row)
    BY <1>2, <2>2, <2>3, <2>6 DEF Frozen, Ahead, Counted, InClosedWindow, Cycle
  <2>. QED
    BY <1>0, <2>3, <2>4, <2>5, <2>7
<1>5. CASE Verify(e)
  <2>1. PICK st \in LimitConsuming \ {old.status} :
          Begin(e, [old EXCEPT !.status = st], 0)
    BY <1>0, <1>5 DEF Verify
  <2>2. PICK row : row = [old EXCEPT !.status = st]
    OBVIOUS
  <2>3. old.status \in LimitConsuming
    BY <1>0, <1>5 DEF Verify
  <2>4. row \in ExpenseRow /\ row.status = st /\ row.amount = old.amount /\ row.postedOn = old.postedOn
    BY <1>1, <2>2, <2>3 DEF ExpenseRow, Counted, LimitConsuming
  <2>5. Fits(old, row, 0) /\ Frozen(old, row)
    BY <1>1, <2>3, <2>4 DEF Fits, Charge, Counted, LimitConsuming, Frozen, Steady
  <2>. QED
    BY <1>0, <2>1, <2>2, <2>4, <2>5
<1>6. CASE Update(e)
  <2>1. PICK a \in Amount, k \in now..NumCycles :
          /\ old.status = "PAID" => a = old.amount
          /\ InClosedWindow(old) => Repost
          /\ Begin(e, [old EXCEPT !.amount = a, !.postedOn = k],
                   IF old.status \in LimitConsuming THEN old.amount - a ELSE 0)
    BY <1>0, <1>6 DEF Update
  <2>2. PICK row : row = [old EXCEPT !.amount = a, !.postedOn = k]
    OBVIOUS
  <2>3. PICK delta : delta = IF old.status \in LimitConsuming THEN old.amount - a ELSE 0
    OBVIOUS
  <2>4. old # NoExpense
    BY <1>0, <1>6 DEF Update
  <2>5. k \in Cycle /\ k >= now /\ k \in Int /\ a \in Int
    BY <1>2 DEF Cycle, Amount
  <2>6. row \in ExpenseRow /\ row.status = old.status /\ row.amount = a /\ row.postedOn = k
    BY <1>1, <2>2, <2>4, <2>5 DEF ExpenseRow
  <2>7. delta \in Int
    BY <1>1, <2>3, <2>5
  <2>8. Fits(old, row, delta)
    BY <1>1, <2>1, <2>3, <2>5, <2>6 DEF Fits, Charge, Counted, LimitConsuming
  <2>9. old.postedOn \in Int
    BY <1>1, <2>4 DEF Cycle
  <2>10. ~Repost => Frozen(old, row)
    BY <1>2, <2>1, <2>4, <2>5, <2>6, <2>9 DEF Frozen, Ahead, InClosedWindow, Cycle
  <2>. QED
    BY <1>0, <2>1, <2>2, <2>3, <2>6, <2>7, <2>8, <2>10
<1>7. CASE ApplyModelToFollowing(e)
  <2>1. PICK a \in Amount : Begin(e, [old EXCEPT !.amount = a], 0)
    BY <1>0, <1>7 DEF ApplyModelToFollowing
  <2>2. PICK row : row = [old EXCEPT !.amount = a]
    OBVIOUS
  <2>3. old.status = "FORECAST"
    BY <1>0, <1>7 DEF ApplyModelToFollowing
  <2>4. row \in ExpenseRow /\ row.status = "FORECAST"
    BY <1>1, <2>2, <2>3 DEF ExpenseRow
  <2>5. Fits(old, row, 0) /\ Frozen(old, row)
    BY <2>3, <2>4 DEF Fits, Charge, Counted, Frozen, Ahead
  <2>. QED
    BY <1>0, <2>1, <2>2, <2>4, <2>5
<1>8. CASE Leave(e)
  <2>1. PICK delta : delta = IF old.status \in LimitConsuming THEN old.amount ELSE 0
    OBVIOUS
  <2>2. /\ old.status \in {"FORECAST"} \cup LimitConsuming
        /\ old.status # "FORECAST" => ~InClosedWindow(old)
        /\ Begin(e, NoExpense, delta)
    BY <1>0, <1>8, <2>1 DEF Leave
  <2>3. delta \in Int
    BY <1>1, <2>1
  <2>4. Fits(old, NoExpense, delta)
    BY <1>1, <2>1, <2>2 DEF Fits, Charge, Counted, LimitConsuming, NoExpense
  <2>5. Frozen(old, NoExpense)
    <3>1. old.status # "NONE"
      BY <2>2 DEF LimitConsuming
    <3>2. old.postedOn \in Int
      BY <1>1, <3>1 DEF Cycle
    <3>. QED
      BY <1>2, <2>2, <3>2 DEF Frozen, Ahead, Counted, InClosedWindow, NoExpense, Cycle
  <2>. QED
    BY <1>0, <2>2, <2>3, <2>4, <2>5
<1>. QED
  BY <1>3, <1>4, <1>5, <1>6, <1>7, <1>8 DEF BeginStep


-----------------------------------------------------------------------------
(* What marking the expenses of a window does, and to which rows. *)
MarkDoes(window, from, to) ==
    /\ expense' \in ExpenseTable
    /\ \A e \in Expense :
         /\ expense'[e].amount = expense[e].amount
         /\ expense'[e].postedOn = expense[e].postedOn
         /\ expense'[e].status \in Counted <=> expense[e].status \in Counted
         /\ expense'[e].status = IF e \in Matching(window, from) THEN to
                                 ELSE expense[e].status
         /\ pending[e].active => expense'[e] = expense[e]
    /\ pending' = pending

(* markPaidByStatement and its reverse: every matching row is marked and no other one. *)
LEMMA MarkShape ==
    ASSUME TypeOK, NEW window, NEW from, NEW to,
           from \subseteq Counted, to \in Counted, Mark(window, from, to)
    PROVE  MarkDoes(window, from, to)
<1>1. /\ \A e \in Matching(window, from) : ~pending[e].active
      /\ expense' = [e \in Expense |-> IF e \in Matching(window, from)
                                       THEN [expense[e] EXCEPT !.status = to]
                                       ELSE expense[e]]
      /\ pending' = pending
  BY DEF Mark
<1>2. ASSUME NEW e \in Expense
      PROVE  /\ expense'[e] \in ExpenseRow \cup {NoExpense}
             /\ expense'[e].amount = expense[e].amount
             /\ expense'[e].postedOn = expense[e].postedOn
             /\ expense'[e].status \in Counted <=> expense[e].status \in Counted
             /\ expense'[e].status = IF e \in Matching(window, from) THEN to
                                     ELSE expense[e].status
             /\ pending[e].active => expense'[e] = expense[e]
  <2>0. expense[e] \in ExpenseRow \cup {NoExpense}
    BY DEF TypeOK
  <2>1. CASE e \in Matching(window, from)
    <3>1. expense'[e] = [expense[e] EXCEPT !.status = to] /\ ~pending[e].active
      BY <1>1, <2>1
    <3>2. expense[e].status \in Counted
      BY <2>1 DEF Matching
    <3>3. expense[e] \in ExpenseRow
      BY <2>0, <3>2 DEF NoExpense, Counted
    <3>. QED
      BY <2>1, <3>1, <3>2, <3>3 DEF ExpenseRow
  <2>2. CASE e \notin Matching(window, from)
    <3>1. expense'[e] = expense[e]
      BY <1>1, <2>2
    <3>. QED
      BY <2>0, <2>2, <3>1
  <2>. QED
    BY <2>1, <2>2
<1>3. expense' \in ExpenseTable
  BY <1>1, <1>2 DEF ExpenseTable
<1>. QED
  BY <1>1, <1>2, <1>3 DEF MarkDoes

(* The initial state is well typed. *)
LEMMA TypeInit == ASSUME Init PROVE TypeOK
  BY DEF Init, TypeOK, Cycle

(* The closing of a cycle, paid in full or not. *)
RolledOver(k) == [j \in Cycle |-> IF j = k - 1 /\ status[j] = "CLOSED"
                                  THEN "ROLLED_OVER" ELSE status[j]]
PaidInFull(k) == TotalOf(k) + Rolled(k) - Worth(EarlyPayments, payment) <= 0

(* What register writes. *)
LEMMA RegisterShape ==
    ASSUME NEW k \in Cycle, Register(k)
    PROVE  /\ k < now /\ IsCurrent(k)
           /\ status' = [RolledOver(k) EXCEPT ![k] = IF PaidInFull(k) THEN "PAID" ELSE "CLOSED"]
           /\ previousBalance' = [previousBalance EXCEPT ![k] = Rolled(k)]
           /\ payment' = [p \in Payment |-> IF p \in EarlyPayments
                                            THEN [payment[p] EXCEPT !.statement = k]
                                            ELSE payment[p]]
           /\ PaidInFull(k) => MarkPaid(Chain(k, RolledOver(k)))
           /\ ~PaidInFull(k) => UNCHANGED <<expense, pending>>
           /\ UNCHANGED <<now, refund, available, balance>>
  BY DEF Register, RolledOver, PaidInFull, money

(* The payments that a closing takes over keep what they are worth. *)
LEMMA TakenOver ==
    ASSUME TypeOK, NEW k \in Cycle, Register(k)
    PROVE  /\ payment' \in PaymentTable
           /\ \A p \in Payment :
                /\ payment'[p].amount = payment[p].amount
                /\ payment'[p].paidOn = payment[p].paidOn
                /\ payment'[p] = NoPayment <=> payment[p] = NoPayment
                /\ payment'[p].statement = IF p \in EarlyPayments THEN k
                                           ELSE payment[p].statement
<1>1. payment' = [p \in Payment |-> IF p \in EarlyPayments
                                    THEN [payment[p] EXCEPT !.statement = k]
                                    ELSE payment[p]]
  BY RegisterShape
<1>2. ASSUME NEW p \in Payment
      PROVE  /\ payment'[p] \in PaymentRow \cup {NoPayment}
             /\ payment'[p].amount = payment[p].amount
             /\ payment'[p].paidOn = payment[p].paidOn
             /\ payment'[p] = NoPayment <=> payment[p] = NoPayment
             /\ payment'[p].statement = IF p \in EarlyPayments THEN k ELSE payment[p].statement
  <2>0. payment[p] \in PaymentRow \cup {NoPayment}
    BY DEF TypeOK
  <2>1. CASE p \in EarlyPayments
    <3>1. payment'[p] = [payment[p] EXCEPT !.statement = k] /\ payment[p] \in PaymentRow
      BY <1>1, <2>0, <2>1 DEF EarlyPayments, PaymentsOf
    <3>2. payment'[p] \in PaymentRow /\ payment'[p].statement = k
          /\ payment'[p].amount = payment[p].amount /\ payment'[p].paidOn = payment[p].paidOn
      BY <3>1 DEF PaymentRow, Cycle
    <3>3. payment'[p] # NoPayment /\ payment[p] # NoPayment
      BY <2>1, <3>2 DEF NoPayment, EarlyPayments, PaymentsOf, Cycle
    <3>. QED
      BY <2>1, <3>2, <3>3
  <2>2. CASE p \notin EarlyPayments
    BY <1>1, <2>0, <2>2
  <2>. QED
    BY <2>1, <2>2
<1>. QED
  BY <1>1, <1>2 DEF PaymentTable

(* A payment recorded: one row, the account and the limit. *)
LEMMA RecordShape ==
    ASSUME TypeOK, NEW p \in Payment, NEW s \in 0..NumCycles, NEW day \in Cycle, NEW a \in Amount,
           Record(p, [statement |-> s, paidOn |-> day, amount |-> a])
    PROVE  /\ payment' \in PaymentTable
           /\ payment[p] = NoPayment
           /\ payment'[p] = [statement |-> s, paidOn |-> day, amount |-> a]
           /\ payment'[p] # NoPayment
           /\ \A q \in Payment \ {p} : payment'[q] = payment[q]
           /\ balance' = balance - a /\ available' = available + a
           /\ balance' \in Int /\ available' \in Int
<1>1. PICK row : row = [statement |-> s, paidOn |-> day, amount |-> a]
  OBVIOUS
<1>2. row \in PaymentRow /\ row.amount = a /\ row # NoPayment
  BY <1>1 DEF PaymentRow, NoPayment, Amount
<1>3. /\ payment[p] = NoPayment
      /\ payment' = [payment EXCEPT ![p] = row]
      /\ balance' = balance - a /\ available' = available + a
  BY <1>1, <1>2 DEF Record
<1>4. a \in Int /\ balance \in Int /\ available \in Int /\ payment \in PaymentTable
  BY DEF TypeOK, Amount, PaymentTable
<1>. QED
  BY <1>1, <1>2, <1>3, <1>4 DEF PaymentTable

(* A payment undone. *)
LEMMA RevertShape ==
    ASSUME TypeOK, NEW p \in Payment, Revert(p)
    PROVE  /\ payment' \in PaymentTable
           /\ payment'[p] = NoPayment
           /\ \A q \in Payment \ {p} : payment'[q] = payment[q]
           /\ balance' = balance + payment[p].amount
           /\ available' = available - payment[p].amount
           /\ balance' \in Int /\ available' \in Int
<1>1. payment[p].amount \in Int /\ balance \in Int /\ available \in Int /\ payment \in PaymentTable
  BY PaymentFields DEF TypeOK, PaymentTable
<1>. QED
  BY <1>1 DEF Revert, PaymentTable


(* A payment of a closed statement, and an early one of the open statement. *)
LEMMA PayShape ==
    ASSUME TypeOK, NEW k \in Cycle, NEW p \in Payment, Pay(k, p)
    PROVE  \E a \in Amount :
             /\ CaughtUp /\ status[k] = "CLOSED" /\ a <= RemainingOf(k)
             /\ payment' \in PaymentTable /\ payment[p] = NoPayment
             /\ payment'[p] # NoPayment
             /\ payment'[p].statement = k /\ payment'[p].amount = a
             /\ \A q \in Payment \ {p} : payment'[q] = payment[q]
             /\ balance' = balance - a /\ available' = available + a
             /\ balance' \in Int /\ available' \in Int
             /\ a = RemainingOf(k) => /\ status' = [status EXCEPT ![k] = "PAID"]
                                      /\ MarkPaid(Chain(k, status))
             /\ a # RemainingOf(k) => UNCHANGED <<status, expense, pending>>
             /\ UNCHANGED <<now, refund, previousBalance>>
<1>1. PICK a \in Amount, day \in (k + 1)..now :
        /\ a <= RemainingOf(k)
        /\ Record(p, [statement |-> k, paidOn |-> day, amount |-> a])
        /\ a = RemainingOf(k) => /\ status' = [status EXCEPT ![k] = "PAID"]
                                 /\ MarkPaid(Chain(k, status))
        /\ a # RemainingOf(k) => UNCHANGED <<status, expense, pending>>
  BY DEF Pay
<1>2. k \in 0..NumCycles /\ day \in Cycle
  BY DEF Cycle, TypeOK
<1>3. /\ payment' \in PaymentTable /\ payment[p] = NoPayment
      /\ payment'[p] = [statement |-> k, paidOn |-> day, amount |-> a]
      /\ payment'[p] # NoPayment
      /\ \A q \in Payment \ {p} : payment'[q] = payment[q]
      /\ balance' = balance - a /\ available' = available + a
      /\ balance' \in Int /\ available' \in Int
  BY <1>1, <1>2, RecordShape
<1>4. payment'[p].statement = k /\ payment'[p].amount = a
  BY <1>3
<1>5. /\ CaughtUp /\ status[k] = "CLOSED"
      /\ UNCHANGED <<now, refund, previousBalance>>
  BY DEF Pay
<1>. QED
  BY <1>1, <1>3, <1>4, <1>5

(* What payEarly writes. *)
LEMMA PayEarlyShape ==
    ASSUME TypeOK, NEW k \in Cycle, NEW p \in Payment, PayEarly(k, p)
    PROVE  \E a \in Amount :
             /\ CaughtUp /\ IsCurrent(k)
             /\ payment' \in PaymentTable /\ payment[p] = NoPayment
             /\ payment'[p] # NoPayment
             /\ payment'[p].statement = 0 /\ payment'[p].amount = a
             /\ \A q \in Payment \ {p} : payment'[q] = payment[q]
             /\ balance' = balance - a /\ available' = available + a
             /\ balance' \in Int /\ available' \in Int
             /\ UNCHANGED <<now, expense, pending, refund, status, previousBalance>>
<1>1. PICK a \in Amount, day \in k..now :
        Record(p, [statement |-> 0, paidOn |-> day, amount |-> a])
  BY DEF PayEarly
<1>2. 0 \in 0..NumCycles /\ day \in Cycle
  BY DEF Cycle, TypeOK
<1>3. /\ payment' \in PaymentTable /\ payment[p] = NoPayment
      /\ payment'[p] = [statement |-> 0, paidOn |-> day, amount |-> a]
      /\ payment'[p] # NoPayment
      /\ \A q \in Payment \ {p} : payment'[q] = payment[q]
      /\ balance' = balance - a /\ available' = available + a
      /\ balance' \in Int /\ available' \in Int
  BY <1>1, <1>2, RecordShape
<1>4. payment'[p].statement = 0 /\ payment'[p].amount = a
  BY <1>3
<1>5. /\ CaughtUp /\ IsCurrent(k)
      /\ UNCHANGED <<now, expense, pending, refund, status, previousBalance>>
  BY DEF PayEarly, entries, statements
<1>. QED
  BY <1>3, <1>4, <1>5

(* Two payments undone: of the last statement, and early. *)
Reverted(p) ==
    /\ p \in Payment /\ payment[p] # NoPayment
    /\ payment' \in PaymentTable /\ payment'[p] = NoPayment
    /\ \A q \in Payment \ {p} : payment'[q] = payment[q]
    /\ balance' = balance + payment[p].amount
    /\ available' = available - payment[p].amount
    /\ balance' \in Int /\ available' \in Int
    /\ UNCHANGED <<now, refund, previousBalance>>

Reopens(k, p) == status[k] = "PAID" /\ RemainingOf(k) + payment[p].amount > 0

(* What the undoing of a payment writes; it reopens the debt when something remains again.
   *)
LEMMA UndoShape ==
    ASSUME TypeOK, NEW k \in Cycle, NEW p \in Payment, Undo(k, p)
    PROVE  /\ Reverted(p) /\ IsLast(k) /\ payment[p].statement = k
           /\ Reopens(k, p) => /\ status' = [status EXCEPT ![k] = "CLOSED"]
                               /\ MarkUnpaid(Chain(k, status))
           /\ ~Reopens(k, p) => UNCHANGED <<status, expense, pending>>
<1>1. payment[p] # NoPayment /\ payment[p].statement = k
  BY DEF Undo, PaymentsOf
<1>2. Reverted(p)
  BY <1>1, RevertShape DEF Undo, Reverted
<1>. QED
  BY <1>1, <1>2 DEF Undo, Reopens

(* What the undoing of an early payment writes. *)
LEMMA UndoEarlyShape ==
    ASSUME TypeOK, NEW p \in Payment, UndoEarly(p)
    PROVE  /\ Reverted(p) /\ payment[p].statement = 0
           /\ UNCHANGED <<status, expense, pending>>
<1>1. payment[p] # NoPayment /\ payment[p].statement = 0
  BY DEF UndoEarly, EarlyPayments, PaymentsOf
<1>2. Reverted(p)
  BY <1>1, RevertShape DEF UndoEarly, Reverted, entries, statements
<1>. QED
  BY <1>1, <1>2 DEF UndoEarly, entries, statements

(* A refund created or deleted. *)
RefundMoves(f) ==
    /\ refund' \in RefundTable
    /\ \A o \in Refund \ {f} : refund'[o] = refund[o]
    /\ refund[f].amount \in Int /\ refund'[f].amount \in Int
    /\ available' = available - refund[f].amount + refund'[f].amount
    /\ available' \in Int
    /\ refund[f] # NoRefund => refund[f].postedOn >= now
    /\ refund'[f] # NoRefund => refund'[f].postedOn >= now
    /\ UNCHANGED <<now, expense, pending, payment, status, previousBalance, balance>>

(* Creating or deleting a refund changes one row, of a cycle that is open, and the limit by
   its amount. *)
LEMMA RefundShape ==
    ASSUME TypeOK, NEW f \in Refund, CreateRefund(f) \/ DeleteRefund(f)
    PROVE  RefundMoves(f)
<1>0. refund \in RefundTable /\ available \in Int /\ now \in Cycle
  BY DEF TypeOK, RefundTable
<1>1. CASE CreateRefund(f)
  <2>1. PICK k \in now..NumCycles, a \in Amount :
          /\ refund' = [refund EXCEPT ![f] = [postedOn |-> k, amount |-> a]]
          /\ available' = available + a
    BY <1>1 DEF CreateRefund
  <2>2. PICK row : row = [postedOn |-> k, amount |-> a]
    OBVIOUS
  <2>3. row \in RefundRow /\ row.amount = a /\ row.postedOn = k /\ k >= now /\ a \in Int
    BY <1>0, <2>2 DEF RefundRow, Amount, Cycle
  <2>4. refund[f] = NoRefund /\ refund[f].amount = 0
    BY <1>1 DEF CreateRefund, NoRefund
  <2>5. refund'[f] = row /\ refund' \in RefundTable
        /\ \A o \in Refund \ {f} : refund'[o] = refund[o]
    BY <1>0, <2>1, <2>2, <2>3 DEF RefundTable
  <2>6. available' = available - refund[f].amount + refund'[f].amount /\ available' \in Int
        /\ refund'[f].amount \in Int /\ refund[f].amount \in Int
    BY <1>0, <2>1, <2>3, <2>4, <2>5
  <2>7. UNCHANGED <<now, expense, pending, payment, status, previousBalance, balance>>
    BY <1>1 DEF CreateRefund, statements
  <2>. QED
    BY <2>3, <2>4, <2>5, <2>6, <2>7 DEF RefundMoves
<1>2. CASE DeleteRefund(f)
  <2>1. /\ refund[f] # NoRefund /\ refund[f].postedOn >= now
        /\ refund' = [refund EXCEPT ![f] = NoRefund]
        /\ available' = available - refund[f].amount
        /\ UNCHANGED <<now, expense, pending, payment, status, previousBalance, balance>>
    BY <1>2 DEF DeleteRefund, statements
  <2>2. refund[f].amount \in Int
    BY <1>0, RefundFields DEF RefundTable
  <2>3. refund' \in RefundTable /\ refund'[f] = NoRefund /\ refund'[f].amount = 0
        /\ \A o \in Refund \ {f} : refund'[o] = refund[o]
    BY <1>0, <2>1 DEF RefundTable, NoRefund
  <2>4. available' = available - refund[f].amount + refund'[f].amount /\ available' \in Int
        /\ refund'[f].amount \in Int
    BY <1>0, <2>1, <2>2, <2>3
  <2>. QED
    BY <2>1, <2>2, <2>3, <2>4 DEF RefundMoves
<1>. QED
  BY <1>1, <1>2


-----------------------------------------------------------------------------
(* Types. *)

(* An operation on an expense begins, commits or is given up. *)
LEMMA ExpenseStepType ==
    ASSUME TypeOK, NEW e \in Expense, ExpenseStep(e)
    PROVE  TypeOK'
<1>0. pending \in [Expense -> Change \cup {Idle}] /\ expense \in ExpenseTable /\ available \in Int
  BY DEF TypeOK, ExpenseTable
<1>1. CASE BeginStep(e)
  <2>1. PICK row \in ExpenseRow \cup {NoExpense}, delta \in Int : Begin(e, row, delta)
    BY <1>1, BeginShape
  <2>2. PICK c : c = [row |-> row, delta |-> delta, active |-> TRUE]
    OBVIOUS
  <2>3. c \in Change
    BY <2>2 DEF Change
  <2>4. pending' = [pending EXCEPT ![e] = c]
    BY <2>1, <2>2 DEF Begin
  <2>5. pending' \in [Expense -> Change \cup {Idle}]
    BY <1>0, <2>3, <2>4
  <2>. QED
    BY <2>1, <2>5 DEF Begin, TypeOK, statements, money
<1>2. CASE CommitExpense(e)
  <2>1. pending[e] # Idle
    BY <1>2 DEF CommitExpense, Idle
  <2>2. pending[e].row \in ExpenseRow \cup {NoExpense} /\ pending[e].delta \in Int
    BY <1>0, <2>1 DEF Change
  <2>3. expense' \in ExpenseTable /\ available' \in Int /\ pending' \in [Expense -> Change \cup {Idle}]
    BY <1>0, <1>2, <2>2 DEF CommitExpense, ExpenseTable
  <2>. QED
    BY <1>2, <2>3 DEF CommitExpense, TypeOK, statements, ExpenseTable
<1>3. CASE RollbackExpense(e)
  <2>1. pending' \in [Expense -> Change \cup {Idle}]
    BY <1>0, <1>3 DEF RollbackExpense
  <2>. QED
    BY <1>3, <2>1 DEF RollbackExpense, TypeOK, statements, money
<1>. QED
  BY <1>1, <1>2, <1>3 DEF ExpenseStep, BeginStep

(* Closing keeps the types. *)
LEMMA RegisterType ==
    ASSUME TypeOK, NEW k \in Cycle, Register(k)
    PROVE  TypeOK'
<1>1. payment' \in PaymentTable
  BY TakenOver
<1>2. status' \in [Cycle -> {"OPEN", "CLOSED", "PAID", "ROLLED_OVER"}]
  <2>1. RolledOver(k) \in [Cycle -> {"OPEN", "CLOSED", "PAID", "ROLLED_OVER"}]
    BY DEF RolledOver, TypeOK
  <2>2. status' = [RolledOver(k) EXCEPT ![k] = IF PaidInFull(k) THEN "PAID" ELSE "CLOSED"]
    BY RegisterShape
  <2>. QED
    BY <2>1, <2>2
<1>3. previousBalance' \in [Cycle -> Int]
  BY ValueTypes, RegisterShape DEF TypeOK
<1>4. expense' \in ExpenseTable /\ pending' = pending
  <2>1. CASE PaidInFull(k)
    <3>1. MarkPaid(Chain(k, RolledOver(k)))
      BY <2>1, RegisterShape
    <3>2. PICK window : window = Chain(k, RolledOver(k))
      OBVIOUS
    <3>3. Mark(window, LimitConsuming, "PAID")
      BY <3>1, <3>2 DEF MarkPaid
    <3>4. MarkDoes(window, LimitConsuming, "PAID")
      BY <3>3, MarkShape DEF LimitConsuming, Counted
    <3>. QED
      BY <3>4 DEF MarkDoes
  <2>2. CASE ~PaidInFull(k)
    BY <2>2, RegisterShape DEF TypeOK, ExpenseTable
  <2>. QED
    BY <2>1, <2>2
<1>. QED
  BY <1>1, <1>2, <1>3, <1>4, RegisterShape DEF TypeOK, ExpenseTable, PaymentTable

(* Payments keep the types. *)
LEMMA PayType ==
    ASSUME TypeOK, NEW k \in Cycle, NEW p \in Payment, Pay(k, p)
    PROVE  TypeOK'
<1>1. PICK a \in Amount :
        /\ payment' \in PaymentTable /\ balance' \in Int /\ available' \in Int
        /\ a = RemainingOf(k) => /\ status' = [status EXCEPT ![k] = "PAID"]
                                 /\ MarkPaid(Chain(k, status))
        /\ a # RemainingOf(k) => UNCHANGED <<status, expense, pending>>
        /\ UNCHANGED <<now, refund, previousBalance>>
  BY PayShape
<1>2. CASE a = RemainingOf(k)
  <2>1. PICK window : window = Chain(k, status)
    OBVIOUS
  <2>2. Mark(window, LimitConsuming, "PAID")
    BY <1>1, <1>2, <2>1 DEF MarkPaid
  <2>3. MarkDoes(window, LimitConsuming, "PAID")
    BY <2>2, MarkShape DEF LimitConsuming, Counted
  <2>4. status' \in [Cycle -> {"OPEN", "CLOSED", "PAID", "ROLLED_OVER"}]
    BY <1>1, <1>2 DEF TypeOK
  <2>. QED
    BY <1>1, <2>3, <2>4 DEF TypeOK, MarkDoes, ExpenseTable, PaymentTable
<1>3. CASE a # RemainingOf(k)
  BY <1>1, <1>3 DEF TypeOK, PaymentTable
<1>. QED
  BY <1>2, <1>3

(* Undoing a payment keeps the types. *)
LEMMA UndoType ==
    ASSUME TypeOK, NEW k \in Cycle, NEW p \in Payment, Undo(k, p)
    PROVE  TypeOK'
<1>1. /\ Reverted(p)
      /\ Reopens(k, p) => /\ status' = [status EXCEPT ![k] = "CLOSED"]
                          /\ MarkUnpaid(Chain(k, status))
      /\ ~Reopens(k, p) => UNCHANGED <<status, expense, pending>>
  BY UndoShape
<1>2. CASE Reopens(k, p)
  <2>1. PICK window : window = Chain(k, status)
    OBVIOUS
  <2>2. Mark(window, {"PAID"}, "OPEN")
    BY <1>1, <1>2, <2>1 DEF MarkUnpaid
  <2>3. MarkDoes(window, {"PAID"}, "OPEN")
    BY <2>2, MarkShape DEF Counted
  <2>4. status' \in [Cycle -> {"OPEN", "CLOSED", "PAID", "ROLLED_OVER"}]
    BY <1>1, <1>2 DEF TypeOK
  <2>. QED
    BY <1>1, <2>3, <2>4 DEF TypeOK, MarkDoes, ExpenseTable, PaymentTable, Reverted
<1>3. CASE ~Reopens(k, p)
  BY <1>1, <1>3 DEF TypeOK, PaymentTable, Reverted
<1>. QED
  BY <1>2, <1>3

(* Every step keeps the types. *)
LEMMA TypeNext == ASSUME TypeOK, [Next]_vars PROVE TypeOK'
<1>1. CASE EndCycle
  BY <1>1 DEF EndCycle, TypeOK, Cycle, entries, statements, money
<1>2. ASSUME NEW k \in Cycle, NEW p \in Payment, PayEarly(k, p)
      PROVE  TypeOK'
  BY <1>2, PayEarlyShape DEF TypeOK, PaymentTable
<1>3. ASSUME NEW p \in Payment, UndoEarly(p)
      PROVE  TypeOK'
  BY <1>3, UndoEarlyShape DEF TypeOK, PaymentTable, Reverted
<1>4. ASSUME NEW f \in Refund, CreateRefund(f) \/ DeleteRefund(f)
      PROVE  TypeOK'
  BY <1>4, RefundShape DEF TypeOK, RefundTable, RefundMoves
<1>5. CASE UNCHANGED vars
  BY <1>5 DEF TypeOK, vars, entries, statements, money
<1>. QED
  BY <1>1, <1>2, <1>3, <1>4, <1>5, ExpenseStepType, RegisterType, PayType, UndoType DEF Next

(* Every variable keeps its type, in every state that the operations of    *)
(* cards, statements, payments and refunds can reach.                      *)
THEOREM TypeCorrect == Spec => []TypeOK
<1>1. Init => TypeOK
  BY TypeInit
<1>2. TypeOK /\ [Next]_vars => TypeOK'
  BY TypeNext
<1>. QED
  BY <1>1, <1>2, PTL DEF Spec


-----------------------------------------------------------------------------
(* The limit and the account. *)

(* What each operation in progress will add to the limit still fits. *)
Pendings == \A e \in Expense :
    pending[e].active => Fits(expense[e], pending[e].row, pending[e].delta)

(* MoneyConserved, in sums over all cycles. *)
MoneyHolds ==
    /\ available = CreditLimit - Charged(Cycle, expense) + Returned(0..NumCycles, refund)
                               + Worth(Payment, payment)
    /\ balance = Opening - Worth(Payment, payment)

MoneyInv == TypeOK /\ Pendings /\ MoneyHolds

(* The property the runs check, in the operators of this module. *)
LEMMA MoneyForm == ASSUME TypeOK PROVE MoneyConserved <=> MoneyHolds
<1>1. Spent = ChargedRows(Cycle, expense)
  <2>1. ASSUME NEW e \in Expense, expense[e].status \in Counted
        PROVE  expense[e].postedOn \in Cycle
    <3>1. expense[e] \in ExpenseRow \cup {NoExpense} /\ expense[e].status # "NONE"
      BY <2>1 DEF TypeOK, Counted
    <3>. QED
      BY <3>1, ExpenseFields
  <2>. QED
    BY <2>1 DEF Spent, ChargedRows
<1>2. Refund = ReturnedRows(0..NumCycles, refund)
  <2>1. ASSUME NEW f \in Refund
        PROVE  refund[f].postedOn \in 0..NumCycles
    BY RefundFields DEF TypeOK
  <2>. QED
    BY <2>1 DEF ReturnedRows
<1>3. Worth(Spent, expense) = Charged(Cycle, expense)
  BY <1>1 DEF Charged
<1>4. Worth(Refund, refund) = Returned(0..NumCycles, refund)
  BY <1>2 DEF Returned
<1>. QED
  BY <1>3, <1>4 DEF MoneyConserved, MoneyHolds

(* A charge counts in one of the cycles, a refund always. *)
LEMMA InSomeCycle ==
    /\ \A r \in ExpenseRow \cup {NoExpense} :
         ChargeIn(r, Cycle) = Charge(r) /\ Charge(r) \in Int
    /\ \A r \in RefundRow \cup {NoRefund} : RefundIn(r, 0..NumCycles) = r.amount
<1>1. ASSUME NEW r \in ExpenseRow \cup {NoExpense}
      PROVE  ChargeIn(r, Cycle) = Charge(r) /\ Charge(r) \in Int
  BY ExpenseFields DEF ChargeIn, Charge, Counted
<1>2. ASSUME NEW r \in RefundRow \cup {NoRefund}
      PROVE  RefundIn(r, 0..NumCycles) = r.amount
  BY RefundFields DEF RefundIn
<1>. QED
  BY <1>1, <1>2

(* The sums of money are integers. *)
LEMMA MoneyTypes ==
    /\ Charged(Cycle, expense) \in Int
    /\ Returned(0..NumCycles, refund) \in Int
    /\ Worth(Payment, payment) \in Int
    /\ CreditLimit \in Int /\ Opening \in Int
<1>1. Charged(Cycle, expense) \in Nat /\ Returned(0..NumCycles, refund) \in Nat
  BY SumTypes
<1>2. Worth(Payment, payment) \in Nat
  BY WorthType
<1>. QED
  BY <1>1, <1>2

(* Nothing is spent, returned or paid at the start. *)
LEMMA MoneyInit == ASSUME Init PROVE MoneyInv
<1>1. TypeOK
  BY TypeInit
<1>2. Pendings
  BY DEF Init, Pendings, Idle
<1>3. Charged(Cycle, expense) = 0
  <2>1. ChargedRows(Cycle, expense) = {}
    BY DEF Init, ChargedRows, NoExpense, Counted
  <2>. QED
    BY <2>1, WorthEmpty DEF Charged
<1>4. Worth(Refund, refund) = 0
  <2>1. \A f \in Refund : refund[f].amount = 0
    BY DEF Init, NoRefund
  <2>. QED
    BY <2>1, WorthZero
<1>5. Worth(Payment, payment) = 0
  <2>1. \A p \in Payment : payment[p].amount = 0
    BY DEF Init, NoPayment
  <2>. QED
    BY <2>1, WorthZero
<1>6. Worth(Spent, expense) = 0
  <2>1. Spent = {}
    BY DEF Init, Spent, NoExpense, Counted
  <2>. QED
    BY <2>1, WorthEmpty
<1>7. MoneyConserved
  BY <1>4, <1>5, <1>6 DEF MoneyConserved, Init
<1>. QED
  BY <1>1, <1>2, <1>7, MoneyForm DEF MoneyInv

(* The three steps of an operation on an expense. *)
LEMMA ExpenseStepMoney ==
    ASSUME MoneyInv, NEW e \in Expense, ExpenseStep(e)
    PROVE  Pendings' /\ MoneyHolds'
<1>0. TypeOK /\ Pendings /\ MoneyHolds
  BY DEF MoneyInv
<1>1. pending \in [Expense -> Change \cup {Idle}] /\ expense \in ExpenseTable
  BY <1>0 DEF TypeOK, ExpenseTable
<1>2. CASE BeginStep(e)
  <2>1. PICK row \in ExpenseRow \cup {NoExpense}, delta \in Int :
          Begin(e, row, delta) /\ Fits(expense[e], row, delta)
    BY <1>0, <1>2, BeginShape
  <2>2. /\ pending' = [pending EXCEPT ![e] = [row |-> row, delta |-> delta, active |-> TRUE]]
        /\ UNCHANGED <<expense, refund, payment, available, balance>>
    BY <2>1 DEF Begin, money
  <2>3. Pendings'
    <3>1. pending'[e].row = row /\ pending'[e].delta = delta
      BY <1>1, <2>2
    <3>2. \A o \in Expense \ {e} : pending'[o] = pending[o]
      BY <1>1, <2>2
    <3>3. ASSUME NEW o \in Expense, pending'[o].active
          PROVE  Fits(expense'[o], pending'[o].row, pending'[o].delta)
      <4>1. CASE o = e
        BY <2>1, <2>2, <3>1, <4>1
      <4>2. CASE o # e
        BY <1>0, <2>2, <3>2, <3>3, <4>2 DEF Pendings
      <4>. QED
        BY <4>1, <4>2
    <3>. QED
      BY <3>3 DEF Pendings, Fits, Charge
  <2>4. MoneyHolds'
    BY <1>0, <2>2 DEF MoneyHolds
  <2>. QED
    BY <2>3, <2>4
<1>3. CASE CommitExpense(e)
  <2>1. /\ pending[e].active
        /\ expense' = [expense EXCEPT ![e] = pending[e].row]
        /\ available' = available + pending[e].delta
        /\ pending' = [pending EXCEPT ![e] = Idle]
        /\ UNCHANGED <<refund, payment, balance>>
    BY <1>3 DEF CommitExpense
  <2>2. pending[e].row \in ExpenseRow \cup {NoExpense} /\ pending[e].delta \in Int
    <3>1. pending[e] # Idle
      BY <2>1 DEF Idle
    <3>. QED
      BY <1>1, <3>1 DEF Change
  <2>3. PICK g \in ExpenseTable : g = expense'
    BY <1>1, <2>1, <2>2 DEF ExpenseTable
  <2>4. \A o \in Expense \ {e} : g[o] = expense[o]
    BY <1>1, <2>1, <2>3 DEF ExpenseTable
  <2>5. g[e] = pending[e].row
    BY <1>1, <2>1, <2>3 DEF ExpenseTable
  <2>6. Charged(Cycle, g) = Charged(Cycle, expense) - ChargeIn(expense[e], Cycle) + ChargeIn(g[e], Cycle)
    BY <1>1, <2>4, ChargedSwap
  <2>7. /\ ChargeIn(expense[e], Cycle) = Charge(expense[e]) /\ Charge(expense[e]) \in Int
        /\ ChargeIn(g[e], Cycle) = Charge(g[e]) /\ Charge(g[e]) \in Int
    BY <1>1, <2>2, <2>5, InSomeCycle DEF ExpenseTable
  <2>8. pending[e].delta = Charge(expense[e]) - Charge(g[e])
    BY <1>0, <2>1, <2>5 DEF Pendings, Fits
  <2>9. MoneyHolds'
    <3>1. Charged(Cycle, g) = Charged(Cycle, expense) - pending[e].delta
      BY <2>6, <2>7, <2>8, MoneyTypes
    <3>2. available = CreditLimit - Charged(Cycle, expense) + Returned(0..NumCycles, refund)
                                  + Worth(Payment, payment)
      BY <1>0 DEF MoneyHolds
    <3>3. available' = available + pending[e].delta
      BY <2>1
    <3>4. available' = CreditLimit - Charged(Cycle, g) + Returned(0..NumCycles, refund)
                                   + Worth(Payment, payment)
      BY SMTT(30), <2>2, <3>1, <3>2, <3>3, MoneyTypes
    <3>. QED
      BY <1>0, <2>1, <2>3, <3>4 DEF MoneyHolds
  <2>10. Pendings'
    <3>1. \A o \in Expense \ {e} : pending'[o] = pending[o] /\ expense'[o] = expense[o]
      BY <1>1, <2>1, <2>3, <2>4
    <3>2. ~pending'[e].active
      BY <1>1, <2>1 DEF Idle
    <3>3. ASSUME NEW o \in Expense, pending'[o].active
          PROVE  Fits(expense'[o], pending'[o].row, pending'[o].delta)
      BY <1>0, <3>1, <3>2, <3>3 DEF Pendings
    <3>. QED
      BY <3>3 DEF Pendings, Fits, Charge
  <2>. QED
    BY <2>9, <2>10
<1>4. CASE RollbackExpense(e)
  <2>1. /\ pending' = [pending EXCEPT ![e] = Idle]
        /\ UNCHANGED <<expense, refund, payment, available, balance>>
    BY <1>4 DEF RollbackExpense, money
  <2>2. Pendings'
    BY <1>0, <1>1, <2>1 DEF Pendings, Idle, Fits, Charge
  <2>. QED
    BY <1>0, <2>1, <2>2 DEF MoneyHolds
<1>. QED
  BY <1>2, <1>3, <1>4 DEF ExpenseStep, BeginStep


(* A mark moves no money, and no row of an operation in progress. *)
LEMMA MarkMoney ==
    ASSUME TypeOK, Pendings, NEW window, NEW from, NEW to,
           from \subseteq Counted, to \in Counted, Mark(window, from, to)
    PROVE  Pendings' /\ \A W : Charged(W, expense') = Charged(W, expense)
<1>1. MarkDoes(window, from, to)
  BY MarkShape
<1>2. ASSUME NEW W
      PROVE  Charged(W, expense') = Charged(W, expense)
  BY <1>1, ChargedMarked DEF MarkDoes
<1>3. Pendings'
  BY <1>1 DEF Pendings, MarkDoes, Fits, Charge
<1>. QED
  BY <1>2, <1>3

(* Closing moves no money: what it changes are marks and the statement of the early
   payments. *)
LEMMA RegisterMoney ==
    ASSUME MoneyInv, NEW k \in Cycle, Register(k)
    PROVE  Pendings' /\ MoneyHolds'
<1>0. TypeOK /\ Pendings /\ MoneyHolds
  BY DEF MoneyInv
<1>1. Pendings' /\ Charged(Cycle, expense') = Charged(Cycle, expense)
  <2>1. CASE PaidInFull(k)
    <3>1. PICK window : window = Chain(k, RolledOver(k))
      OBVIOUS
    <3>2. Mark(window, LimitConsuming, "PAID")
      BY <2>1, <3>1, RegisterShape DEF MarkPaid
    <3>. QED
      BY <1>0, <3>2, MarkMoney DEF LimitConsuming, Counted
  <2>2. CASE ~PaidInFull(k)
    <3>1. UNCHANGED <<expense, pending>>
      BY <2>2, RegisterShape
    <3>. QED
      BY <1>0, <3>1 DEF Pendings, Fits, Charge
  <2>. QED
    BY <2>1, <2>2
<1>2. Worth(Payment, payment') = Worth(Payment, payment)
  BY <1>0, TakenOver, WorthSame
<1>3. UNCHANGED <<refund, available, balance>>
  BY RegisterShape
<1>. QED
  BY <1>0, <1>1, <1>2, <1>3 DEF MoneyHolds

(* Recording or undoing one payment moves the account and the limit alike. *)
LEMMA PaymentMoney ==
    ASSUME TypeOK, MoneyHolds, NEW p \in Payment, payment' \in PaymentTable,
           \A q \in Payment \ {p} : payment'[q] = payment[q],
           NEW d \in Int, d = payment'[p].amount - payment[p].amount,
           balance' = balance - d, available' = available + d, refund' = refund,
           Charged(Cycle, expense') = Charged(Cycle, expense)
    PROVE  MoneyHolds'
<1>1. PICK g \in PaymentTable : g = payment'
  OBVIOUS
<1>2. payment \in PaymentTable
  BY DEF TypeOK, PaymentTable
<1>3. Worth(Payment, g) = Worth(Payment, payment) - payment[p].amount + g[p].amount
  BY <1>1, <1>2, PaidSwap
<1>4. payment[p].amount \in Int /\ g[p].amount \in Int
  BY <1>2, PaymentFields DEF PaymentTable
<1>5. Worth(Payment, g) = Worth(Payment, payment) + d
  BY <1>1, <1>3, <1>4, MoneyTypes
<1>6. /\ available = CreditLimit - Charged(Cycle, expense) + Returned(0..NumCycles, refund)
                                 + Worth(Payment, payment)
      /\ balance = Opening - Worth(Payment, payment)
  BY DEF MoneyHolds
<1>7. PICK c \in Int, r \in Int, w \in Int :
        c = Charged(Cycle, expense) /\ r = Returned(0..NumCycles, refund) /\ w = Worth(Payment, payment)
  BY MoneyTypes
<1>8. available = CreditLimit - c + r + w /\ balance = Opening - w /\ Worth(Payment, g) = w + d
  BY <1>5, <1>6, <1>7
<1>9. available + d = CreditLimit - c + r + (w + d) /\ balance - d = Opening - (w + d)
  BY SMTT(30), <1>8, MoneyTypes
<1>10. /\ available' = CreditLimit - Charged(Cycle, expense) + Returned(0..NumCycles, refund)
                                   + Worth(Payment, g)
       /\ balance' = Opening - Worth(Payment, g)
  BY <1>7, <1>8, <1>9
<1>. QED
  BY <1>1, <1>10 DEF MoneyHolds

(* A payment moves the account, the limit and the sum of the payments by one amount. *)
LEMMA PayMoney ==
    ASSUME MoneyInv, NEW k \in Cycle, NEW p \in Payment, Pay(k, p) \/ PayEarly(k, p)
    PROVE  Pendings' /\ MoneyHolds'
<1>0. TypeOK /\ Pendings /\ MoneyHolds
  BY DEF MoneyInv
<1>1. \E a \in Amount :
        /\ payment' \in PaymentTable /\ payment[p] = NoPayment /\ payment'[p].amount = a
        /\ \A q \in Payment \ {p} : payment'[q] = payment[q]
        /\ balance' = balance - a /\ available' = available + a
        /\ refund' = refund
        /\ Pendings' /\ Charged(Cycle, expense') = Charged(Cycle, expense)
  <2>1. CASE Pay(k, p)
    <3>1. PICK a \in Amount :
            /\ payment' \in PaymentTable /\ payment[p] = NoPayment /\ payment'[p].amount = a
            /\ \A q \in Payment \ {p} : payment'[q] = payment[q]
            /\ balance' = balance - a /\ available' = available + a
            /\ a = RemainingOf(k) => MarkPaid(Chain(k, status))
            /\ a # RemainingOf(k) => UNCHANGED <<status, expense, pending>>
            /\ refund' = refund
      BY <1>0, <2>1, PayShape
    <3>2. CASE a = RemainingOf(k)
      <4>1. PICK window : window = Chain(k, status)
        OBVIOUS
      <4>2. Mark(window, LimitConsuming, "PAID")
        BY <3>1, <3>2, <4>1 DEF MarkPaid
      <4>3. Pendings' /\ Charged(Cycle, expense') = Charged(Cycle, expense)
        BY <1>0, <4>2, MarkMoney DEF LimitConsuming, Counted
      <4>. QED
        BY <3>1, <4>3
    <3>3. CASE a # RemainingOf(k)
      <4>1. Pendings'
        BY <1>0, <3>1, <3>3 DEF Pendings, Fits, Charge
      <4>2. Charged(Cycle, expense') = Charged(Cycle, expense)
        BY <3>1, <3>3
      <4>. QED
        BY <3>1, <4>1, <4>2
    <3>. QED
      BY <3>2, <3>3
  <2>2. CASE PayEarly(k, p)
    <3>1. PICK a \in Amount :
            /\ payment' \in PaymentTable /\ payment[p] = NoPayment /\ payment'[p].amount = a
            /\ \A q \in Payment \ {p} : payment'[q] = payment[q]
            /\ balance' = balance - a /\ available' = available + a
            /\ UNCHANGED <<expense, pending, refund>>
      BY <1>0, <2>2, PayEarlyShape
    <3>2. Pendings'
      BY <1>0, <3>1 DEF Pendings, Fits, Charge
    <3>. QED
      BY <3>1, <3>2
  <2>. QED
    BY <2>1, <2>2
<1>2. PICK a \in Amount :
        /\ payment' \in PaymentTable /\ payment[p] = NoPayment /\ payment'[p].amount = a
        /\ \A q \in Payment \ {p} : payment'[q] = payment[q]
        /\ balance' = balance - a /\ available' = available + a
        /\ refund' = refund
        /\ Pendings' /\ Charged(Cycle, expense') = Charged(Cycle, expense)
  BY <1>1
<1>3. a \in Int /\ a = payment'[p].amount - payment[p].amount
  BY <1>2 DEF Amount, NoPayment
<1>4. MoneyHolds'
  BY <1>0, <1>2, <1>3, PaymentMoney
<1>. QED
  BY <1>2, <1>4

(* Undoing a payment moves them back by the amount of the row it deletes. *)
LEMMA UndoMoney ==
    ASSUME MoneyInv, NEW k \in Cycle, NEW p \in Payment, Undo(k, p)
    PROVE  Pendings' /\ MoneyHolds'
<1>0. TypeOK /\ Pendings /\ MoneyHolds
  BY DEF MoneyInv
<1>1. /\ Reverted(p)
      /\ Reopens(k, p) => MarkUnpaid(Chain(k, status))
      /\ ~Reopens(k, p) => UNCHANGED <<status, expense, pending>>
  BY <1>0, UndoShape
<1>2. Pendings' /\ Charged(Cycle, expense') = Charged(Cycle, expense)
  <2>1. CASE Reopens(k, p)
    <3>1. PICK window : window = Chain(k, status)
      OBVIOUS
    <3>2. Mark(window, {"PAID"}, "OPEN")
      BY <1>1, <2>1, <3>1 DEF MarkUnpaid
    <3>. QED
      BY <1>0, <3>2, MarkMoney DEF Counted
  <2>2. CASE ~Reopens(k, p)
    BY <1>0, <1>1, <2>2 DEF Pendings, Fits, Charge
  <2>. QED
    BY <2>1, <2>2
<1>3. payment[p].amount \in Int /\ balance \in Int /\ available \in Int
  BY <1>0, PaymentFields DEF TypeOK
<1>4. PICK d \in Int : d = -payment[p].amount
  BY <1>3
<1>5. /\ d = payment'[p].amount - payment[p].amount
      /\ balance' = balance - d /\ available' = available + d
  BY <1>1, <1>3, <1>4 DEF Reverted, NoPayment
<1>6. MoneyHolds'
  BY <1>0, <1>1, <1>2, <1>5, PaymentMoney DEF Reverted
<1>. QED
  BY <1>2, <1>6

(* And so does undoing an early one. *)
LEMMA UndoEarlyMoney ==
    ASSUME MoneyInv, NEW p \in Payment, UndoEarly(p)
    PROVE  Pendings' /\ MoneyHolds'
<1>0. TypeOK /\ Pendings /\ MoneyHolds
  BY DEF MoneyInv
<1>1. Reverted(p) /\ UNCHANGED <<expense, pending>>
  BY <1>0, UndoEarlyShape
<1>2. payment[p].amount \in Int /\ balance \in Int /\ available \in Int
  BY <1>0, PaymentFields DEF TypeOK
<1>3. PICK d \in Int : d = -payment[p].amount
  BY <1>2
<1>4. /\ d = payment'[p].amount - payment[p].amount
      /\ balance' = balance - d /\ available' = available + d
  BY <1>1, <1>2, <1>3 DEF Reverted, NoPayment
<1>5. MoneyHolds'
  BY <1>0, <1>1, <1>4, PaymentMoney DEF Reverted
<1>. QED
  BY <1>0, <1>1, <1>5 DEF Pendings, Fits, Charge

(* A refund moves the limit by what it adds to the refunds. *)
LEMMA RefundMoney ==
    ASSUME MoneyInv, NEW f \in Refund, RefundMoves(f)
    PROVE  Pendings' /\ MoneyHolds'
<1>0. TypeOK /\ Pendings /\ MoneyHolds
  BY DEF MoneyInv
<1>1. PICK g \in RefundTable : g = refund'
  BY DEF RefundMoves
<1>2. refund \in RefundTable
  BY <1>0 DEF TypeOK, RefundTable
<1>3. PICK W : W = 0..NumCycles
  OBVIOUS
<1>4. Returned(W, g) = Returned(W, refund) - RefundIn(refund[f], W) + RefundIn(g[f], W)
  BY <1>1, <1>2, ReturnedSwap DEF RefundMoves
<1>5. RefundIn(refund[f], W) = refund[f].amount /\ RefundIn(g[f], W) = g[f].amount
  BY <1>2, <1>3, InSomeCycle DEF RefundTable
<1>6. refund[f].amount \in Int /\ g[f].amount \in Int
  BY <1>1 DEF RefundMoves
<1>7. Returned(W, g) = Returned(W, refund) - refund[f].amount + g[f].amount
  BY <1>4, <1>5
<1>8. available = CreditLimit - Charged(Cycle, expense) + Returned(W, refund)
                                + Worth(Payment, payment)
  BY <1>0, <1>3 DEF MoneyHolds
<1>9. available' = available - refund[f].amount + g[f].amount
  BY <1>1 DEF RefundMoves
<1>10. Returned(W, refund) \in Int
  BY <1>3, MoneyTypes
<1>11. available' = CreditLimit - Charged(Cycle, expense) + Returned(W, g)
                                + Worth(Payment, payment)
  <2>1. PICK c \in Int, r \in Int, w \in Int :
          c = Charged(Cycle, expense) /\ r = Returned(W, refund) /\ w = Worth(Payment, payment)
    BY <1>10, MoneyTypes
  <2>2. PICK x \in Int, y \in Int : x = refund[f].amount /\ y = g[f].amount
    BY <1>6
  <2>3. available = CreditLimit - c + r + w /\ available' = available - x + y
        /\ Returned(W, g) = r - x + y
    BY <1>7, <1>8, <1>9, <2>1, <2>2
  <2>4. available' = CreditLimit - c + (r - x + y) + w
    BY <2>3, MoneyTypes
  <2>. QED
    BY <2>1, <2>3, <2>4
<1>12. UNCHANGED <<expense, pending, payment, balance>>
  BY DEF RefundMoves
<1>13. MoneyHolds'
  BY <1>0, <1>1, <1>3, <1>11, <1>12 DEF MoneyHolds
<1>. QED
  BY <1>0, <1>12, <1>13 DEF Pendings, Fits, Charge

(* Every step keeps the money. *)
LEMMA MoneyNext == ASSUME MoneyInv, [Next]_vars PROVE MoneyInv'
<1>0. TypeOK /\ Pendings /\ MoneyHolds
  BY DEF MoneyInv
<1>1. TypeOK'
  BY <1>0, TypeNext
<1>2. ASSUME EndCycle PROVE Pendings' /\ MoneyHolds'
  BY <1>0, <1>2 DEF Pendings, Fits, Charge, MoneyHolds, EndCycle, entries, money
<1>3. ASSUME NEW k \in Cycle, Register(k)
      PROVE  Pendings' /\ MoneyHolds'
  BY <1>3, RegisterMoney
<1>4. ASSUME NEW k \in Cycle, NEW p \in Payment, Pay(k, p) \/ PayEarly(k, p) \/ Undo(k, p)
      PROVE  Pendings' /\ MoneyHolds'
  BY <1>4, PayMoney, UndoMoney
<1>5. ASSUME NEW p \in Payment, UndoEarly(p)
      PROVE  Pendings' /\ MoneyHolds'
  BY <1>5, UndoEarlyMoney
<1>6. ASSUME NEW f \in Refund, CreateRefund(f) \/ DeleteRefund(f)
      PROVE  Pendings' /\ MoneyHolds'
  BY <1>0, <1>6, RefundShape, RefundMoney
<1>7. ASSUME NEW e \in Expense, ExpenseStep(e)
      PROVE  Pendings' /\ MoneyHolds'
  BY <1>7, ExpenseStepMoney
<1>8. ASSUME UNCHANGED vars PROVE Pendings' /\ MoneyHolds'
  BY <1>0, <1>8 DEF Pendings, Fits, Charge, MoneyHolds, vars, entries, money
<1>9. Pendings' /\ MoneyHolds'
  BY <1>2, <1>3, <1>4, <1>5, <1>6, <1>7, <1>8 DEF Next
<1>. QED
  BY <1>1, <1>9 DEF MoneyInv

(* INV-0012-03, INV-0013-06, INV-0013-11: the limit is the limit of the    *)
(* card minus the confirmed expenses plus refunds and payments, and the    *)
(* account has paid exactly the payments that stand, even if cycles end    *)
(* while requests are in progress.                                         *)
THEOREM MoneyIsConserved == Spec => []MoneyConserved
<1>1. Init => MoneyInv
  BY MoneyInit
<1>2. MoneyInv /\ [Next]_vars => MoneyInv'
  BY MoneyNext
<1>3. MoneyInv => MoneyConserved
  BY MoneyForm DEF MoneyInv
<1>. QED
  BY <1>1, <1>2, <1>3, PTL DEF Spec


-----------------------------------------------------------------------------
(* A recorded statement stays recorded. *)
LEMMA RecordedStep ==
    ASSUME TypeOK, [Next]_vars, NEW k \in Cycle, status[k] # "OPEN"
    PROVE  /\ status'[k] # "OPEN"
           /\ previousBalance'[k] = previousBalance[k]
           /\ status[k] = "ROLLED_OVER" => status'[k] = "ROLLED_OVER"
<1>0. status \in [Cycle -> {"OPEN", "CLOSED", "PAID", "ROLLED_OVER"}]
      /\ previousBalance \in [Cycle -> Int]
  BY DEF TypeOK
<1>1. ASSUME UNCHANGED <<status, previousBalance>>
      PROVE  /\ status'[k] # "OPEN"
             /\ previousBalance'[k] = previousBalance[k]
             /\ status[k] = "ROLLED_OVER" => status'[k] = "ROLLED_OVER"
  BY <1>1
<1>2. ASSUME NEW c \in Cycle, Register(c)
      PROVE  /\ status'[k] # "OPEN"
             /\ previousBalance'[k] = previousBalance[k]
             /\ status[k] = "ROLLED_OVER" => status'[k] = "ROLLED_OVER"
  <2>1. /\ status' = [RolledOver(c) EXCEPT ![c] = IF PaidInFull(c) THEN "PAID" ELSE "CLOSED"]
        /\ previousBalance' = [previousBalance EXCEPT ![c] = Rolled(c)]
        /\ c # k
    BY <1>2, RegisterShape DEF IsCurrent, Recorded
  <2>2. status'[k] = RolledOver(c)[k]
    BY <2>1 DEF RolledOver
  <2>. QED
    BY <1>0, <2>1, <2>2 DEF RolledOver
<1>3. ASSUME NEW c \in Cycle, NEW p \in Payment, Pay(c, p)
      PROVE  /\ status'[k] # "OPEN"
             /\ previousBalance'[k] = previousBalance[k]
             /\ status[k] = "ROLLED_OVER" => status'[k] = "ROLLED_OVER"
  <2>1. /\ status[c] = "CLOSED" /\ previousBalance' = previousBalance
        /\ status' = [status EXCEPT ![c] = "PAID"] \/ status' = status
    BY <1>3, PayShape
  <2>. QED
    BY <1>0, <2>1
<1>4. ASSUME NEW c \in Cycle, NEW p \in Payment, Undo(c, p)
      PROVE  /\ status'[k] # "OPEN"
             /\ previousBalance'[k] = previousBalance[k]
             /\ status[k] = "ROLLED_OVER" => status'[k] = "ROLLED_OVER"
  <2>1. /\ previousBalance' = previousBalance
        /\ \/ status[c] = "PAID" /\ status' = [status EXCEPT ![c] = "CLOSED"]
           \/ status' = status
    BY <1>4, UndoShape DEF Reverted, Reopens
  <2>. QED
    BY <1>0, <2>1
<1>5. ASSUME \/ EndCycle
             \/ \E c \in Cycle, p \in Payment : PayEarly(c, p)
             \/ \E p \in Payment : UndoEarly(p)
             \/ \E f \in Refund : CreateRefund(f) \/ DeleteRefund(f)
             \/ UNCHANGED vars
      PROVE  UNCHANGED <<status, previousBalance>>
  BY <1>5 DEF EndCycle, PayEarly, UndoEarly, CreateRefund, DeleteRefund, vars, statements
<1>6. ASSUME NEW e \in Expense, ExpenseStep(e)
      PROVE  UNCHANGED <<status, previousBalance>>
  <2>1. CASE BeginStep(e)
    BY <2>1, BeginShape DEF Begin, statements
  <2>2. CASE CommitExpense(e) \/ RollbackExpense(e)
    BY <2>2 DEF CommitExpense, RollbackExpense, statements
  <2>. QED
    BY <1>6, <2>1, <2>2 DEF ExpenseStep, BeginStep
<1>. QED
  BY <1>1, <1>2, <1>3, <1>4, <1>5, <1>6 DEF Next

(* INV-0013-07: a recorded cycle is never recorded again, its statement    *)
(* keeps the balance it received, and what it rolled over stays rolled     *)
(* over, even if cycles end while requests are in progress.                *)
THEOREM RecordedForGood == Spec => RecordedOnce
<1>1. ASSUME TypeOK, [Next]_vars
      PROVE  \A k \in Cycle : Recorded(k) =>
               /\ status'[k] # "OPEN"
               /\ previousBalance'[k] = previousBalance[k]
               /\ status[k] = "ROLLED_OVER" => status'[k] = "ROLLED_OVER"
  BY <1>1, RecordedStep DEF Recorded
<1>. QED
  BY <1>1, TypeCorrect, PTL DEF Spec, RecordedOnce

-----------------------------------------------------------------------------
(* The closed window. *)

(* An operation in progress leaves the closed window alone, unless a cycle *)
(* has ended since it looked, or it posts a closed expense again.          *)
Windows == \A e \in Expense : pending[e].active => Frozen(expense[e], pending[e].row)

(* Nothing is in progress at the start. *)
LEMMA WindowsInit == ASSUME Init PROVE Windows
  BY DEF Init, Windows, Idle

(* While a cycle cannot end under an operation and none posts a closed     *)
(* expense again, what was read of the window stays true.                  *)
LEMMA WindowsNext ==
    ASSUME ~Straddle, ~Repost, TypeOK, Windows, [Next]_vars
    PROVE  Windows'
<1>0. pending \in [Expense -> Change \cup {Idle}] /\ expense \in ExpenseTable
  BY DEF TypeOK, ExpenseTable
<1>1. ASSUME UNCHANGED <<now, expense, pending>>
      PROVE  Windows'
  BY <1>1 DEF Windows, Frozen, Ahead, Steady
<1>2. ASSUME EndCycle PROVE Windows'
  <2>1. \A e \in Expense : ~pending[e].active
    BY <1>2 DEF EndCycle
  <2>2. pending' = pending
    BY <1>2 DEF EndCycle, entries
  <2>. QED
    BY <2>1, <2>2 DEF Windows
<1>3. ASSUME NEW window, NEW from, NEW to, from \subseteq Counted, to \in Counted,
             Mark(window, from, to), now' = now
      PROVE  Windows'
  <2>1. MarkDoes(window, from, to)
    BY <1>3, MarkShape
  <2>. QED
    BY <1>3, <2>1 DEF MarkDoes, Windows, Frozen, Ahead, Steady
<1>4. ASSUME NEW window, MarkPaid(window) \/ MarkUnpaid(window), now' = now
      PROVE  Windows'
  <2>1. CASE MarkPaid(window)
    <3>1. Mark(window, LimitConsuming, "PAID")
      BY <2>1 DEF MarkPaid
    <3>. QED
      BY <1>3, <1>4, <3>1 DEF LimitConsuming, Counted
  <2>2. CASE MarkUnpaid(window)
    <3>1. Mark(window, {"PAID"}, "OPEN")
      BY <2>2 DEF MarkUnpaid
    <3>. QED
      BY <1>3, <1>4, <3>1 DEF Counted
  <2>. QED
    BY <1>4, <2>1, <2>2
<1>5. ASSUME NEW k \in Cycle, Register(k) PROVE Windows'
  <2>1. now' = now
    BY <1>5, RegisterShape
  <2>2. CASE PaidInFull(k)
    <3>1. PICK window : window = Chain(k, RolledOver(k))
      OBVIOUS
    <3>2. MarkPaid(window)
      BY <1>5, <2>2, <3>1, RegisterShape
    <3>. QED
      BY <1>4, <2>1, <3>2
  <2>3. CASE ~PaidInFull(k)
    BY <1>1, <1>5, <2>1, <2>3, RegisterShape
  <2>. QED
    BY <2>2, <2>3
<1>6. ASSUME NEW k \in Cycle, NEW p \in Payment, Pay(k, p) PROVE Windows'
  <2>1. PICK window : window = Chain(k, status)
    OBVIOUS
  <2>2. now' = now /\ (MarkPaid(window) \/ UNCHANGED <<expense, pending>>)
    BY <1>6, <2>1, PayShape
  <2>. QED
    BY <1>1, <1>4, <2>2
<1>7. ASSUME NEW k \in Cycle, NEW p \in Payment, Undo(k, p) PROVE Windows'
  <2>1. PICK window : window = Chain(k, status)
    OBVIOUS
  <2>2. now' = now /\ (MarkUnpaid(window) \/ UNCHANGED <<expense, pending>>)
    BY <1>7, <2>1, UndoShape DEF Reverted
  <2>. QED
    BY <1>1, <1>4, <2>2
<1>8. ASSUME \/ \E c \in Cycle, p \in Payment : PayEarly(c, p)
             \/ \E p \in Payment : UndoEarly(p)
             \/ \E f \in Refund : CreateRefund(f) \/ DeleteRefund(f)
             \/ UNCHANGED vars
      PROVE  UNCHANGED <<now, expense, pending>>
  BY <1>8 DEF PayEarly, UndoEarly, CreateRefund, DeleteRefund, vars, entries
<1>9. ASSUME NEW e \in Expense, ExpenseStep(e) PROVE Windows'
  <2>1. CASE BeginStep(e)
    <3>1. PICK row \in ExpenseRow \cup {NoExpense}, delta \in Int :
            Begin(e, row, delta) /\ Frozen(expense[e], row)
      BY <2>1, BeginShape
    <3>2. /\ pending' = [pending EXCEPT ![e] = [row |-> row, delta |-> delta, active |-> TRUE]]
          /\ UNCHANGED <<now, expense>>
      BY <3>1 DEF Begin
    <3>3. pending'[e].row = row /\ \A o \in Expense \ {e} : pending'[o] = pending[o]
      BY <1>0, <3>2
    <3>. QED
      BY <3>1, <3>2, <3>3 DEF Windows, Frozen, Ahead, Steady
  <2>2. CASE CommitExpense(e) \/ RollbackExpense(e)
    <3>1. /\ pending' = [pending EXCEPT ![e] = Idle]
          /\ \A o \in Expense \ {e} : expense'[o] = expense[o]
          /\ now' = now
      BY <1>0, <2>2 DEF CommitExpense, RollbackExpense, ExpenseTable
    <3>2. ~pending'[e].active /\ \A o \in Expense \ {e} : pending'[o] = pending[o]
      BY <1>0, <3>1 DEF Idle
    <3>. QED
      BY <3>1, <3>2 DEF Windows, Frozen, Ahead, Steady
  <2>. QED
    BY <1>9, <2>1, <2>2 DEF ExpenseStep, BeginStep
<1>. QED
  BY <1>1, <1>2, <1>5, <1>6, <1>7, <1>8, <1>9 DEF Next


(* No step moves what is charged and returned in closed cycles. *)
LEMMA SumsFrozen ==
    ASSUME TypeOK, Windows, [Next]_vars, NEW W \in SUBSET (1..(now - 1))
    PROVE  /\ Charged(W, expense') = Charged(W, expense)
           /\ Returned(W, refund') = Returned(W, refund)
<1>0. /\ pending \in [Expense -> Change \cup {Idle}]
      /\ expense \in ExpenseTable /\ refund \in RefundTable /\ now \in Int
  BY DEF TypeOK, ExpenseTable, RefundTable, Cycle
<1>. DEFINE Still == /\ Charged(W, expense') = Charged(W, expense)
                     /\ Returned(W, refund') = Returned(W, refund)
<1>1. ASSUME UNCHANGED <<expense, refund>> PROVE Still
  BY <1>1
<1>2. ASSUME NEW window, MarkPaid(window) \/ MarkUnpaid(window), UNCHANGED refund
      PROVE  Still
  <2>1. PICK from \in SUBSET Counted, to \in Counted : Mark(window, from, to)
    <3>1. LimitConsuming \in SUBSET Counted /\ {"PAID"} \in SUBSET Counted
          /\ "PAID" \in Counted /\ "OPEN" \in Counted
      BY DEF LimitConsuming, Counted
    <3>. QED
      BY <1>2, <3>1 DEF MarkPaid, MarkUnpaid
  <2>2. MarkDoes(window, from, to)
    BY <2>1, MarkShape
  <2>3. Charged(W, expense') = Charged(W, expense)
    BY <2>2, ChargedMarked DEF MarkDoes
  <2>. QED
    BY <1>2, <2>3
<1>3. ASSUME NEW k \in Cycle, Register(k) PROVE Still
  <2>1. PICK window : window = Chain(k, RolledOver(k))
    OBVIOUS
  <2>2. refund' = refund /\ (MarkPaid(window) \/ UNCHANGED <<expense, pending>>)
    BY <1>3, <2>1, RegisterShape
  <2>. QED
    BY <1>1, <1>2, <2>2
<1>4. ASSUME NEW k \in Cycle, NEW p \in Payment, Pay(k, p) PROVE Still
  <2>1. PICK window : window = Chain(k, status)
    OBVIOUS
  <2>2. refund' = refund /\ (MarkPaid(window) \/ UNCHANGED <<expense, pending>>)
    BY <1>4, <2>1, PayShape
  <2>. QED
    BY <1>1, <1>2, <2>2
<1>5. ASSUME NEW k \in Cycle, NEW p \in Payment, Undo(k, p) PROVE Still
  <2>1. PICK window : window = Chain(k, status)
    OBVIOUS
  <2>2. refund' = refund /\ (MarkUnpaid(window) \/ UNCHANGED <<expense, pending>>)
    BY <1>5, <2>1, UndoShape DEF Reverted
  <2>. QED
    BY <1>1, <1>2, <2>2
<1>6. ASSUME NEW f \in Refund, CreateRefund(f) \/ DeleteRefund(f) PROVE Still
  <2>1. RefundMoves(f)
    BY <1>6, RefundShape
  <2>2. PICK g \in RefundTable : g = refund'
    BY <2>1 DEF RefundMoves
  <2>3. Returned(W, g) = Returned(W, refund) - RefundIn(refund[f], W) + RefundIn(g[f], W)
    BY <1>0, <2>1, <2>2, ReturnedSwap DEF RefundMoves
  <2>4. RefundIn(refund[f], W) = 0 /\ RefundIn(g[f], W) = 0
    <3>1. ASSUME NEW r \in RefundRow \cup {NoRefund}, r # NoRefund => r.postedOn >= now
          PROVE  RefundIn(r, W) = 0
      BY <1>0, <3>1 DEF RefundIn, NoRefund, RefundRow, Cycle
    <3>. QED
      BY <1>0, <2>1, <2>2, <3>1 DEF RefundMoves, RefundTable
  <2>5. Returned(W, refund) \in Int
    BY SumTypes
  <2>6. Returned(W, g) = Returned(W, refund)
    BY <2>3, <2>4, <2>5
  <2>7. expense' = expense
    BY <2>1 DEF RefundMoves
  <2>. QED
    BY <2>2, <2>6, <2>7
<1>7. ASSUME NEW e \in Expense, ExpenseStep(e) PROVE Still
  <2>1. CASE BeginStep(e)
    BY <1>1, <2>1, BeginShape DEF Begin
  <2>2. CASE RollbackExpense(e)
    BY <1>1, <2>2 DEF RollbackExpense
  <2>3. CASE CommitExpense(e)
    <3>1. pending[e].active /\ refund' = refund
          /\ expense' = [expense EXCEPT ![e] = pending[e].row]
      BY <2>3 DEF CommitExpense
    <3>2. pending[e].row \in ExpenseRow \cup {NoExpense}
      <4>1. pending[e] # Idle
        BY <3>1 DEF Idle
      <4>. QED
        BY <1>0, <4>1 DEF Change
    <3>3. PICK g \in ExpenseTable : g = expense'
      BY <1>0, <3>1, <3>2 DEF ExpenseTable
    <3>4. g[e] = pending[e].row /\ \A o \in Expense \ {e} : g[o] = expense[o]
      BY <1>0, <3>1, <3>3 DEF ExpenseTable
    <3>5. Charged(W, g) = Charged(W, expense) - ChargeIn(expense[e], W) + ChargeIn(g[e], W)
      BY <1>0, <3>4, ChargedSwap
    <3>6. Frozen(expense[e], g[e])
      BY <3>1, <3>4 DEF Windows
    <3>7. PICK x \in Int : x = ChargeIn(expense[e], W) /\ x = ChargeIn(g[e], W)
      <4>1. \A r \in ExpenseRow \cup {NoExpense} :
              ChargeIn(r, W) \in Int /\ (r.status \in Counted => r.postedOn \in Int)
        BY ExpenseFields DEF ChargeIn, Counted, Cycle
      <4>2. expense[e] \in ExpenseRow \cup {NoExpense} /\ g[e] \in ExpenseRow \cup {NoExpense}
        BY <1>0 DEF ExpenseTable
      <4>3. CASE Steady(expense[e], g[e])
        BY <4>1, <4>2, <4>3 DEF Steady, ChargeIn
      <4>4. CASE Ahead(expense[e]) /\ Ahead(g[e])
        <5>1. ASSUME NEW r \in ExpenseRow \cup {NoExpense}, Ahead(r)
              PROVE  ChargeIn(r, W) = 0
          BY <1>0, <4>1, <5>1 DEF Ahead, ChargeIn
        <5>. QED
          BY <4>2, <4>4, <5>1
      <4>. QED
        BY <3>6, <4>3, <4>4 DEF Frozen
    <3>8. Charged(W, expense) \in Int
      BY SumTypes
    <3>9. Charged(W, g) = Charged(W, expense)
      BY <3>5, <3>7, <3>8
    <3>. QED
      BY <3>1, <3>3, <3>9
  <2>. QED
    BY <1>7, <2>1, <2>2, <2>3 DEF ExpenseStep, BeginStep
<1>8. ASSUME \/ EndCycle
             \/ \E c \in Cycle, p \in Payment : PayEarly(c, p)
             \/ \E p \in Payment : UndoEarly(p)
             \/ UNCHANGED vars
      PROVE  UNCHANGED <<expense, refund>>
  BY <1>8 DEF EndCycle, PayEarly, UndoEarly, vars, entries
<1>. HIDE DEF Still
<1>9. Still
  BY <1>1, <1>3, <1>4, <1>5, <1>6, <1>7, <1>8 DEF Next
<1>. QED
  BY <1>9 DEF Still

(* INV-0013-05: no operation changes the total of a closed window, whether *)
(* or not its statement has been recorded, if no cycle ends while a        *)
(* request is in progress and no request repeats the purchase date of a    *)
(* closed expense (CardStatementsReposted).                                *)
THEOREM ClosedWindowIsFrozen ==
    ASSUME ~Straddle, ~Repost
    PROVE  Spec => ClosedWindowFrozen
<1>1. Init => TypeOK /\ Windows
  BY TypeInit, WindowsInit
<1>2. TypeOK /\ Windows /\ [Next]_vars => (TypeOK /\ Windows)'
  BY TypeNext, WindowsNext
<1>3. ASSUME TypeOK, Windows, [Next]_vars
      PROVE  \A k \in Cycle : k < now => TotalOf(k)' = TotalOf(k)
  <2>. SUFFICES ASSUME NEW k \in Cycle, k < now
                PROVE  TotalOf(k)' = TotalOf(k)
    OBVIOUS
  <2>1. {k} \in SUBSET (1..(now - 1))
    BY <1>3 DEF Cycle, TypeOK
  <2>2. /\ Charged({k}, expense') = Charged({k}, expense)
        /\ Returned({k}, refund') = Returned({k}, refund)
    BY <1>3, <2>1, SumsFrozen
  <2>3. TotalOf(k) = Charged({k}, expense) - Returned({k}, refund)
    BY Values
  <2>4. TotalOf(k)' = Charged({k}, expense') - Returned({k}, refund')
    <3>1. PostedIn(k)' = ChargedRows({k}, expense')
      BY DEF PostedIn, ChargedRows
    <3>2. RefundedIn(k)' = ReturnedRows({k}, refund')
      BY DEF RefundedIn, ReturnedRows
    <3>. QED
      BY <3>1, <3>2 DEF TotalOf, Charged, Returned
  <2>. QED
    BY <2>2, <2>3, <2>4
<1>. QED
  BY <1>1, <1>2, <1>3, PTL DEF Spec, ClosedWindowFrozen


-----------------------------------------------------------------------------
(* What is left of a statement, and what is owed up to its cycle, for the  *)
(* rows ex, rf and pm of the tables and the balances pb.                   *)
Left(k, ex, rf, pm, pb) ==
    Charged({k}, ex) - Returned({k}, rf) + pb[k] - Paid({k}, pm)
Owed(k, ex, rf, pm) ==
    Charged(1..k, ex) - Returned(1..k, rf) - Paid(1..k, pm)

(* The recorded cycles are the first ones, and have ended. *)
Past(st, today) ==
    \A k \in Cycle : st[k] # "OPEN" =>
        k < today /\ \A j \in Cycle : j < k => st[j] # "OPEN"

(* A payment that is not early is of a recorded statement. *)
Homed(st, pm) ==
    \A p \in Payment : pm[p] # NoPayment =>
        pm[p].statement = 0 \/ st[pm[p].statement] # "OPEN"

(* A recorded statement is in the status that what is left of it says, it  *)
(* passed that on if it rolled over, and nothing was lost on the way to it. *)
Settles(k, st, pb, left, owed) ==
    st[k] # "OPEN" =>
        /\ st[k] = "PAID" <=> left <= 0
        /\ st[k] = "CLOSED" => \A j \in Cycle : j > k => st[j] = "OPEN"
        /\ st[k] = "ROLLED_OVER" => k < NumCycles /\ st[k + 1] # "OPEN" /\ pb[k + 1] = left
        /\ left = owed
Settlement(st, ex, rf, pm, pb) ==
    \A k \in Cycle : Settles(k, st, pb, Left(k, ex, rf, pm, pb), Owed(k, ex, rf, pm))

Booked == /\ Past(status, now)
          /\ Homed(status, payment)
          /\ Settlement(status, expense, refund, payment, previousBalance)

(* What is left of a statement and what is owed are integers. *)
LEMMA LeftTypes ==
    ASSUME NEW k \in Cycle, NEW ex, NEW rf, NEW pm, NEW pb \in [Cycle -> Int]
    PROVE  Left(k, ex, rf, pm, pb) \in Int /\ Owed(k, ex, rf, pm) \in Int
<1>1. ASSUME NEW W
      PROVE  Charged(W, ex) \in Int /\ Returned(W, rf) \in Int /\ Paid(W, pm) \in Int
  BY SumTypes
<1>2. pb[k] \in Int
  OBVIOUS
<1>3. Left(k, ex, rf, pm, pb) \in Int
  BY <1>1, <1>2 DEF Left
<1>4. Owed(k, ex, rf, pm) \in Int
  BY <1>1 DEF Owed
<1>. QED
  BY <1>3, <1>4

(* Left is remainingOf, as an operator of the tables. *)
LEMMA LeftIsRemaining ==
    ASSUME TypeOK, NEW k \in Cycle
    PROVE  RemainingOf(k) = Left(k, expense, refund, payment, previousBalance)
  BY Values DEF Left

(* Purchases and refunds leave a closed cycle alone. *)
LEMMA Unmoved ==
    ASSUME TypeOK, Windows, [Next]_vars, NEW k \in Cycle, k < now, NEW pm, NEW pb
    PROVE  /\ Left(k, expense', refund', pm, pb) = Left(k, expense, refund, pm, pb)
           /\ Owed(k, expense', refund', pm) = Owed(k, expense, refund, pm)
<1>1. {k} \in SUBSET (1..(now - 1)) /\ 1..k \in SUBSET (1..(now - 1))
  BY DEF Cycle, TypeOK
<1>2. /\ Charged({k}, expense') = Charged({k}, expense)
      /\ Returned({k}, refund') = Returned({k}, refund)
      /\ Charged(1..k, expense') = Charged(1..k, expense)
      /\ Returned(1..k, refund') = Returned(1..k, refund)
  BY <1>1, SumsFrozen
<1>. QED
  BY <1>2 DEF Left, Owed

(* A step that touches no recorded statement. *)
LEMMA Quiet ==
    ASSUME TypeOK, Windows, Booked, [Next]_vars,
           status' = status, previousBalance' = previousBalance, now' \in {now, now + 1},
           Homed(status, payment'),
           \A W \in SUBSET Cycle : Paid(W, payment') = Paid(W, payment)
    PROVE  Booked'
<1>0. now \in Int
  BY DEF TypeOK, Cycle
<1>1. Past(status, now')
  <2>1. ASSUME NEW k \in Cycle, k < now PROVE k < now'
    BY <1>0, <2>1 DEF Cycle
  <2>. QED
    BY <2>1 DEF Booked, Past
<1>2. ASSUME NEW k \in Cycle
      PROVE  Settles(k, status, previousBalance,
                     Left(k, expense', refund', payment', previousBalance),
                     Owed(k, expense', refund', payment'))
  <2>0. Settles(k, status, previousBalance,
                Left(k, expense, refund, payment, previousBalance),
                Owed(k, expense, refund, payment))
    BY DEF Booked, Settlement
  <2>1. CASE status[k] = "OPEN"
    BY <2>1 DEF Settles
  <2>2. CASE status[k] # "OPEN"
    <3>1. k < now
      BY <2>2 DEF Booked, Past
    <3>2. {k} \in SUBSET Cycle /\ 1..k \in SUBSET Cycle
      BY DEF Cycle
    <3>3. Paid({k}, payment') = Paid({k}, payment) /\ Paid(1..k, payment') = Paid(1..k, payment)
      BY <3>2
    <3>4. Left(k, expense, refund, payment', previousBalance)
            = Left(k, expense, refund, payment, previousBalance)
          /\ Owed(k, expense, refund, payment') = Owed(k, expense, refund, payment)
      BY <3>3 DEF Left, Owed
    <3>5. Left(k, expense', refund', payment', previousBalance)
            = Left(k, expense, refund, payment', previousBalance)
          /\ Owed(k, expense', refund', payment') = Owed(k, expense, refund, payment')
      BY <3>1, Unmoved
    <3>. QED
      BY <2>0, <3>4, <3>5
  <2>. QED
    BY <2>1, <2>2
<1>3. Settlement(status', expense', refund', payment', previousBalance')
  BY <1>2 DEF Settlement
<1>. QED
  BY <1>1, <1>3 DEF Booked

(* An early payment counts for no cycle. *)
LEMMA EarlyIsNowhere ==
    ASSUME TypeOK, NEW p \in Payment, payment' \in PaymentTable,
           \A q \in Payment \ {p} : payment'[q] = payment[q],
           payment[p] = NoPayment \/ payment[p].statement = 0,
           payment'[p] = NoPayment \/ payment'[p].statement = 0,
           Homed(status, payment)
    PROVE  /\ \A W \in SUBSET Cycle : Paid(W, payment') = Paid(W, payment)
           /\ Homed(status, payment')
<1>1. ASSUME NEW W \in SUBSET Cycle PROVE Paid(W, payment') = Paid(W, payment)
  <2>1. PICK g \in PaymentTable : g = payment'
    OBVIOUS
  <2>2. payment \in PaymentTable
    BY DEF TypeOK, PaymentTable
  <2>3. Paid(W, g) = Paid(W, payment) - PaymentIn(payment[p], W) + PaymentIn(g[p], W)
    BY <2>1, <2>2, PaidSwap
  <2>4. 0 \notin W
    BY DEF Cycle
  <2>5. PaymentIn(payment[p], W) = 0 /\ PaymentIn(g[p], W) = 0
    BY <2>1, <2>4 DEF PaymentIn
  <2>6. Paid(W, payment) \in Int
    BY SumTypes
  <2>. QED
    BY <2>1, <2>3, <2>5, <2>6
<1>2. Homed(status, payment')
  BY DEF Homed
<1>. QED
  BY <1>1, <1>2

(* A payment of the last statement is recorded or undone: d is what it     *)
(* adds to the payments, and the status follows what is then left.         *)
LEMMA LastMoves ==
    ASSUME TypeOK, Windows, Booked, [Next]_vars,
           NEW k \in Cycle, status[k] \in {"PAID", "CLOSED"},
           \A j \in Cycle : j > k => status[j] = "OPEN",
           NEW p \in Payment, payment' \in PaymentTable,
           \A q \in Payment \ {p} : payment'[q] = payment[q],
           NEW d \in Int,
           \A W : PaymentIn(payment'[p], W) - PaymentIn(payment[p], W)
                    = IF k \in W THEN d ELSE 0,
           payment'[p] # NoPayment => payment'[p].statement = k,
           status' \in [Cycle -> {"OPEN", "CLOSED", "PAID", "ROLLED_OVER"}],
           \A j \in Cycle \ {k} : status'[j] = status[j],
           status'[k] \in {"PAID", "CLOSED"},
           status'[k] = "PAID" <=> Left(k, expense, refund, payment, previousBalance) - d <= 0,
           previousBalance' = previousBalance, now' = now
    PROVE  Booked'
<1>1. PICK pm \in PaymentTable : pm = payment'
  OBVIOUS
<1>2. PICK st \in [Cycle -> {"OPEN", "CLOSED", "PAID", "ROLLED_OVER"}] : st = status'
  OBVIOUS
<1>3. ASSUME NEW j \in Cycle PROVE st[j] = "OPEN" <=> status[j] = "OPEN"
  BY <1>2
<1>4. Past(st, now)
  BY <1>3 DEF Booked, Past
<1>5. Homed(st, pm)
  <2>1. ASSUME NEW q \in Payment, pm[q] # NoPayment
        PROVE  pm[q].statement = 0 \/ st[pm[q].statement] # "OPEN"
    <3>1. CASE q = p
      BY <1>1, <1>3, <2>1, <3>1
    <3>2. CASE q # p
      <4>1. pm[q] = payment[q] /\ pm[q].statement \in 0..NumCycles
        BY <1>1, <3>2, PaymentFields DEF PaymentTable
      <4>2. pm[q].statement = 0 \/ status[pm[q].statement] # "OPEN"
        BY <2>1, <4>1 DEF Booked, Homed
      <4>3. pm[q].statement # 0 => pm[q].statement \in Cycle
        BY <4>1 DEF Cycle
      <4>. QED
        BY <1>3, <4>2, <4>3
    <3>. QED
      BY <3>1, <3>2
  <2>. QED
    BY <2>1 DEF Homed
<1>6. ASSUME NEW W
      PROVE  Paid(W, pm) = Paid(W, payment) + (IF k \in W THEN d ELSE 0)
  <2>1. payment \in PaymentTable
    BY DEF TypeOK, PaymentTable
  <2>2. Paid(W, pm) = Paid(W, payment) - PaymentIn(payment[p], W) + PaymentIn(pm[p], W)
    BY <1>1, <2>1, PaidSwap
  <2>3. PaymentIn(payment[p], W) \in Int /\ PaymentIn(pm[p], W) \in Int
    BY <2>1, PaymentFields DEF PaymentIn, PaymentTable
  <2>4. PaymentIn(pm[p], W) - PaymentIn(payment[p], W) = IF k \in W THEN d ELSE 0
    BY <1>1
  <2>5. Paid(W, payment) \in Int
    BY SumTypes
  <2>. QED
    BY <2>2, <2>3, <2>4, <2>5
<1>7. ASSUME NEW j \in Cycle
      PROVE  Settles(j, st, previousBalance,
                     Left(j, expense', refund', pm, previousBalance),
                     Owed(j, expense', refund', pm))
  <2>0. Settles(j, status, previousBalance,
                Left(j, expense, refund, payment, previousBalance),
                Owed(j, expense, refund, payment))
    BY DEF Booked, Settlement
  <2>1. CASE st[j] = "OPEN"
    BY <2>1 DEF Settles
  <2>2. CASE st[j] # "OPEN"
    <3>1. status[j] # "OPEN" /\ j < now /\ j <= k
      BY <1>3, <2>2 DEF Booked, Past, Cycle
    <3>2. PICK left \in Int, owed \in Int :
            /\ left = Left(j, expense, refund, payment, previousBalance)
            /\ owed = Owed(j, expense, refund, payment)
      BY LeftTypes DEF TypeOK
    <3>3. /\ Left(j, expense', refund', pm, previousBalance)
               = Left(j, expense, refund, pm, previousBalance)
          /\ Owed(j, expense', refund', pm) = Owed(j, expense, refund, pm)
      BY <3>1, Unmoved
    <3>4. CASE j = k
      <4>1. Paid({j}, pm) = Paid({j}, payment) + d /\ Paid(1..j, pm) = Paid(1..j, payment) + d
        BY <1>6, <3>4 DEF Cycle
      <4>2. /\ Left(j, expense, refund, pm, previousBalance) = left - d
            /\ Owed(j, expense, refund, pm) = owed - d
        <5>1. /\ Charged({j}, expense) \in Int /\ Returned({j}, refund) \in Int
              /\ Paid({j}, payment) \in Int /\ previousBalance[j] \in Int
              /\ Charged(1..j, expense) \in Int /\ Returned(1..j, refund) \in Int
              /\ Paid(1..j, payment) \in Int
          BY SumTypes DEF TypeOK
        <5>2. Left(j, expense, refund, pm, previousBalance) = left - d
          <6>1. PICK c \in Int, r \in Int, b \in Int, q \in Int :
                  /\ c = Charged({j}, expense) /\ r = Returned({j}, refund)
                  /\ b = previousBalance[j] /\ q = Paid({j}, payment)
            BY <5>1
          <6>2. left = c - r + b - q
            BY <3>2, <6>1 DEF Left
          <6>3. Left(j, expense, refund, pm, previousBalance) = c - r + b - (q + d)
            BY <4>1, <6>1 DEF Left
          <6>. QED
            BY <6>2, <6>3
        <5>3. Owed(j, expense, refund, pm) = owed - d
          BY SMTT(30), <3>2, <4>1, <5>1 DEF Owed
        <5>. QED
          BY <5>2, <5>3
      <4>3. left = owed
        BY <2>0, <3>1, <3>2 DEF Settles
      <4>4. \A i \in Cycle : i > j => st[i] = "OPEN"
        BY <1>3, <3>4
      <4>5. (st[j] = "PAID" <=> left - d <= 0) /\ st[j] # "ROLLED_OVER"
        BY <1>2, <3>2, <3>4
      <4>. QED
        BY <3>3, <4>2, <4>3, <4>4, <4>5 DEF Settles
    <3>5. CASE j # k
      <4>1. k \notin {j} /\ k \notin 1..j
        BY <3>1, <3>5 DEF Cycle
      <4>2. Paid({j}, payment) \in Int /\ Paid(1..j, payment) \in Int
        BY SumTypes
      <4>3. Paid({j}, pm) = Paid({j}, payment) /\ Paid(1..j, pm) = Paid(1..j, payment)
        <5>1. Paid({j}, pm) = Paid({j}, payment) + 0
          BY <1>6, <4>1
        <5>2. Paid(1..j, pm) = Paid(1..j, payment) + 0
          BY <1>6, <4>1
        <5>. QED
          BY <4>2, <5>1, <5>2
      <4>4. /\ Left(j, expense, refund, pm, previousBalance) = left
            /\ Owed(j, expense, refund, pm) = owed
        BY <3>2, <4>3 DEF Left, Owed
      <4>5. st[j] = status[j]
        BY <1>2, <3>5
      <4>6. j < NumCycles => j + 1 \in Cycle
        BY DEF Cycle
      <4>. QED
        BY <1>3, <2>0, <3>2, <3>3, <4>4, <4>5, <4>6 DEF Settles
    <3>. QED
      BY <3>4, <3>5
  <2>. QED
    BY <2>1, <2>2
<1>8. Settlement(st, expense', refund', pm, previousBalance)
  BY <1>7 DEF Settlement
<1>. QED
  BY <1>1, <1>2, <1>4, <1>5, <1>8 DEF Booked


(* A payment keeps the statements in order: it is PAID exactly when nothing is left. *)
LEMMA PayBooked ==
    ASSUME TypeOK, Windows, Booked, NEW k \in Cycle, NEW p \in Payment, Pay(k, p)
    PROVE  Booked'
<1>1. PICK a \in Amount :
        /\ status[k] = "CLOSED" /\ a <= RemainingOf(k)
        /\ payment' \in PaymentTable /\ payment[p] = NoPayment
        /\ payment'[p] # NoPayment
        /\ payment'[p].statement = k /\ payment'[p].amount = a
        /\ \A q \in Payment \ {p} : payment'[q] = payment[q]
        /\ a = RemainingOf(k) => status' = [status EXCEPT ![k] = "PAID"]
        /\ a # RemainingOf(k) => status' = status
        /\ UNCHANGED <<now, previousBalance>>
  BY PayShape
<1>2. [Next]_vars
  BY DEF Next
<1>3. \A j \in Cycle : j > k => status[j] = "OPEN"
  BY <1>1 DEF Booked, Settlement, Settles
<1>4. PICK left \in Int : left = RemainingOf(k)
  BY ValueTypes
<1>5. left = Left(k, expense, refund, payment, previousBalance)
  BY <1>4, LeftIsRemaining
<1>6. a \in Int /\ a <= left
  BY <1>1, <1>4 DEF Amount
<1>7. ASSUME NEW W
      PROVE  PaymentIn(payment'[p], W) - PaymentIn(payment[p], W) = IF k \in W THEN a ELSE 0
  <2>1. PaymentIn(payment[p], W) = 0
    BY <1>1 DEF PaymentIn
  <2>2. PaymentIn(payment'[p], W) = IF k \in W THEN a ELSE 0
    BY <1>1 DEF PaymentIn
  <2>. QED
    BY <1>6, <2>1, <2>2
<1>8. /\ status' \in [Cycle -> {"OPEN", "CLOSED", "PAID", "ROLLED_OVER"}]
      /\ \A j \in Cycle \ {k} : status'[j] = status[j]
      /\ status'[k] = IF a = left THEN "PAID" ELSE "CLOSED"
  BY <1>1, <1>4 DEF TypeOK
<1>9. status'[k] \in {"PAID", "CLOSED"} /\ (status'[k] = "PAID" <=> left - a <= 0)
  BY <1>6, <1>8
<1>10. status'[k] = "PAID" <=> Left(k, expense, refund, payment, previousBalance) - a <= 0
  BY <1>5, <1>9
<1>. QED
  BY <1>1, <1>2, <1>3, <1>6, <1>7, <1>8, <1>9, <1>10, LastMoves

(* So does the undoing of a payment: the last statement is CLOSED again when something is
   left. *)
LEMMA UndoBooked ==
    ASSUME TypeOK, Windows, Booked, NEW k \in Cycle, NEW p \in Payment, Undo(k, p)
    PROVE  Booked'
<1>1. /\ Reverted(p) /\ IsLast(k) /\ payment[p].statement = k
      /\ Reopens(k, p) => status' = [status EXCEPT ![k] = "CLOSED"]
      /\ ~Reopens(k, p) => status' = status
  BY UndoShape
<1>2. [Next]_vars
  BY DEF Next
<1>3. status[k] # "OPEN" /\ \A j \in Cycle : j > k => status[j] = "OPEN"
  BY <1>1 DEF IsLast, Recorded
<1>4. PICK left \in Int : left = RemainingOf(k)
  BY ValueTypes
<1>5. left = Left(k, expense, refund, payment, previousBalance)
  BY <1>4, LeftIsRemaining
<1>6. status[k] \in {"PAID", "CLOSED"} /\ (status[k] = "PAID" <=> left <= 0)
  <2>1. k < NumCycles => k + 1 \in Cycle /\ k + 1 > k
    BY DEF Cycle
  <2>2. status[k] \in {"OPEN", "CLOSED", "PAID", "ROLLED_OVER"}
    BY DEF TypeOK
  <2>. QED
    BY <1>3, <1>5, <2>1, <2>2 DEF Booked, Settlement, Settles
<1>7. PICK a \in Int : a = payment[p].amount /\ a >= 0
  BY PaymentFields DEF TypeOK
<1>8. -a \in Int
  BY <1>7
<1>9. ASSUME NEW W
      PROVE  PaymentIn(payment'[p], W) - PaymentIn(payment[p], W) = IF k \in W THEN -a ELSE 0
  <2>1. PaymentIn(payment'[p], W) = 0
    BY <1>1 DEF PaymentIn, Reverted
  <2>2. PaymentIn(payment[p], W) = IF k \in W THEN a ELSE 0
    BY <1>1, <1>7 DEF PaymentIn, Reverted
  <2>. QED
    BY <1>7, <2>1, <2>2
<1>10. /\ status' \in [Cycle -> {"OPEN", "CLOSED", "PAID", "ROLLED_OVER"}]
       /\ \A j \in Cycle \ {k} : status'[j] = status[j]
       /\ status'[k] = IF Reopens(k, p) THEN "CLOSED" ELSE status[k]
  BY <1>1 DEF TypeOK
<1>11. Reopens(k, p) <=> status[k] = "PAID" /\ left + a > 0
  BY <1>4, <1>7 DEF Reopens
<1>12. status'[k] \in {"PAID", "CLOSED"} /\ (status'[k] = "PAID" <=> left - (-a) <= 0)
  BY <1>6, <1>7, <1>10, <1>11
<1>13. status'[k] = "PAID" <=> Left(k, expense, refund, payment, previousBalance) - (-a) <= 0
  BY <1>5, <1>12
<1>14. /\ payment' \in PaymentTable /\ payment'[p] = NoPayment
       /\ \A q \in Payment \ {p} : payment'[q] = payment[q]
       /\ previousBalance' = previousBalance /\ now' = now
  BY <1>1 DEF Reverted
<1>. QED
  BY <1>2, <1>3, <1>6, <1>8, <1>9, <1>10, <1>12, <1>13, <1>14, LastMoves

(* A closing takes over the early payments, and no other. *)
LEMMA RegisterPaid ==
    ASSUME TypeOK, Booked, NEW k \in Cycle, Register(k)
    PROVE  /\ Paid({k}, payment') = Paid({0}, payment)
           /\ \A W \in SUBSET (Cycle \ {k}) : Paid(W, payment') = Paid(W, payment)
           /\ \A p \in Payment : payment'[p] # NoPayment =>
                payment'[p].statement = k
                \/ (payment'[p].statement \in Cycle /\ status[payment'[p].statement] # "OPEN")
<1>1. PICK pm \in PaymentTable : pm = payment'
  BY TakenOver
<1>2. \A p \in Payment :
        /\ pm[p].amount = payment[p].amount
        /\ pm[p] = NoPayment <=> payment[p] = NoPayment
        /\ pm[p].statement = IF p \in EarlyPayments THEN k ELSE payment[p].statement
  BY <1>1, TakenOver
<1>3. \A p \in Payment : p \in EarlyPayments <=> payment[p] # NoPayment /\ payment[p].statement = 0
  BY DEF EarlyPayments, PaymentsOf
<1>4. status[k] = "OPEN"
  BY RegisterShape DEF IsCurrent, Recorded
<1>5. \A p \in Payment : payment[p] # NoPayment =>
        payment[p].statement = 0
        \/ (payment[p].statement \in Cycle /\ payment[p].statement # k
            /\ status[payment[p].statement] # "OPEN")
  <2>. SUFFICES ASSUME NEW p \in Payment, payment[p] # NoPayment, payment[p].statement # 0
                PROVE  /\ payment[p].statement \in Cycle /\ payment[p].statement # k
                       /\ status[payment[p].statement] # "OPEN"
    OBVIOUS
  <2>1. payment[p].statement \in Cycle
    BY PaymentFields DEF TypeOK, Cycle
  <2>. QED
    BY <1>4, <2>1 DEF Booked, Homed
<1>6. Paid({k}, pm) = Paid({0}, payment)
  <2>1. PICK S : S = PaidRows({0}, payment)
    OBVIOUS
  <2>2. S = PaidRows({k}, pm)
    BY <1>2, <1>3, <1>5, <2>1 DEF PaidRows
  <2>3. \A x \in S : pm[x].amount = payment[x].amount
    BY <1>2, <2>1 DEF PaidRows
  <2>4. Worth(S, pm) = Worth(S, payment)
    BY <2>3, WorthSame
  <2>. QED
    BY <2>1, <2>2, <2>4 DEF Paid
<1>7. ASSUME NEW W \in SUBSET (Cycle \ {k}) PROVE Paid(W, pm) = Paid(W, payment)
  <2>0. 0 \notin W /\ k \notin W
    BY DEF Cycle
  <2>1. PICK S : S = PaidRows(W, payment)
    OBVIOUS
  <2>2. S = PaidRows(W, pm)
    BY <1>2, <1>3, <2>0, <2>1 DEF PaidRows
  <2>3. \A x \in S : pm[x].amount = payment[x].amount
    BY <1>2, <2>1 DEF PaidRows
  <2>4. Worth(S, pm) = Worth(S, payment)
    BY <2>3, WorthSame
  <2>. QED
    BY <2>1, <2>2, <2>4 DEF Paid
<1>8. \A p \in Payment : pm[p] # NoPayment =>
        pm[p].statement = k \/ (pm[p].statement \in Cycle /\ status[pm[p].statement] # "OPEN")
  BY <1>2, <1>3, <1>5
<1>. QED
  BY <1>1, <1>6, <1>7, <1>8

(* What a closing takes over from the statement before is all that is left *)
(* of it.                                                                  *)
LEMMA RolledIsLeft ==
    ASSUME TypeOK, Booked, NEW k \in Cycle, IsCurrent(k)
    PROVE  /\ k = 1 => Rolled(k) = 0
           /\ k # 1 => /\ k - 1 \in Cycle /\ status[k - 1] \in {"CLOSED", "PAID"}
                       /\ Rolled(k) = Left(k - 1, expense, refund, payment, previousBalance)
                       /\ Rolled(k) = Owed(k - 1, expense, refund, payment)
<1>1. CASE k = 1
  BY <1>1 DEF Rolled
<1>2. CASE k # 1
  <2>1. PICK j \in Cycle : j = k - 1 /\ j < k
    BY <1>2 DEF Cycle
  <2>2. status[j] # "OPEN" /\ status[k] = "OPEN"
    BY <2>1 DEF IsCurrent, Recorded
  <2>3. PICK left \in Int : left = RemainingOf(j)
    BY ValueTypes
  <2>4. left = Left(j, expense, refund, payment, previousBalance)
    BY <2>3, LeftIsRemaining
  <2>5. /\ status[j] = "PAID" <=> left <= 0
        /\ status[j] = "ROLLED_OVER" => status[j + 1] # "OPEN"
        /\ left = Owed(j, expense, refund, payment)
    BY <2>2, <2>4 DEF Booked, Settlement, Settles
  <2>6. j + 1 = k
    BY <2>1 DEF Cycle
  <2>7. status[j] \in {"CLOSED", "PAID"}
    BY <2>2, <2>5, <2>6 DEF TypeOK
  <2>8. Rolled(k) = IF status[j] = "CLOSED" \/ left < 0 THEN left ELSE 0
    BY <1>2, <2>1, <2>3, <2>7 DEF Rolled
  <2>9. Rolled(k) = left
    BY <2>5, <2>7, <2>8
  <2>. QED
    BY <1>2, <2>1, <2>4, <2>5, <2>7, <2>9
<1>. QED
  BY <1>1, <1>2


(* So does closing: the statements before roll over what they leave, and the new one carries
   it. *)
LEMMA RegisterBooked ==
    ASSUME TypeOK, Windows, Booked, NEW k \in Cycle, Register(k)
    PROVE  Booked'
<1>1. PICK pm \in PaymentTable : pm = payment'
  BY TakenOver
<1>2. PICK st : st = status'
  OBVIOUS
<1>3. PICK pb : pb = previousBalance'
  OBVIOUS
<1>4. /\ k < now /\ now' = now
      /\ st = [RolledOver(k) EXCEPT ![k] = IF PaidInFull(k) THEN "PAID" ELSE "CLOSED"]
      /\ pb = [previousBalance EXCEPT ![k] = Rolled(k)]
  BY <1>2, <1>3, RegisterShape
<1>5. IsCurrent(k)
  BY RegisterShape
<1>6. [Next]_vars
  BY DEF Next
<1>7. /\ status[k] = "OPEN"
      /\ \A j \in Cycle : j < k <=> status[j] # "OPEN"
  BY <1>5 DEF IsCurrent, Recorded, Booked, Past, Cycle
<1>8. /\ st[k] = IF PaidInFull(k) THEN "PAID" ELSE "CLOSED"
      /\ \A j \in Cycle \ {k} : st[j] = IF j = k - 1 /\ status[j] = "CLOSED"
                                        THEN "ROLLED_OVER" ELSE status[j]
  BY <1>4 DEF RolledOver
<1>9. /\ Rolled(k) \in Int /\ previousBalance \in [Cycle -> Int] /\ pb \in [Cycle -> Int]
      /\ pb[k] = Rolled(k)
      /\ \A j \in Cycle \ {k} : pb[j] = previousBalance[j]
  BY <1>4, ValueTypes DEF TypeOK
<1>10. \A j \in Cycle : st[j] = "OPEN" <=> j > k
  BY <1>7, <1>8 DEF Cycle
<1>11. Past(st, now)
  BY <1>4, <1>10 DEF Past, Cycle, TypeOK
<1>12. Homed(st, pm)
  <2>. SUFFICES ASSUME NEW p \in Payment, pm[p] # NoPayment
                PROVE  st[pm[p].statement] # "OPEN"
    BY DEF Homed
  <2>1. pm[p].statement = k
        \/ (pm[p].statement \in Cycle /\ status[pm[p].statement] # "OPEN")
    BY <1>1, RegisterPaid
  <2>. QED
    BY <1>7, <1>10, <2>1 DEF Cycle
<1>13. ASSUME NEW j \in Cycle, j < k
       PROVE  /\ Left(j, expense', refund', pm, pb)
                   = Left(j, expense, refund, payment, previousBalance)
              /\ Owed(j, expense', refund', pm) = Owed(j, expense, refund, payment)
  <2>1. /\ Left(j, expense', refund', pm, pb) = Left(j, expense, refund, pm, pb)
        /\ Owed(j, expense', refund', pm) = Owed(j, expense, refund, pm)
    <3>1. j < now
      BY <1>4, <1>13 DEF Cycle, TypeOK
    <3>. QED
      BY <1>6, <3>1, Unmoved
  <2>2. {j} \in SUBSET (Cycle \ {k}) /\ 1..j \in SUBSET (Cycle \ {k})
    BY <1>13 DEF Cycle
  <2>3. Paid({j}, pm) = Paid({j}, payment) /\ Paid(1..j, pm) = Paid(1..j, payment)
    BY <1>1, <2>2, RegisterPaid
  <2>4. pb[j] = previousBalance[j]
    BY <1>9, <1>13 DEF Cycle
  <2>. QED
    BY <2>1, <2>3, <2>4 DEF Left, Owed
<1>14. PICK total \in Int, early \in Int, rolled \in Int :
         /\ total = Charged({k}, expense) - Returned({k}, refund)
         /\ early = Paid({0}, payment) /\ rolled = Rolled(k)
  <2>1. Charged({k}, expense) \in Int /\ Returned({k}, refund) \in Int /\ Paid({0}, payment) \in Int
    BY SumTypes
  <2>2. Charged({k}, expense) - Returned({k}, refund) \in Int
    BY <2>1
  <2>. QED
    BY <1>9, <2>1, <2>2
<1>15. PaidInFull(k) <=> total + rolled - early <= 0
  <2>1. TotalOf(k) = total /\ Worth(EarlyPayments, payment) = early
    BY <1>14, Values
  <2>. QED
    BY <1>14, <2>1 DEF PaidInFull
<1>16. Left(k, expense', refund', pm, pb) = total + rolled - early
  <2>1. Left(k, expense', refund', pm, pb) = Left(k, expense, refund, pm, pb)
    BY <1>4, <1>6, Unmoved
  <2>2. Paid({k}, pm) = early
    BY <1>1, <1>14, RegisterPaid
  <2>3. Left(k, expense, refund, pm, pb) = total + rolled - early
    BY <1>9, <1>14, <2>2 DEF Left
  <2>. QED
    BY <2>1, <2>3
<1>17. Owed(k, expense', refund', pm) = total + rolled - early
  <2>1. Owed(k, expense', refund', pm) = Owed(k, expense, refund, pm)
    BY <1>4, <1>6, Unmoved
  <2>2. PICK W : W = 1..(k - 1)
    OBVIOUS
  <2>3. /\ Charged(1..k, expense) = Charged(W, expense) + Charged({k}, expense)
        /\ Returned(1..k, refund) = Returned(W, refund) + Returned({k}, refund)
        /\ Paid(1..k, pm) = Paid(W, pm) + Paid({k}, pm)
    <3>1. k \in Int /\ k >= 1
      BY DEF Cycle
    <3>2. /\ Charged(1..k, expense) = Charged(1..(k - 1), expense) + Charged({k}, expense)
          /\ Returned(1..k, refund) = Returned(1..(k - 1), refund) + Returned({k}, refund)
          /\ Paid(1..k, pm) = Paid(1..(k - 1), pm) + Paid({k}, pm)
      BY <3>1, SumsExtend
    <3>. QED
      BY <2>2, <3>2
  <2>4. Paid({k}, pm) = early
    BY <1>1, <1>14, RegisterPaid
  <2>5. Paid(W, pm) = Paid(W, payment)
    <3>1. W \in SUBSET (Cycle \ {k})
      BY <2>2 DEF Cycle
    <3>. QED
      BY <1>1, <3>1, RegisterPaid
  <2>6. Charged(W, expense) - Returned(W, refund) - Paid(W, payment) = rolled
    <3>1. CASE k = 1
      <4>1. W = {}
        BY <2>2, <3>1
      <4>2. Charged(W, expense) = 0 /\ Returned(W, refund) = 0 /\ Paid(W, payment) = 0
        BY <4>1, SumsOfNone
      <4>3. rolled = 0
        BY <1>5, <1>14, <3>1, RolledIsLeft
      <4>. QED
        BY <4>2, <4>3
    <3>2. CASE k # 1
      <4>1. rolled = Owed(k - 1, expense, refund, payment)
        BY <1>5, <1>14, <3>2, RolledIsLeft
      <4>. QED
        BY <2>2, <4>1 DEF Owed
    <3>. QED
      BY <3>1, <3>2
  <2>7. PICK c \in Int, r \in Int, q \in Int, c1 \in Int, r1 \in Int :
          /\ c = Charged(W, expense) /\ r = Returned(W, refund) /\ q = Paid(W, payment)
          /\ c1 = Charged({k}, expense) /\ r1 = Returned({k}, refund)
    <3>1. Charged(W, expense) \in Int /\ Returned(W, refund) \in Int /\ Paid(W, payment) \in Int
      BY SumTypes
    <3>2. Charged({k}, expense) \in Int /\ Returned({k}, refund) \in Int
      BY SumTypes
    <3>. QED
      BY <3>1, <3>2
  <2>8. Owed(k, expense, refund, pm) = (c + c1) - (r + r1) - (q + early)
    BY <2>3, <2>4, <2>5, <2>7 DEF Owed
  <2>9. rolled = c - r - q /\ total = c1 - r1
    BY <1>14, <2>6, <2>7
  <2>. QED
    BY <2>1, <2>8, <2>9
<1>18. ASSUME NEW j \in Cycle
       PROVE  Settles(j, st, pb, Left(j, expense', refund', pm, pb), Owed(j, expense', refund', pm))
  <2>1. CASE j > k
    BY <1>10, <2>1 DEF Settles
  <2>2. CASE j = k
    <3>1. st[j] = "PAID" <=> total + rolled - early <= 0
      BY <1>8, <1>15, <2>2
    <3>2. st[j] # "ROLLED_OVER"
      BY <1>8, <2>2
    <3>3. \A i \in Cycle : i > j => st[i] = "OPEN"
      BY <1>10, <2>2
    <3>. QED
      BY <1>16, <1>17, <2>2, <3>1, <3>2, <3>3 DEF Settles
  <2>3. CASE j < k
    <3>1. PICK left \in Int, owed \in Int :
            /\ left = Left(j, expense, refund, payment, previousBalance)
            /\ owed = Owed(j, expense, refund, payment)
      BY LeftTypes DEF TypeOK
    <3>2. /\ Left(j, expense', refund', pm, pb) = left
          /\ Owed(j, expense', refund', pm) = owed
      BY <1>13, <2>3, <3>1
    <3>3. Settles(j, status, previousBalance, left, owed)
      BY <3>1 DEF Booked, Settlement
    <3>4. status[j] # "OPEN" /\ j # k /\ j + 1 \in Cycle /\ j < NumCycles
      BY <1>7, <2>3 DEF Cycle
    <3>5. CASE j = k - 1
      <4>1. status[j] \in {"CLOSED", "PAID"} /\ pb[j + 1] = left /\ st[j + 1] # "OPEN"
        <5>1. k # 1 /\ j + 1 = k
          BY <3>5 DEF Cycle
        <5>. QED
          BY <1>5, <1>9, <1>10, <3>1, <3>5, <5>1, RolledIsLeft DEF Cycle
      <4>2. st[j] = IF status[j] = "CLOSED" THEN "ROLLED_OVER" ELSE status[j]
        BY <1>8, <3>4, <3>5
      <4>. QED
        BY <3>2, <3>3, <3>4, <4>1, <4>2 DEF Settles
    <3>6. CASE j # k - 1
      <4>1. st[j] = status[j]
        BY <1>8, <3>4, <3>6
      <4>2. status[j] # "CLOSED"
        <5>1. k - 1 \in Cycle /\ k - 1 > j /\ k - 1 < k
          BY <2>3, <3>6 DEF Cycle
        <5>2. status[k - 1] # "OPEN"
          BY <1>7, <5>1
        <5>. QED
          BY <3>3, <3>4, <5>1, <5>2 DEF Settles
      <4>3. j + 1 # k /\ pb[j + 1] = previousBalance[j + 1] /\ st[j + 1] # "OPEN"
        BY <1>9, <1>10, <2>3, <3>4, <3>6 DEF Cycle
      <4>. QED
        BY <3>2, <3>3, <3>4, <4>1, <4>2, <4>3 DEF Settles
    <3>. QED
      BY <3>5, <3>6
  <2>. QED
    BY <2>1, <2>2, <2>3 DEF Cycle
<1>19. Settlement(st, expense', refund', pm, pb)
  BY <1>18 DEF Settlement
<1>. QED
  BY <1>1, <1>2, <1>3, <1>4, <1>11, <1>12, <1>19 DEF Booked


(* No statement is recorded at the start. *)
LEMMA BookedInit == ASSUME Init PROVE Booked
<1>1. \A k \in Cycle : status[k] = "OPEN"
  BY DEF Init
<1>2. \A p \in Payment : payment[p] = NoPayment
  BY DEF Init
<1>. QED
  BY <1>1, <1>2 DEF Booked, Past, Homed, Settlement, Settles

(* Every step keeps the statements in order, when no cycle ends under an operation. *)
LEMMA BookedNext ==
    ASSUME TypeOK, Windows, Booked, [Next]_vars
    PROVE  Booked'
<1>1. ASSUME status' = status, previousBalance' = previousBalance,
             now' \in {now, now + 1}, payment' = payment
      PROVE  Booked'
  BY <1>1, Quiet DEF Booked
<1>2. CASE EndCycle
  BY <1>1, <1>2 DEF EndCycle, statements
<1>3. ASSUME NEW k \in Cycle, Register(k) PROVE Booked'
  BY <1>3, RegisterBooked
<1>4. ASSUME NEW k \in Cycle, NEW p \in Payment, Pay(k, p) \/ Undo(k, p) PROVE Booked'
  BY <1>4, PayBooked, UndoBooked
<1>5. ASSUME NEW p \in Payment, payment' \in PaymentTable,
             \A q \in Payment \ {p} : payment'[q] = payment[q],
             payment[p] = NoPayment \/ payment[p].statement = 0,
             payment'[p] = NoPayment \/ payment'[p].statement = 0,
             status' = status, previousBalance' = previousBalance, now' = now
      PROVE  Booked'
  <2>1. /\ \A W \in SUBSET Cycle : Paid(W, payment') = Paid(W, payment)
        /\ Homed(status, payment')
    BY <1>5, EarlyIsNowhere DEF Booked
  <2>. QED
    BY <1>5, <2>1, Quiet
<1>6. ASSUME NEW k \in Cycle, NEW p \in Payment, PayEarly(k, p) PROVE Booked'
  BY <1>5, <1>6, PayEarlyShape
<1>7. ASSUME NEW p \in Payment, UndoEarly(p) PROVE Booked'
  BY <1>5, <1>7, UndoEarlyShape DEF Reverted
<1>8. ASSUME NEW f \in Refund, CreateRefund(f) \/ DeleteRefund(f) PROVE Booked'
  BY <1>1, <1>8 DEF CreateRefund, DeleteRefund, statements
<1>9. ASSUME NEW e \in Expense, ExpenseStep(e) PROVE Booked'
  <2>1. CASE BeginStep(e)
    BY <1>1, <2>1, BeginShape DEF Begin, statements
  <2>2. CASE CommitExpense(e) \/ RollbackExpense(e)
    BY <1>1, <2>2 DEF CommitExpense, RollbackExpense, statements
  <2>. QED
    BY <1>9, <2>1, <2>2 DEF ExpenseStep, BeginStep
<1>10. CASE UNCHANGED vars
  BY <1>1, <1>10 DEF vars, statements
<1>. QED
  BY <1>2, <1>3, <1>4, <1>6, <1>7, <1>8, <1>9, <1>10 DEF Next

(* What the invariant says of the statements. *)
LEMMA BookedMeans ==
    ASSUME TypeOK, Booked
    PROVE  SettledIffPaid /\ DebtCarried
<1>1. SettledIffPaid
  <2>. SUFFICES ASSUME NEW k \in Cycle, Recorded(k)
                PROVE  /\ status[k] = "PAID" <=> RemainingOf(k) <= 0
                       /\ status[k] = "CLOSED" => IsLast(k)
                       /\ status[k] = "ROLLED_OVER" =>
                            k < NumCycles /\ Recorded(k + 1)
                            /\ previousBalance[k + 1] = RemainingOf(k)
    BY DEF SettledIffPaid
  <2>1. RemainingOf(k) = Left(k, expense, refund, payment, previousBalance)
    BY LeftIsRemaining
  <2>. QED
    BY <2>1 DEF Booked, Settlement, Settles, Recorded, IsLast
<1>2. DebtCarried
  <2>. SUFFICES ASSUME NEW k \in Cycle, IsLast(k)
                PROVE  RemainingOf(k)
                         = Worth({e \in Spent : expense[e].postedOn \in 1..k}, expense)
                           - Worth({f \in Refund : refund[f].postedOn \in 1..k}, refund)
                           - Worth({p \in Payment : payment[p].statement \in 1..k}, payment)
    BY DEF DebtCarried
  <2>1. RemainingOf(k) = Owed(k, expense, refund, payment)
    BY LeftIsRemaining DEF Booked, Settlement, Settles, Recorded, IsLast
  <2>2. ChargedRows(1..k, expense) = {e \in Spent : expense[e].postedOn \in 1..k}
    BY DEF ChargedRows, Spent
  <2>3. ReturnedRows(1..k, refund) = {f \in Refund : refund[f].postedOn \in 1..k}
    BY DEF ReturnedRows
  <2>4. PaidRows(1..k, payment) = {p \in Payment : payment[p].statement \in 1..k}
    BY DEF PaidRows, NoPayment, Cycle
  <2>. QED
    BY <2>1, <2>2, <2>3, <2>4 DEF Owed, Charged, Returned, Paid
<1>. QED
  BY <1>1, <1>2

(* The invariant of the statements, when no cycle ends while a request is  *)
(* in progress and no closed expense is posted again.                      *)
LEMMA AlwaysBooked ==
    ASSUME ~Straddle, ~Repost
    PROVE  Spec => [](TypeOK /\ Windows /\ Booked)
<1>1. Init => TypeOK /\ Windows /\ Booked
  BY TypeInit, WindowsInit, BookedInit
<1>2. TypeOK /\ Windows /\ Booked /\ [Next]_vars => (TypeOK /\ Windows /\ Booked)'
  BY TypeNext, WindowsNext, BookedNext
<1>. QED
  BY <1>1, <1>2, PTL DEF Spec

(* A recorded statement is PAID exactly when nothing remains of it; only   *)
(* the last one may be CLOSED, and what remains of a rolled over one is    *)
(* all in the next (INV-0013-10), while closed expenses are not posted     *)
(* again.                                                                  *)
THEOREM StatusFollowsDebt ==
    ASSUME ~Straddle, ~Repost
    PROVE  Spec => []SettledIffPaid
<1>1. TypeOK /\ Windows /\ Booked => SettledIffPaid
  BY BookedMeans
<1>. QED
  BY <1>1, AlwaysBooked, PTL

(* INV-0013-09, INV-0013-10: what remains of the last recorded statement   *)
(* is all that was ever charged in the recorded cycles minus all that was  *)
(* ever returned and paid for them, however many statements it went over,  *)
(* while closed expenses are not posted again.                             *)
THEOREM DebtIsCarried ==
    ASSUME ~Straddle, ~Repost
    PROVE  Spec => []DebtCarried
<1>1. TypeOK /\ Windows /\ Booked => DebtCarried
  BY BookedMeans
<1>. QED
  BY <1>1, AlwaysBooked, PTL


-----------------------------------------------------------------------------
(* The expenses of a settled debt. *)

(* Settled, for the statuses st. *)
PaidUp(j, st) ==
    \E k \in j..NumCycles :
        st[k] = "PAID" /\ \A i \in j..(k - 1) : st[i] = "ROLLED_OVER"
Debts(st, ex) ==
    \A e \in Expense : ex[e].status \in Counted =>
        (ex[e].status = "PAID" <=> PaidUp(ex[e].postedOn, st))

(* Nothing that has not ended is settled. *)
LEMMA NotYetPaidUp ==
    ASSUME NEW st, NEW today \in Cycle, Past(st, today), NEW j \in Int, j >= today
    PROVE  ~PaidUp(j, st)
<1>. SUFFICES ASSUME NEW k \in j..NumCycles, st[k] = "PAID" PROVE FALSE
  BY DEF PaidUp
<1>1. k \in Cycle /\ k >= today
  BY DEF Cycle
<1>2. k < today
  BY <1>1 DEF Past
<1>. QED
  BY <1>1, <1>2 DEF Cycle

(* Statement k, the last one, is settled or not: the debts that change are *)
(* those of its chain.                                                     *)
LEMMA ChainSettles ==
    ASSUME NEW st, NEW st2, NEW k \in Cycle, NEW j \in Cycle,
           \A i \in Cycle : i > k => st[i] = "OPEN" /\ st2[i] = "OPEN",
           st[k] # "PAID",
           \A i \in Cycle : i < k => (st2[i] = "PAID" <=> st[i] = "PAID"),
           \A i \in Cycle : i < k - 1 => (st2[i] = "ROLLED_OVER" <=> st[i] = "ROLLED_OVER")
    PROVE  /\ PaidUp(j, st2) <=> PaidUp(j, st) \/ (st2[k] = "PAID" /\ j \in Chain(k, st2))
           /\ j \in Chain(k, st2) => ~PaidUp(j, st)
<1>0. /\ k \in Int /\ j \in Int /\ j >= 1 /\ k <= NumCycles /\ NumCycles \in Int
      /\ \A m \in j..NumCycles : m \in Cycle
  BY DEF Cycle
<1>1. ASSUME NEW m \in j..NumCycles, st2[m] = "PAID",
             \A i \in j..(m - 1) : st2[i] = "ROLLED_OVER"
      PROVE  PaidUp(j, st) \/ (st2[k] = "PAID" /\ j \in Chain(k, st2))
  <2>1. m <= k
    BY <1>0, <1>1
  <2>2. CASE m = k
    BY <1>0, <1>1, <2>2 DEF Chain
  <2>3. CASE m < k
    <3>1. st[m] = "PAID"
      BY <1>0, <1>1, <2>3
    <3>2. \A i \in j..(m - 1) : i \in Cycle /\ i < k - 1
      BY <1>0, <2>3 DEF Cycle
    <3>3. \A i \in j..(m - 1) : st[i] = "ROLLED_OVER"
      BY <1>1, <3>2
    <3>. QED
      BY <3>1, <3>3 DEF PaidUp
  <2>. QED
    BY <1>0, <2>1, <2>2, <2>3
<1>2. ASSUME NEW m \in j..NumCycles, st[m] = "PAID",
             \A i \in j..(m - 1) : st[i] = "ROLLED_OVER"
      PROVE  PaidUp(j, st2) /\ j \notin Chain(k, st2)
  <2>1. m < k /\ m \in Cycle
    BY <1>0, <1>2
  <2>2. st2[m] = "PAID"
    BY <1>2, <2>1
  <2>3. \A i \in j..(m - 1) : i \in Cycle /\ i < k - 1
    BY <1>0, <2>1 DEF Cycle
  <2>4. \A i \in j..(m - 1) : st2[i] = "ROLLED_OVER"
    BY <1>2, <2>3
  <2>5. m \in j..(k - 1)
    BY <1>0, <2>1
  <2>. QED
    BY <2>2, <2>4, <2>5 DEF PaidUp, Chain
<1>3. ASSUME st2[k] = "PAID", j \in Chain(k, st2)
      PROVE  PaidUp(j, st2)
  <2>1. k \in j..NumCycles /\ \A i \in j..(k - 1) : st2[i] = "ROLLED_OVER"
    BY <1>0, <1>3 DEF Chain
  <2>. QED
    BY <1>3, <2>1 DEF PaidUp
<1>. QED
  BY <1>1, <1>2, <1>3 DEF PaidUp

(* An expense that counts is posted in a cycle. *)
LEMMA CountedPosted ==
    ASSUME TypeOK, NEW e \in Expense, expense[e].status \in Counted
    PROVE  expense[e].postedOn \in Cycle /\ expense[e].postedOn \in Int
<1>1. expense[e] \in ExpenseRow \cup {NoExpense} /\ expense[e].status # "NONE"
  BY DEF TypeOK, Counted
<1>2. expense[e].postedOn \in Cycle
  BY <1>1, ExpenseFields
<1>. QED
  BY <1>2 DEF Cycle

(* The expenses follow the statement that is paid. *)
LEMMA MarkPaidDebts ==
    ASSUME TypeOK, Debts(status, expense), NEW st, NEW window, MarkPaid(window),
           \A j \in Cycle : PaidUp(j, st) <=> PaidUp(j, status) \/ j \in window
    PROVE  Debts(st, expense')
<1>1. MarkDoes(window, LimitConsuming, "PAID")
  <2>1. Mark(window, LimitConsuming, "PAID")
    BY DEF MarkPaid
  <2>. QED
    BY <2>1, MarkShape DEF LimitConsuming, Counted
<1>2. ASSUME NEW e \in Expense, expense'[e].status \in Counted
      PROVE  expense'[e].status = "PAID" <=> PaidUp(expense'[e].postedOn, st)
  <2>1. /\ expense[e].status \in Counted
        /\ expense'[e].postedOn = expense[e].postedOn
        /\ expense'[e].status = IF e \in Matching(window, LimitConsuming) THEN "PAID"
                                ELSE expense[e].status
    BY <1>1, <1>2 DEF MarkDoes
  <2>2. expense[e].postedOn \in Cycle
    BY <2>1, CountedPosted
  <2>3. expense[e].status = "PAID" <=> PaidUp(expense[e].postedOn, status)
    BY <2>1 DEF Debts
  <2>4. e \in Matching(window, LimitConsuming) <=>
          expense[e].status # "PAID" /\ expense[e].postedOn \in window
    BY <2>1 DEF Matching, LimitConsuming, Counted
  <2>. QED
    BY <2>1, <2>2, <2>3, <2>4
<1>. QED
  BY <1>2 DEF Debts

(* Marking a window unpaid fits statements that lose their payment in that window. *)
LEMMA MarkUnpaidDebts ==
    ASSUME TypeOK, Debts(status, expense), NEW st, NEW window, MarkUnpaid(window),
           \A j \in Cycle : PaidUp(j, st) <=> PaidUp(j, status) /\ j \notin window
    PROVE  Debts(st, expense')
<1>1. MarkDoes(window, {"PAID"}, "OPEN")
  <2>1. Mark(window, {"PAID"}, "OPEN")
    BY DEF MarkUnpaid
  <2>. QED
    BY <2>1, MarkShape DEF Counted
<1>2. ASSUME NEW e \in Expense, expense'[e].status \in Counted
      PROVE  expense'[e].status = "PAID" <=> PaidUp(expense'[e].postedOn, st)
  <2>1. /\ expense[e].status \in Counted
        /\ expense'[e].postedOn = expense[e].postedOn
        /\ expense'[e].status = IF e \in Matching(window, {"PAID"}) THEN "OPEN"
                                ELSE expense[e].status
    BY <1>1, <1>2 DEF MarkDoes
  <2>2. expense[e].postedOn \in Cycle
    BY <2>1, CountedPosted
  <2>3. expense[e].status = "PAID" <=> PaidUp(expense[e].postedOn, status)
    BY <2>1 DEF Debts
  <2>4. e \in Matching(window, {"PAID"}) <=>
          expense[e].status = "PAID" /\ expense[e].postedOn \in window
    BY DEF Matching
  <2>. QED
    BY <2>1, <2>2, <2>3, <2>4
<1>. QED
  BY <1>2 DEF Debts

(* Closing keeps expenses PAID with their debt: with nothing left it marks the whole chain.
   *)
LEMMA RegisterDebts ==
    ASSUME TypeOK, Booked, Debts(status, expense), NEW k \in Cycle, Register(k)
    PROVE  Debts(status', expense')
<1>1. PICK st2 : st2 = status'
  OBVIOUS
<1>2. /\ st2 = [RolledOver(k) EXCEPT ![k] = IF PaidInFull(k) THEN "PAID" ELSE "CLOSED"]
      /\ IsCurrent(k)
  BY <1>1, RegisterShape
<1>3. /\ st2[k] = IF PaidInFull(k) THEN "PAID" ELSE "CLOSED"
      /\ \A i \in Cycle \ {k} : st2[i] = RolledOver(k)[i]
      /\ \A i \in Cycle : RolledOver(k)[i] = IF i = k - 1 /\ status[i] = "CLOSED"
                                             THEN "ROLLED_OVER" ELSE status[i]
  BY <1>2 DEF RolledOver
<1>4. status[k] = "OPEN" /\ \A i \in Cycle : i > k => status[i] = "OPEN"
  BY <1>2 DEF IsCurrent, Recorded, Booked, Past
<1>5. /\ \A i \in Cycle : i > k => status[i] = "OPEN" /\ st2[i] = "OPEN"
      /\ \A i \in Cycle : i < k => (st2[i] = "PAID" <=> status[i] = "PAID")
      /\ \A i \in Cycle : i < k - 1 => (st2[i] = "ROLLED_OVER" <=> status[i] = "ROLLED_OVER")
  BY <1>3, <1>4 DEF Cycle
<1>6. \A j \in Cycle :
        PaidUp(j, st2) <=> PaidUp(j, status) \/ (st2[k] = "PAID" /\ j \in Chain(k, st2))
  BY <1>4, <1>5, ChainSettles
<1>7. Chain(k, st2) = Chain(k, RolledOver(k))
  <2>1. \A j \in 1..k : \A i \in j..(k - 1) : i \in Cycle \ {k}
    BY DEF Cycle
  <2>. QED
    BY <1>3, <2>1 DEF Chain
<1>8. CASE PaidInFull(k)
  <2>1. PICK window : window = Chain(k, st2)
    OBVIOUS
  <2>2. MarkPaid(window)
    BY <1>7, <1>8, <2>1, RegisterShape
  <2>3. \A j \in Cycle : PaidUp(j, st2) <=> PaidUp(j, status) \/ j \in window
    BY <1>3, <1>6, <1>8, <2>1
  <2>. QED
    BY <1>1, <2>2, <2>3, MarkPaidDebts
<1>9. CASE ~PaidInFull(k)
  <2>1. expense' = expense
    BY <1>9, RegisterShape
  <2>2. \A j \in Cycle : PaidUp(j, st2) <=> PaidUp(j, status)
    BY <1>3, <1>6, <1>9
  <2>. QED
    BY <1>1, <2>1, <2>2, CountedPosted DEF Debts
<1>. QED
  BY <1>8, <1>9

(* A payment that leaves nothing marks the chain it settles. *)
LEMMA PayDebts ==
    ASSUME TypeOK, Booked, Debts(status, expense), NEW k \in Cycle, NEW p \in Payment, Pay(k, p)
    PROVE  Debts(status', expense')
<1>1. PICK window : window = Chain(k, status)
  OBVIOUS
<1>2. /\ status[k] = "CLOSED"
      /\ \/ status' = [status EXCEPT ![k] = "PAID"] /\ MarkPaid(window)
         \/ UNCHANGED <<status, expense>>
  BY <1>1, PayShape
<1>3. CASE UNCHANGED <<status, expense>>
  BY <1>3
<1>4. CASE status' = [status EXCEPT ![k] = "PAID"] /\ MarkPaid(window)
  <2>1. PICK st2 : st2 = status'
    OBVIOUS
  <2>2. st2[k] = "PAID" /\ \A i \in Cycle \ {k} : st2[i] = status[i]
    BY <1>4, <2>1 DEF TypeOK
  <2>3. \A i \in Cycle : i > k => status[i] = "OPEN"
    BY <1>2 DEF Booked, Settlement, Settles
  <2>4. /\ \A i \in Cycle : i > k => status[i] = "OPEN" /\ st2[i] = "OPEN"
        /\ \A i \in Cycle : i < k => (st2[i] = "PAID" <=> status[i] = "PAID")
        /\ \A i \in Cycle : i < k - 1 => (st2[i] = "ROLLED_OVER" <=> status[i] = "ROLLED_OVER")
    BY <2>2, <2>3 DEF Cycle
  <2>5. \A j \in Cycle :
          PaidUp(j, st2) <=> PaidUp(j, status) \/ (st2[k] = "PAID" /\ j \in Chain(k, st2))
    BY <1>2, <2>4, ChainSettles
  <2>6. Chain(k, st2) = window
    <3>1. \A j \in 1..k : \A i \in j..(k - 1) : i \in Cycle \ {k}
      BY DEF Cycle
    <3>. QED
      BY <1>1, <2>2, <3>1 DEF Chain
  <2>7. \A j \in Cycle : PaidUp(j, st2) <=> PaidUp(j, status) \/ j \in window
    BY <2>2, <2>5, <2>6
  <2>. QED
    BY <1>4, <2>1, <2>7, MarkPaidDebts
<1>. QED
  BY <1>2, <1>3, <1>4

(* Undoing one marks it back. *)
LEMMA UndoDebts ==
    ASSUME TypeOK, Booked, Debts(status, expense), NEW k \in Cycle, NEW p \in Payment, Undo(k, p)
    PROVE  Debts(status', expense')
<1>1. PICK window : window = Chain(k, status)
  OBVIOUS
<1>2. /\ IsLast(k)
      /\ \/ /\ status[k] = "PAID"
            /\ status' = [status EXCEPT ![k] = "CLOSED"] /\ MarkUnpaid(window)
         \/ UNCHANGED <<status, expense>>
  BY <1>1, UndoShape DEF Reopens
<1>3. CASE UNCHANGED <<status, expense>>
  BY <1>3
<1>4. CASE status[k] = "PAID" /\ status' = [status EXCEPT ![k] = "CLOSED"] /\ MarkUnpaid(window)
  <2>1. PICK st : st = status'
    OBVIOUS
  <2>2. st[k] = "CLOSED" /\ \A i \in Cycle \ {k} : st[i] = status[i]
    BY <1>4, <2>1 DEF TypeOK
  <2>3. /\ \A i \in Cycle : i > k => st[i] = "OPEN" /\ status[i] = "OPEN"
        /\ \A i \in Cycle : i < k => (status[i] = "PAID" <=> st[i] = "PAID")
        /\ \A i \in Cycle : i < k - 1 => (status[i] = "ROLLED_OVER" <=> st[i] = "ROLLED_OVER")
        /\ st[k] # "PAID"
    BY <1>2, <2>2 DEF Cycle, IsLast, Recorded
  <2>4. \A j \in Cycle :
          /\ PaidUp(j, status) <=> PaidUp(j, st) \/ (status[k] = "PAID" /\ j \in Chain(k, status))
          /\ j \in Chain(k, status) => ~PaidUp(j, st)
    BY <2>3, ChainSettles
  <2>5. \A j \in Cycle : PaidUp(j, st) <=> PaidUp(j, status) /\ j \notin window
    BY <1>1, <1>4, <2>4
  <2>. QED
    BY <1>4, <2>1, <2>5, MarkUnpaidDebts
<1>. QED
  BY <1>2, <1>3, <1>4


(* A commit neither settles an expense nor moves it into a settled debt.   *)
LEMMA CommitDebts ==
    ASSUME TypeOK, Pendings, Windows, Booked, Debts(status, expense),
           NEW e \in Expense, CommitExpense(e)
    PROVE  Debts(status, expense')
<1>0. pending \in [Expense -> Change \cup {Idle}] /\ expense \in ExpenseTable /\ now \in Cycle
  BY DEF TypeOK, ExpenseTable
<1>1. pending[e].active /\ expense' = [expense EXCEPT ![e] = pending[e].row]
  BY DEF CommitExpense
<1>2. PICK old \in ExpenseRow \cup {NoExpense} : old = expense[e]
  BY <1>0 DEF ExpenseTable
<1>3. PICK new \in ExpenseRow \cup {NoExpense} : new = pending[e].row
  <2>1. pending[e] # Idle
    BY <1>1 DEF Idle
  <2>. QED
    BY <1>0, <2>1 DEF Change
<1>4. expense'[e] = new /\ \A o \in Expense \ {e} : expense'[o] = expense[o]
  BY <1>0, <1>1, <1>3 DEF ExpenseTable
<1>5. (old.status = "PAID" <=> new.status = "PAID") /\ Frozen(old, new)
  BY <1>1, <1>2, <1>3 DEF Pendings, Windows, Fits
<1>6. old.status \in Counted => (old.status = "PAID" <=> PaidUp(old.postedOn, status))
  BY <1>2 DEF Debts
<1>7. ASSUME new.status \in Counted
      PROVE  new.status = "PAID" <=> PaidUp(new.postedOn, status)
  <2>1. CASE Steady(old, new)
    BY <1>5, <1>6, <2>1 DEF Steady
  <2>2. CASE Ahead(old) /\ Ahead(new)
    <3>1. ASSUME NEW r \in ExpenseRow \cup {NoExpense}, r.status \in Counted, Ahead(r)
          PROVE  ~PaidUp(r.postedOn, status)
      <4>1. r.postedOn \in Int /\ r.postedOn >= now
        BY <3>1, ExpenseFields DEF Ahead, Counted, Cycle
      <4>. QED
        BY <1>0, <4>1, NotYetPaidUp DEF Booked
    <3>2. ~PaidUp(new.postedOn, status)
      BY <1>7, <2>2, <3>1
    <3>3. old.status # "PAID"
      BY <1>6, <2>2, <3>1 DEF Counted
    <3>. QED
      BY <1>5, <3>2, <3>3
  <2>. QED
    BY <1>5, <2>1, <2>2 DEF Frozen
<1>. QED
  BY <1>4, <1>7 DEF Debts

DebtInv == MoneyInv /\ Windows /\ Booked /\ Debts(status, expense)

(* Every step keeps expenses PAID exactly with their debt. *)
LEMMA DebtsNext ==
    ASSUME DebtInv, [Next]_vars
    PROVE  Debts(status', expense')
<1>0. TypeOK /\ Pendings /\ Windows /\ Booked /\ Debts(status, expense)
  BY DEF DebtInv, MoneyInv
<1>1. ASSUME UNCHANGED <<status, expense>> PROVE Debts(status', expense')
  BY <1>0, <1>1
<1>2. ASSUME NEW k \in Cycle, Register(k) PROVE Debts(status', expense')
  BY <1>0, <1>2, RegisterDebts
<1>3. ASSUME NEW k \in Cycle, NEW p \in Payment, Pay(k, p) \/ Undo(k, p)
      PROVE  Debts(status', expense')
  BY <1>0, <1>3, PayDebts, UndoDebts
<1>4. ASSUME NEW e \in Expense, ExpenseStep(e) PROVE Debts(status', expense')
  <2>1. CASE BeginStep(e)
    BY <1>0, <1>1, <2>1, BeginShape DEF Begin, statements
  <2>2. CASE CommitExpense(e)
    <3>1. Debts(status, expense')
      BY <1>0, <2>2, CommitDebts
    <3>. QED
      BY <2>2, <3>1 DEF CommitExpense, statements
  <2>3. CASE RollbackExpense(e)
    BY <1>1, <2>3 DEF RollbackExpense, statements
  <2>. QED
    BY <1>4, <2>1, <2>2, <2>3 DEF ExpenseStep, BeginStep
<1>5. ASSUME \/ EndCycle
             \/ \E c \in Cycle, p \in Payment : PayEarly(c, p)
             \/ \E p \in Payment : UndoEarly(p)
             \/ \E f \in Refund : CreateRefund(f) \/ DeleteRefund(f)
             \/ UNCHANGED vars
      PROVE  UNCHANGED <<status, expense>>
  BY <1>5 DEF EndCycle, PayEarly, UndoEarly, CreateRefund, DeleteRefund, vars, entries, statements
<1>. QED
  BY <1>1, <1>2, <1>3, <1>4, <1>5 DEF Next

(* Spec 0013, Pagamento: an expense is PAID exactly when the debt that     *)
(* contains it is settled: closing, paying and undoing keep the expenses   *)
(* of the whole chain in step with the statement at its end, if no cycle   *)
(* ends while a request is in progress and no closed expense is posted     *)
(* again.                                                                  *)
THEOREM ExpensesFollowTheDebt ==
    ASSUME ~Straddle, ~Repost
    PROVE  Spec => []PaidWithDebt
<1>1. Init => DebtInv
  <2>1. Init => Debts(status, expense)
    BY DEF Init, Debts, NoExpense, Counted
  <2>. QED
    BY <2>1, MoneyInit, WindowsInit, BookedInit DEF DebtInv
<1>2. DebtInv /\ [Next]_vars => DebtInv'
  <2>. SUFFICES ASSUME DebtInv, [Next]_vars PROVE DebtInv'
    OBVIOUS
  <2>1. MoneyInv /\ TypeOK /\ Windows /\ Booked
    BY DEF DebtInv, MoneyInv
  <2>2. MoneyInv' /\ Windows' /\ Booked'
    BY <2>1, MoneyNext, WindowsNext, BookedNext
  <2>3. Debts(status', expense')
    BY DebtsNext
  <2>. QED
    BY <2>2, <2>3 DEF DebtInv
<1>3. DebtInv => PaidWithDebt
  BY DEF DebtInv, Debts, PaidWithDebt, PaidUp, Settled, Spent
<1>. QED
  BY <1>1, <1>2, <1>3, PTL DEF Spec
-----------------------------------------------------------------------------
(* The debt that reports show. *)

(* Only a recorded statement has received a balance, and no payment has a  *)
(* day that is still to come.                                              *)
Dated == /\ \A k \in Cycle : status[k] = "OPEN" => previousBalance[k] = 0
         /\ \A p \in Payment : payment[p].paidOn <= now

(* A payment recorded or undone leaves the other ones as they are.         *)
LEMMA DatedByOne ==
    ASSUME TypeOK, Dated, NEW p \in Payment, payment'[p].paidOn <= now,
           \A q \in Payment \ {p} : payment'[q] = payment[q],
           UNCHANGED <<now, previousBalance>>,
           \A k \in Cycle : status'[k] = "OPEN" => status[k] = "OPEN"
    PROVE  Dated'
  BY DEF Dated

(* Every step keeps the balances and the days in order.                    *)
LEMMA DatedNext ==
    ASSUME TypeOK, Dated, [Next]_vars
    PROVE  Dated'
<1>0. /\ now \in Int /\ \A p \in Payment : payment[p].paidOn \in Int
      /\ status \in [Cycle -> {"OPEN", "CLOSED", "PAID", "ROLLED_OVER"}]
      /\ previousBalance \in [Cycle -> Int]
      /\ payment \in PaymentTable
  <2>1. \A r \in PaymentRow \cup {NoPayment} : r.paidOn \in Int
    BY DEF PaymentRow, NoPayment, Cycle
  <2>. QED
    BY <2>1 DEF TypeOK, Cycle, PaymentTable
<1>1. ASSUME UNCHANGED <<status, previousBalance, payment>>, now' \in {now, now + 1}
      PROVE  Dated'
  BY <1>0, <1>1 DEF Dated
<1>2. CASE EndCycle
  BY <1>1, <1>2 DEF EndCycle, statements
<1>3. ASSUME NEW k \in Cycle, Register(k) PROVE Dated'
  <2>1. \A p \in Payment : payment'[p].paidOn = payment[p].paidOn
    BY <1>3, TakenOver
  <2>2. ASSUME NEW j \in Cycle, status'[j] = "OPEN"
        PROVE  status[j] = "OPEN" /\ previousBalance'[j] = previousBalance[j]
    BY <1>0, <1>3, <2>2, RegisterShape DEF RolledOver
  <2>3. now' = now
    BY <1>3, RegisterShape
  <2>. QED
    BY <2>1, <2>2, <2>3 DEF Dated
<1>4. ASSUME NEW k \in Cycle, NEW p \in Payment, Pay(k, p) PROVE Dated'
  <2>1. PICK a \in Amount, day \in (k + 1)..now :
          Record(p, [statement |-> k, paidOn |-> day, amount |-> a])
    BY <1>4 DEF Pay
  <2>2. k \in 0..NumCycles /\ day \in Cycle
    BY DEF Cycle, TypeOK
  <2>3. payment'[p] = [statement |-> k, paidOn |-> day, amount |-> a]
        /\ \A q \in Payment \ {p} : payment'[q] = payment[q]
    BY <2>1, <2>2, RecordShape
  <2>4. payment'[p].paidOn <= now
    BY <1>0, <2>3
  <2>5. \A j \in Cycle : status'[j] = "OPEN" => status[j] = "OPEN"
    BY <1>0, <1>4, PayShape
  <2>6. UNCHANGED <<now, previousBalance>>
    BY <1>4 DEF Pay
  <2>. QED
    BY <2>3, <2>4, <2>5, <2>6, DatedByOne
<1>5. ASSUME NEW k \in Cycle, NEW p \in Payment, PayEarly(k, p) PROVE Dated'
  <2>1. PICK a \in Amount, day \in k..now :
          Record(p, [statement |-> 0, paidOn |-> day, amount |-> a])
    BY <1>5 DEF PayEarly
  <2>2. 0 \in 0..NumCycles /\ day \in Cycle
    BY DEF Cycle, TypeOK
  <2>3. payment'[p] = [statement |-> 0, paidOn |-> day, amount |-> a]
        /\ \A q \in Payment \ {p} : payment'[q] = payment[q]
    BY <2>1, <2>2, RecordShape
  <2>4. payment'[p].paidOn <= now
    BY <1>0, <2>3
  <2>5. UNCHANGED <<now, status, previousBalance>>
    BY <1>5, PayEarlyShape
  <2>. QED
    BY <2>3, <2>4, <2>5, DatedByOne
<1>6. ASSUME NEW p \in Payment, Reverted(p), \A j \in Cycle : status'[j] = "OPEN" => status[j] = "OPEN"
      PROVE  Dated'
  <2>1. payment'[p].paidOn <= now
    BY <1>6 DEF Reverted, NoPayment, TypeOK, Cycle
  <2>. QED
    BY <1>6, <2>1, DatedByOne DEF Reverted
<1>7. ASSUME NEW k \in Cycle, NEW p \in Payment, Undo(k, p) PROVE Dated'
  <2>1. Reverted(p) /\ \A j \in Cycle : status'[j] = "OPEN" => status[j] = "OPEN"
    BY <1>0, <1>7, UndoShape
  <2>. QED
    BY <1>6, <2>1
<1>8. ASSUME NEW p \in Payment, UndoEarly(p) PROVE Dated'
  BY <1>6, <1>8, UndoEarlyShape
<1>9. ASSUME NEW f \in Refund, CreateRefund(f) \/ DeleteRefund(f) PROVE Dated'
  BY <1>1, <1>9 DEF CreateRefund, DeleteRefund, statements
<1>10. ASSUME NEW e \in Expense, ExpenseStep(e) PROVE Dated'
  <2>1. CASE BeginStep(e)
    BY <1>1, <2>1, BeginShape DEF Begin, statements
  <2>2. CASE CommitExpense(e) \/ RollbackExpense(e)
    BY <1>1, <2>2 DEF CommitExpense, RollbackExpense, statements
  <2>. QED
    BY <1>10, <2>1, <2>2 DEF ExpenseStep, BeginStep
<1>11. CASE UNCHANGED vars
  BY <1>1, <1>11 DEF vars, statements
<1>. QED
  BY <1>2, <1>3, <1>4, <1>5, <1>7, <1>8, <1>9, <1>10, <1>11 DEF Next
(* What a report finds, once every closing that is due is recorded.        *)
LEMMA UpToDate ==
    ASSUME TypeOK, Booked, \A k \in Cycle : k < now => Recorded(k)
    PROVE  /\ \A k \in Cycle : Recorded(k) <=> k < now
           /\ \A k \in Cycle : IsCurrent(k) <=> k = now
           /\ \A k \in Cycle : IsLast(k) <=> k = now - 1
           /\ \A d \in now..NumCycles : Ledger(d) = 1..d
<1>0. now \in Cycle /\ Cycle \subseteq Int
  BY DEF TypeOK, Cycle
<1>1. \A k \in Cycle : Recorded(k) <=> k < now
  BY DEF Booked, Past, Recorded
<1>2. ASSUME NEW k \in Cycle PROVE IsCurrent(k) <=> k = now
  <2>1. IsCurrent(k) <=> k >= now /\ \A j \in Cycle : j < k => j < now
    BY <1>0, <1>1 DEF IsCurrent
  <2>2. now < k => ~(\A j \in Cycle : j < k => j < now)
    BY <1>0
  <2>. QED
    BY <1>0, <2>1, <2>2
<1>3. ASSUME NEW k \in Cycle PROVE IsLast(k) <=> k = now - 1
  <2>1. IsLast(k) <=> k < now /\ \A j \in Cycle : j > k => j >= now
    BY <1>0, <1>1 DEF IsLast
  <2>2. k < now - 1 => ~(\A j \in Cycle : j > k => j >= now)
    <3>. SUFFICES ASSUME k < now - 1 PROVE \E j \in Cycle : j > k /\ ~(j >= now)
      OBVIOUS
    <3>1. k + 1 \in Cycle /\ k + 1 > k /\ ~(k + 1 >= now)
      BY <1>0 DEF Cycle
    <3>. QED
      BY <3>1
  <2>. QED
    BY <1>0, <2>1, <2>2
<1>4. ASSUME NEW d \in now..NumCycles PROVE Ledger(d) = 1..d
  <2>1. \A k \in Cycle : (Recorded(k) \/ IsCurrent(k)) <=> k <= now
    BY <1>0, <1>1, <1>2
  <2>2. ListedToday = {k \in Cycle : k <= now}
    BY <2>1 DEF ListedToday
  <2>. QED
    BY <1>0, <2>2 DEF Ledger, Cycle
<1>. QED
  BY <1>1, <1>2, <1>3, <1>4

(* What the last statement leaves to pay, or to the account: all that is   *)
(* owed for the cycles that have ended.                                    *)
Carry == IF now = 1 THEN 0 ELSE RemainingOf(now - 1)

LEMMA CarryIsOwed ==
    ASSUME TypeOK, Booked, \A k \in Cycle : k < now => Recorded(k)
    PROVE  /\ Carry \in Int
           /\ Carry = Owed(now - 1, expense, refund, payment)
           /\ now # 1 => /\ now - 1 \in Cycle
                         /\ status[now - 1] \in {"CLOSED", "PAID"}
                         /\ status[now - 1] = "PAID" <=> Carry <= 0
<1>0. now \in Cycle /\ now \in Int
  BY DEF TypeOK, Cycle
<1>1. CASE now = 1
  <2>1. 1..(now - 1) = {}
    BY <1>1
  <2>2. Owed(now - 1, expense, refund, payment) = 0 - 0 - 0
    BY <2>1, SumsOfNone DEF Owed
  <2>. QED
    BY <1>1, <2>2 DEF Carry
<1>2. CASE now # 1
  <2>1. PICK k \in Cycle : k = now - 1
    BY <1>0, <1>2 DEF Cycle
  <2>2. IsLast(k) /\ Recorded(k) /\ k < now
    BY <1>0, <2>1, UpToDate DEF IsLast
  <2>3. RemainingOf(k) = Left(k, expense, refund, payment, previousBalance) /\ RemainingOf(k) \in Int
    BY LeftIsRemaining, ValueTypes
  <2>4. /\ status[k] = "PAID" <=> RemainingOf(k) <= 0
        /\ status[k] = "ROLLED_OVER" => k < NumCycles /\ Recorded(k + 1)
        /\ RemainingOf(k) = Owed(k, expense, refund, payment)
    BY <2>2, <2>3 DEF Booked, Settlement, Settles, Recorded
  <2>5. status[k] # "ROLLED_OVER"
    <3>1. k < NumCycles => k + 1 \in Cycle /\ ~(k + 1 < now)
      BY <1>0, <2>1 DEF Cycle
    <3>. QED
      BY <2>4, <3>1, UpToDate
  <2>6. status[k] \in {"CLOSED", "PAID"}
    BY <2>2, <2>5 DEF TypeOK, Recorded
  <2>. QED
    BY <1>2, <2>1, <2>3, <2>4, <2>6 DEF Carry
<1>. QED
  BY <1>1, <1>2

(* What a statement that is not recorded shows as paid: the current one    *)
(* the early payments, the others nothing.                                 *)
LEMMA PaidAhead ==
    ASSUME TypeOK, Booked, NEW k \in Cycle, k >= now,
           \A j \in Cycle : j < now => Recorded(j)
    PROVE  /\ ShownPaid(k) = IF k = now THEN Paid({0}, payment) ELSE 0
           /\ ProjectedDue(k) = TotalOf(k) - ShownPaid(k) + ForecastsIn(k)
           /\ ShownPaid(k) \in Int /\ ForecastsIn(k) \in Int /\ ProjectedDue(k) \in Int
<1>0. now \in Cycle /\ Cycle \subseteq Int
  BY DEF TypeOK, Cycle
<1>1. IsCurrent(k) <=> k = now
  BY UpToDate
<1>2. ASSUME k = now PROVE ShownPaid(k) = Paid({0}, payment)
  BY <1>1, <1>2, Values DEF ShownPaid
<1>3. ASSUME k # now PROVE ShownPaid(k) = 0
  <2>1. ~Recorded(k)
    BY <1>0, UpToDate
  <2>2. PaymentsOf(k) = {}
    <3>1. k # 0
      BY <1>0 DEF Cycle
    <3>. QED
      BY <2>1, <3>1 DEF Booked, Homed, PaymentsOf, Recorded
  <2>. QED
    BY <1>1, <1>3, <2>2, WorthEmpty DEF ShownPaid
<1>4. ShownPaid(k) = IF k = now THEN Paid({0}, payment) ELSE 0
  BY <1>2, <1>3
<1>5. Paid({0}, payment) \in Int /\ TotalOf(k) \in Int
  BY SumTypes, ValueTypes
<1>6. ForecastsIn(k) \in Int
  <2>1. PICK S : S = {e \in Forecasts : expense[e].postedOn = k}
    OBVIOUS
  <2>2. IsFiniteSet(S)
    BY <2>1, FS_Subset DEF Forecasts
  <2>3. Worth(S, expense) \in Nat
    BY <2>2, WorthType
  <2>. QED
    BY <2>1, <2>3 DEF ForecastsIn
<1>7. ShownPaid(k) \in Int
  BY <1>4, <1>5
<1>. QED
  BY <1>4, <1>5, <1>6, <1>7 DEF ProjectedDue

(* The sum of the debt to come of any cycles that are not recorded.        *)
DueOf      == [k \in Cycle |-> ProjectedDue(k)]
ForecastOf == [k \in Cycle |-> ForecastsIn(k)]
EarlyIn(W) == IF now \in W THEN Paid({0}, payment) ELSE 0

LEMMA DueAhead ==
    ASSUME TypeOK, Booked, \A j \in Cycle : j < now => Recorded(j),
           NEW W \in SUBSET (now..NumCycles)
    PROVE  /\ SumOf(W, DueOf) = Charged(W, expense) - Returned(W, refund) - EarlyIn(W)
                                  + SumOf(W, ForecastOf)
           /\ SumOf(W, DueOf) \in Int /\ SumOf(W, ForecastOf) \in Int
<1>. DEFINE Means(T) == SumOf(T, DueOf) = Charged(T, expense) - Returned(T, refund)
                                            - EarlyIn(T) + SumOf(T, ForecastOf)
            Q == {T \in SUBSET (now..NumCycles) : Means(T)}
<1>0. now..NumCycles \subseteq Cycle /\ now \in Int /\ IsFiniteSet(now..NumCycles)
  <2>1. now..NumCycles \subseteq Cycle /\ now \in Int
    BY DEF TypeOK, Cycle
  <2>2. IsFiniteSet(Cycle)
    BY FS_Interval DEF Cycle
  <2>. QED
    BY <2>1, <2>2, FS_Subset
<1>1. ASSUME NEW k \in now..NumCycles
      PROVE  /\ DueOf[k] \in Int /\ ForecastOf[k] \in Int
             /\ DueOf[k] = Charged({k}, expense) - Returned({k}, refund)
                             - (IF k = now THEN Paid({0}, payment) ELSE 0) + ForecastOf[k]
  <2>1. k \in Cycle /\ k >= now
    BY <1>0
  <2>2. DueOf[k] = ProjectedDue(k) /\ ForecastOf[k] = ForecastsIn(k)
    BY <2>1 DEF DueOf, ForecastOf
  <2>. QED
    BY <2>1, <2>2, PaidAhead, Values
<1>2. ASSUME NEW T \in SUBSET (now..NumCycles)
      PROVE  /\ IsFiniteSet(T) /\ \A k \in T : DueOf[k] \in Int /\ ForecastOf[k] \in Int
             /\ SumOf(T, DueOf) \in Int /\ SumOf(T, ForecastOf) \in Int
  <2>1. IsFiniteSet(T)
    BY <1>0, FS_Subset
  <2>2. \A k \in T : DueOf[k] \in Int /\ ForecastOf[k] \in Int
    BY <1>1
  <2>. QED
    BY <2>1, <2>2, SumOfType
<1>3. ASSUME NEW T \in SUBSET (now..NumCycles), \A x \in T : T \ {x} \in Q
      PROVE  T \in Q
  <2>1. CASE T = {}
    <3>1. SumOf(T, DueOf) = 0 /\ SumOf(T, ForecastOf) = 0
      BY <1>2, <2>1, SumTurns
    <3>2. Charged(T, expense) = 0 /\ Returned(T, refund) = 0 /\ EarlyIn(T) = 0
      BY <2>1, SumsOfNone DEF EarlyIn
    <3>. QED
      BY <3>1, <3>2
  <2>2. CASE T # {}
    <3>1. PICK x \in T : TRUE
      BY <2>2
    <3>2. PICK V, W1 : V = T \ {x} /\ W1 = {x}
      OBVIOUS
    <3>3. /\ SumOf(T, DueOf) = DueOf[x] + SumOf(V, DueOf)
          /\ SumOf(T, ForecastOf) = ForecastOf[x] + SumOf(V, ForecastOf)
      BY <1>2, <3>1, <3>2, SumOfTake
    <3>4. /\ Charged(T, expense) = Charged(V, expense) + Charged(W1, expense)
          /\ Returned(T, refund) = Returned(V, refund) + Returned(W1, refund)
      <4>1. PICK U : U = T
        OBVIOUS
      <4>2. U = V \cup W1 /\ V \cap W1 = {}
        BY <3>1, <3>2, <4>1
      <4>3. Charged(U, expense) = Charged(V, expense) + Charged(W1, expense)
        BY <4>2, SumsSplit
      <4>4. Returned(U, refund) = Returned(V, refund) + Returned(W1, refund)
        BY <4>2, SumsSplit
      <4>. QED
        BY <4>1, <4>3, <4>4
    <3>5. EarlyIn(T) = EarlyIn(V) + (IF x = now THEN Paid({0}, payment) ELSE 0)
          /\ EarlyIn(V) \in Int
      <4>1. Paid({0}, payment) \in Int
        BY SumTypes
      <4>. QED
        BY <3>1, <3>2, <4>1 DEF EarlyIn
    <3>6. V \in SUBSET (now..NumCycles) /\ Means(V)
      BY <1>3, <3>1, <3>2
    <3>7. /\ DueOf[x] = Charged(W1, expense) - Returned(W1, refund)
                          - (IF x = now THEN Paid({0}, payment) ELSE 0) + ForecastOf[x]
          /\ ForecastOf[x] \in Int
      BY <1>1, <3>1, <3>2
    <3>8. PICK c, r, p \in Int : c = Charged(W1, expense) /\ r = Returned(W1, refund)
                                 /\ p = IF x = now THEN Paid({0}, payment) ELSE 0
      <4>1. /\ Charged(W1, expense) \in Int /\ Returned(W1, refund) \in Int
            /\ Paid({0}, payment) \in Int
        BY SumTypes
      <4>. QED
        BY <4>1
    <3>9. PICK C, R \in Int : C = Charged(V, expense) /\ R = Returned(V, refund)
      BY SumTypes
    <3>10. SumOf(V, ForecastOf) \in Int
      BY <1>2, <3>6
    <3>11. SumOf(V, DueOf) = C - R - EarlyIn(V) + SumOf(V, ForecastOf)
      BY <3>6, <3>9
    <3>12. SumOf(T, DueOf) = (C + c) - (R + r) - (EarlyIn(V) + p) + SumOf(T, ForecastOf)
      BY <3>3, <3>5, <3>7, <3>8, <3>10, <3>11
    <3>13. Means(T)
      BY <3>4, <3>5, <3>8, <3>9, <3>12
    <3>. QED
      BY <3>13
  <2>. QED
    BY <2>1, <2>2
<1>4. \A T \in SUBSET (now..NumCycles) : T \in Q
  <2>1. PICK D : D = now..NumCycles
    OBVIOUS
  <2>2. IsFiniteSet(D) /\ \A T \in SUBSET D : (\A x \in T : T \ {x} \in Q) => T \in Q
    BY <1>0, <1>3, <2>1
  <2>3. \A T \in SUBSET D : T \in Q
    <3>. HIDE DEF Q
    <3>. QED
      BY <2>2, SubsetInduction
  <2>. QED
    BY <2>1, <2>3
<1>. QED
  BY <1>2, <1>4

(* cardDebtOn, once every closing that is due is recorded: what the last   *)
(* statement leaves, and what the ones to come will ask for.               *)
LEMMA CardDebt ==
    ASSUME TypeOK, Booked, \A j \in Cycle : j < now => Recorded(j),
           NEW d \in now..NumCycles
    PROVE  CardDebtOn(d) = Carry + SumOf(now..d, DueOf)
<1>0. now \in Cycle /\ Cycle \subseteq Int /\ d \in Cycle /\ now <= d
  BY DEF TypeOK, Cycle
<1>1. PICK closed, open, last :
        /\ closed = {k \in Ledger(d) : status[k] = "CLOSED"}
        /\ open = {k \in Ledger(d) : ~Recorded(k) /\ k <= d}
        /\ last = {k \in Ledger(d) : IsLast(k)}
  OBVIOUS
<1>. DEFINE Rest   == [k \in Cycle |-> RemainingOf(k)]
            Credits == [k \in Cycle |-> Credit(k)]
<1>2. CardDebtOn(d) = SumOf(closed, Rest) + SumOf(open, DueOf) + SumOf(last, Credits)
  BY <1>1 DEF CardDebtOn, DueOf
<1>3. Ledger(d) = 1..d /\ \A k \in 1..d : k \in Cycle
  BY <1>0, UpToDate DEF Cycle
<1>4. open = now..d
  BY <1>0, <1>1, <1>3, UpToDate DEF Cycle
<1>5. last = IF now = 1 THEN {} ELSE {now - 1}
  BY <1>0, <1>1, <1>3, UpToDate DEF Cycle
<1>6. /\ Carry \in Int
      /\ now # 1 => /\ now - 1 \in Cycle
                    /\ status[now - 1] \in {"CLOSED", "PAID"}
                    /\ status[now - 1] = "PAID" <=> Carry <= 0
  BY CarryIsOwed
<1>7. \A k \in closed : k = now - 1
  <2>1. SettledIffPaid
    BY BookedMeans
  <2>2. \A k \in closed : k \in Cycle /\ Recorded(k) /\ status[k] = "CLOSED"
    BY <1>1, <1>3 DEF Recorded
  <2>3. \A k \in closed : IsLast(k)
    BY <2>1, <2>2 DEF SettledIffPaid
  <2>. QED
    BY <2>2, <2>3, UpToDate
<1>8. SumOf({}, Rest) = 0 /\ SumOf({}, Credits) = 0
  BY SumTurns, FS_EmptySet
<1>9. SumOf(closed, Rest) + SumOf(last, Credits) = Carry
  <2>1. CASE now = 1
    <3>1. closed = {} /\ last = {}
      BY <1>0, <1>1, <1>3, <1>5, <1>7, <2>1
    <3>. QED
      BY <1>8, <2>1, <3>1 DEF Carry
  <2>2. CASE now # 1
    <3>1. PICK m \in Cycle : m = now - 1
      BY <1>6, <2>2
    <3>2. Carry = RemainingOf(m) /\ last = {m}
      BY <1>5, <2>2, <3>1 DEF Carry
    <3>3. SumOf({m}, Rest) = Carry
      <4>1. Rest[m] = Carry
        BY <3>2
      <4>. HIDE DEF Rest
      <4>. QED
        BY <1>6, <4>1, SumOfOne
    <3>4. SumOf({m}, Credits) = Credit(m) /\ Credit(m) \in Int
      <4>1. Credits[m] = Credit(m) /\ Credit(m) \in Int
        BY <1>6, <3>2 DEF Credit
      <4>. HIDE DEF Credits
      <4>. QED
        BY <4>1, SumOfOne
    <3>5. m \in Ledger(d)
      BY <1>0, <1>3, <3>1 DEF Cycle
    <3>6. CASE status[m] = "CLOSED"
      <4>1. closed = {m}
        BY <1>1, <1>7, <3>1, <3>5, <3>6
      <4>2. Credit(m) = 0
        BY <3>6 DEF Credit
      <4>. QED
        BY <1>6, <3>2, <3>3, <3>4, <4>1, <4>2
    <3>7. CASE status[m] = "PAID"
      <4>1. closed = {}
        BY <1>1, <1>7, <3>1, <3>7
      <4>2. Credit(m) = Carry
        BY <1>6, <2>2, <3>1, <3>2, <3>7 DEF Credit
      <4>. QED
        BY <1>6, <1>8, <3>2, <3>4, <4>1, <4>2
    <3>. QED
      BY <1>6, <2>2, <3>1, <3>6, <3>7
  <2>. QED
    BY <2>1, <2>2
<1>10. SumOf(closed, Rest) \in Int /\ SumOf(last, Credits) \in Int
  <2>1. IsFiniteSet(1..d)
    BY <1>0, FS_Interval
  <2>2. closed \subseteq 1..d /\ last \subseteq 1..d
    BY <1>1, <1>3
  <2>3. \A k \in 1..d : Rest[k] \in Int /\ Credits[k] \in Int
    BY <1>3, ValueTypes DEF Credit
  <2>. HIDE DEF Rest, Credits
  <2>. QED
    BY <2>1, <2>2, <2>3, FS_Subset, SumOfType
<1>11. SumOf(now..d, DueOf) \in Int
  <2>1. now..d \in SUBSET (now..NumCycles)
    BY <1>0 DEF Cycle
  <2>. QED
    BY <2>1, DueAhead
<1>. HIDE DEF Rest, Credits
<1>. QED
  BY <1>2, <1>4, <1>6, <1>9, <1>10, <1>11

(* All purchases, refunds and payments are of a cycle that has ended, of   *)
(* one that has not, or paid early.                                        *)
LEMMA AllTogether ==
    ASSUME TypeOK, Booked, \A j \in Cycle : j < now => Recorded(j)
    PROVE  /\ Worth(Spent, expense) = Charged(1..(now - 1), expense)
                                        + Charged(now..NumCycles, expense)
           /\ Worth(Refund, refund) = Returned(1..(now - 1), refund)
                                        + Returned(now..NumCycles, refund)
           /\ Worth(Payment, payment) = Paid(1..(now - 1), payment) + Paid({0}, payment)
<1>0. now \in Cycle /\ Cycle \subseteq Int /\ NumCycles \in Int
  BY DEF TypeOK, Cycle
<1>a. PICK V, W : V = 1..(now - 1) /\ W = now..NumCycles
  OBVIOUS
<1>1. Cycle = V \cup W /\ V \cap W = {} /\ 0 \notin Cycle /\ 0 \notin V
  BY <1>0, <1>a DEF Cycle
<1>2. Worth(Spent, expense) = Charged(V, expense) + Charged(W, expense)
  <2>1. Spent = ChargedRows(Cycle, expense)
    BY ExpenseFields DEF Spent, ChargedRows, TypeOK, Counted
  <2>2. Charged(Cycle, expense) = Charged(V, expense) + Charged(W, expense)
    <3>1. PICK U : U = Cycle
      OBVIOUS
    <3>2. U = V \cup W /\ V \cap W = {}
      BY <1>1, <3>1
    <3>3. Charged(U, expense) = Charged(V, expense) + Charged(W, expense)
      BY <3>2, SumsSplit
    <3>. QED
      BY <3>1, <3>3
  <2>. QED
    BY <2>1, <2>2 DEF Charged
<1>3. Worth(Refund, refund) = Returned(V, refund) + Returned(W, refund)
  <2>1. PICK S, T : S = ReturnedRows(Cycle, refund) /\ T = Refund \ S
    OBVIOUS
  <2>2. S \cup T = Refund /\ S \cap T = {} /\ IsFiniteSet(S) /\ IsFiniteSet(T)
    <3>1. S \subseteq Refund /\ T \subseteq Refund
      BY <2>1 DEF ReturnedRows
    <3>. QED
      BY <2>1, <3>1, FS_Subset
  <2>3. \A f \in T : refund[f].amount = 0
    <3>. SUFFICES ASSUME NEW f \in T PROVE refund[f].amount = 0
      OBVIOUS
    <3>1. refund[f] \in RefundRow \cup {NoRefund} /\ refund[f].postedOn \notin Cycle
      BY <2>1 DEF ReturnedRows, TypeOK
    <3>. QED
      BY <3>1 DEF RefundRow, NoRefund
  <2>4. Worth(Refund, refund) = Worth(S, refund) + Worth(T, refund)
    <3>1. PICK R : R = S \cup T
      OBVIOUS
    <3>2. Worth(R, refund) = Worth(S, refund) + Worth(T, refund)
      BY <2>2, <3>1, WorthUnion
    <3>. QED
      BY <2>2, <3>1, <3>2
  <2>5. Worth(T, refund) = 0
    BY <2>3, WorthZero
  <2>6. Worth(S, refund) \in Int
    BY <2>2, WorthType
  <2>7. Worth(Refund, refund) = Returned(Cycle, refund)
    BY <2>1, <2>4, <2>5, <2>6 DEF Returned
  <2>8. Returned(Cycle, refund) = Returned(V, refund) + Returned(W, refund)
    <3>1. PICK U : U = Cycle
      OBVIOUS
    <3>2. U = V \cup W /\ V \cap W = {}
      BY <1>1, <3>1
    <3>3. Returned(U, refund) = Returned(V, refund) + Returned(W, refund)
      BY <3>2, SumsSplit
    <3>. QED
      BY <3>1, <3>3
  <2>. QED
    BY <2>7, <2>8
<1>4. Worth(Payment, payment) = Paid(V, payment) + Paid({0}, payment)
  <2>1. PICK U, Z : U = V \cup Z /\ Z = {0}
    OBVIOUS
  <2>2. PICK S, T : S = PaidRows(U, payment) /\ T = Payment \ S
    OBVIOUS
  <2>3. S \cup T = Payment /\ S \cap T = {} /\ IsFiniteSet(S) /\ IsFiniteSet(T)
    <3>1. S \subseteq Payment /\ T \subseteq Payment
      BY <2>2 DEF PaidRows
    <3>. QED
      BY <2>2, <3>1, FS_Subset
  <2>4. \A p \in T : payment[p].amount = 0
    <3>. SUFFICES ASSUME NEW p \in T PROVE payment[p] = NoPayment
      BY DEF NoPayment
    <3>. SUFFICES ASSUME payment[p] # NoPayment PROVE payment[p].statement \in U
      BY <2>2 DEF PaidRows
    <3>1. payment[p].statement \in 0..NumCycles
      BY <2>2, PaymentFields DEF TypeOK
    <3>2. payment[p].statement = 0 \/ Recorded(payment[p].statement)
      BY <2>2 DEF Booked, Homed, Recorded
    <3>3. payment[p].statement # 0 => payment[p].statement \in Cycle
      BY <3>1 DEF Cycle
    <3>4. payment[p].statement # 0 => payment[p].statement < now
      BY <3>2, <3>3, UpToDate
    <3>. QED
      BY <1>0, <1>a, <2>1, <3>3, <3>4 DEF Cycle
  <2>5. Worth(Payment, payment) = Worth(S, payment) + Worth(T, payment)
    <3>1. PICK R : R = S \cup T
      OBVIOUS
    <3>2. Worth(R, payment) = Worth(S, payment) + Worth(T, payment)
      BY <2>3, <3>1, WorthUnion
    <3>. QED
      BY <2>3, <3>1, <3>2
  <2>6. Worth(T, payment) = 0
    BY <2>4, WorthZero
  <2>7. Worth(S, payment) \in Int
    BY <2>3, WorthType
  <2>8. Worth(Payment, payment) = Paid(U, payment)
    BY <2>2, <2>5, <2>6, <2>7 DEF Paid
  <2>9. U = V \cup Z /\ V \cap Z = {}
    BY <1>1, <2>1
  <2>10. Paid(U, payment) = Paid(V, payment) + Paid(Z, payment)
    BY <2>9, SumsSplit
  <2>. QED
    BY <2>1, <2>8, <2>10
<1>. QED
  BY <1>2, <1>3, <1>4, <1>a

(* What the reports show, from the invariants.                             *)
LEMMA ReportedMeans ==
    ASSUME TypeOK, MoneyHolds, Booked, Dated
    PROVE  ReportedDebt
<1>. SUFFICES ASSUME \A j \in Cycle : j < now => Recorded(j)
              PROVE  /\ Consolidated(NumCycles) =
                          Opening - Worth(Spent, expense) + Worth(Refund, refund)
                                  - SumOf(now..NumCycles, ForecastOf)
                     /\ \A k \in Cycle : IsCurrent(k) =>
                          CardDebtOn(k) = ShownRemaining(k) + ForecastsIn(k)
                                            + (IF k = 1 THEN 0 ELSE Credit(k - 1))
                     /\ RealizedOn(now) = balance
  BY DEF ReportedDebt, ForecastOf
<1>0. now \in Cycle /\ Cycle \subseteq Int /\ NumCycles \in now..NumCycles /\ now \in now..NumCycles
  BY DEF TypeOK, Cycle
<1>1. Consolidated(NumCycles) = Opening - Worth(Spent, expense) + Worth(Refund, refund)
                                        - SumOf(now..NumCycles, ForecastOf)
  <2>a. PICK V, W : V = 1..(now - 1) /\ W = now..NumCycles
    OBVIOUS
  <2>1. CardDebtOn(NumCycles) = Carry + SumOf(W, DueOf)
    BY <1>0, <2>a, CardDebt
  <2>2. /\ SumOf(W, DueOf) = Charged(W, expense) - Returned(W, refund) - Paid({0}, payment)
                               + SumOf(W, ForecastOf)
        /\ SumOf(W, ForecastOf) \in Int
    <3>1. W \in SUBSET (now..NumCycles) /\ EarlyIn(W) = Paid({0}, payment)
      BY <1>0, <2>a DEF EarlyIn
    <3>. QED
      BY <3>1, DueAhead
  <2>3. Carry = Charged(V, expense) - Returned(V, refund) - Paid(V, payment)
    BY <2>a, CarryIsOwed DEF Owed
  <2>4. /\ Worth(Spent, expense) = Charged(V, expense) + Charged(W, expense)
        /\ Worth(Refund, refund) = Returned(V, refund) + Returned(W, refund)
        /\ Worth(Payment, payment) = Paid(V, payment) + Paid({0}, payment)
    BY <2>a, AllTogether
  <2>5. balance = Opening - Worth(Payment, payment) /\ Opening \in Int
    BY DEF MoneyHolds
  <2>6. PICK c, d, r, s, p, q \in Int :
          /\ c = Charged(V, expense) /\ d = Charged(W, expense)
          /\ r = Returned(V, refund) /\ s = Returned(W, refund)
          /\ p = Paid(V, payment) /\ q = Paid({0}, payment)
    <3>1. /\ Charged(V, expense) \in Int /\ Charged(W, expense) \in Int
          /\ Returned(V, refund) \in Int /\ Returned(W, refund) \in Int
          /\ Paid(V, payment) \in Int /\ Paid({0}, payment) \in Int
      BY SumTypes
    <3>. QED
      BY <3>1
  <2>7. PICK f \in Int : f = SumOf(W, ForecastOf)
    BY <2>2
  <2>8. CardDebtOn(NumCycles) = (c - r - p) + (d - s - q + f)
    BY <2>1, <2>2, <2>3, <2>6, <2>7
  <2>9. Consolidated(NumCycles) = (Opening - (p + q)) - ((c - r - p) + (d - s - q + f))
    BY <2>4, <2>5, <2>6, <2>8 DEF Consolidated
  <2>10. (Opening - (p + q)) - ((c - r - p) + (d - s - q + f)) = Opening - (c + d) + (r + s) - f
    BY <2>5
  <2>. QED
    BY <2>a, <2>4, <2>6, <2>7, <2>9, <2>10
<1>2. ASSUME NEW k \in Cycle, IsCurrent(k)
      PROVE  CardDebtOn(k) = ShownRemaining(k) + ForecastsIn(k)
                               + (IF k = 1 THEN 0 ELSE Credit(k - 1))
  <2>1. k = now
    BY <1>2, UpToDate
  <2>2. CardDebtOn(k) = Carry + SumOf(k..k, DueOf)
    BY <1>0, <2>1, CardDebt
  <2>3. /\ ProjectedDue(k) = TotalOf(k) - ShownPaid(k) + ForecastsIn(k)
        /\ ShownPaid(k) \in Int /\ ForecastsIn(k) \in Int /\ ProjectedDue(k) \in Int
    BY <1>0, <2>1, PaidAhead
  <2>4. SumOf(k..k, DueOf) = ProjectedDue(k)
    <3>1. DueOf[k] = ProjectedDue(k) /\ k..k = {k}
      BY <1>0, <1>2 DEF DueOf
    <3>2. SumOf({k}, DueOf) = DueOf[k]
      BY <2>3, <3>1, SumOfOne
    <3>. QED
      BY <3>1, <3>2
  <2>5. PICK credit \in Int : credit = IF k = 1 THEN 0 ELSE Credit(k - 1)
    <3>1. k # 1 => RemainingOf(k - 1) \in Int
      BY <2>1, CarryIsOwed, ValueTypes
    <3>. QED
      BY <3>1 DEF Credit
  <2>6. Carry = ShownPrevious(k) + credit /\ ShownPrevious(k) \in Int
    <3>1. CASE k = 1
      <4>1. previousBalance[k] = 0
        BY <1>2, UpToDate, <3>1 DEF Dated, IsCurrent, Recorded
      <4>2. ShownPrevious(k) = 0
        BY <3>1, <4>1 DEF ShownPrevious
      <4>. QED
        BY <2>1, <2>5, <3>1, <4>2 DEF Carry
    <3>2. CASE k # 1
      <4>1. /\ Carry \in Int /\ Carry = RemainingOf(k - 1) /\ k - 1 \in Cycle
            /\ status[k - 1] \in {"CLOSED", "PAID"}
            /\ status[k - 1] = "PAID" <=> Carry <= 0
        BY <2>1, <3>2, CarryIsOwed DEF Carry
      <4>2. previousBalance[k] = 0 /\ k > 1
        BY <1>0, <1>2, <3>2 DEF Dated, IsCurrent, Recorded, Cycle
      <4>3. CASE status[k - 1] = "CLOSED"
        <5>1. ShownPrevious(k) = RemainingOf(k - 1) /\ credit = 0
          BY <1>2, <2>5, <3>2, <4>2, <4>3 DEF ShownPrevious, Credit
        <5>. QED
          BY <4>1, <5>1
      <4>4. CASE status[k - 1] = "PAID"
        <5>1. ShownPrevious(k) = 0 /\ credit = RemainingOf(k - 1)
          BY <2>5, <3>2, <4>1, <4>2, <4>4 DEF ShownPrevious, Credit
        <5>. QED
          BY <4>1, <5>1
      <4>. QED
        BY <4>1, <4>3, <4>4
    <3>. QED
      BY <3>1, <3>2
  <2>7. ShownRemaining(k) = TotalOf(k) + ShownPrevious(k) - ShownPaid(k) /\ TotalOf(k) \in Int
    <3>1. TotalOf(k) \in Int
      BY ValueTypes
    <3>. QED
      BY <2>3, <2>6, <3>1 DEF ShownRemaining, AmountDue
  <2>8. CardDebtOn(k) = ShownRemaining(k) + ForecastsIn(k) + credit
    BY <2>2, <2>3, <2>4, <2>6, <2>7
  <2>. QED
    BY <2>5, <2>8
<1>3. RealizedOn(now) = balance
  <2>1. {p \in Payment : payment[p].paidOn <= now} = Payment
    BY DEF Dated
  <2>. QED
    BY <2>1 DEF RealizedOn, MoneyHolds
<1>. QED
  BY <1>1, <1>2, <1>3

(* INV-0015-06: the debt a report shows is the money owed, no part of it   *)
(* counted twice or lost, the current debt is what the current statement   *)
(* shows, and the past point of today agrees with the account, if no cycle *)
(* ends while a request is in progress and no closed expense is posted     *)
(* again.                                                                  *)
THEOREM ReportsShowTheDebt ==
    ASSUME ~Straddle, ~Repost
    PROVE  Spec => []ReportedDebt
<1>. DEFINE ReportInv == MoneyInv /\ Windows /\ Booked /\ Dated
<1>1. Init => ReportInv
  <2>1. Init => Dated
    BY DEF Init, Dated, NoPayment
  <2>. QED
    BY <2>1, MoneyInit, WindowsInit, BookedInit
<1>2. ReportInv /\ [Next]_vars => ReportInv'
  <2>. SUFFICES ASSUME ReportInv, [Next]_vars PROVE ReportInv'
    OBVIOUS
  <2>1. TypeOK
    BY DEF MoneyInv
  <2>2. MoneyInv' /\ Windows' /\ Booked' /\ Dated'
    BY <2>1, MoneyNext, WindowsNext, BookedNext, DatedNext
  <2>. QED
    BY <2>2
<1>3. ReportInv => ReportedDebt
  BY ReportedMeans DEF MoneyInv
<1>. QED
  BY <1>1, <1>2, <1>3, PTL DEF Spec
=============================================================================
