--------------------------- MODULE EntriesProofs ---------------------------
(***************************************************************************)
(* What the requests on expenses, earnings, limits and statements leave,   *)
(* for any number of entries, accounts, cards and requests: the balances   *)
(* and limits that the entries make up, what is settled as it was, waits   *)
(* that only mass updates can close into a circle, and commits that are    *)
(* the steps of the book of entries.                                       *)
(*                                                                         *)
(* A transaction is known by its record t and the committed tables: R are  *)
(* the rows, V the balances and limits, L the total limits, P the          *)
(* payments.  What Sound says of t speaks only of rows and pots t has      *)
(* locked, which is why the commit of another transaction leaves it true.  *)
(***************************************************************************)
EXTENDS Entries, CentsLemmas, WellFoundedInduction

OnRow   == {"status", "update", "repost", "method", "delete"}
Marking == {"pay", "undo", "sweep"}

-----------------------------------------------------------------------------
(* The flow of entries into and out of an account or card: what a row      *)
(* counts for in the balance or in the limit of p.                         *)
Way == {"in", "out"}
Counts(x, way) ==
    IF way = "in" THEN x.pot \in Account /\ x.kind = "earning" /\ x.status = "SETTLED"
    ELSE \/ x.pot \in Account /\ x.kind = "expense" /\ x.status = "SETTLED"
         \/ x.pot \in Card /\ x.status # "FORECAST"
Weight(x, p, way) ==
    IF x # Absent /\ x.pot = p /\ Counts(x, way) THEN x.amount ELSE 0
Flow(S, R, p, way) == Sum(S, [e \in S |-> Weight(R[e], p, way)])

(* By how much the balance or limit of p changes when rows S of table R    *)
(* become those of table N.                                                *)
Gain(S, R, N, p) ==
    (Flow(S, N, p, "in") - Flow(S, R, p, "in")) - (Flow(S, N, p, "out") - Flow(S, R, p, "out"))

(* What was paid from account a. *)
PaidBy(y, a)  == IF y # NoPayment /\ y.account = a THEN y.amount ELSE 0
PaidOn(P, a)  == [c \in Card |-> PaidBy(P[c], a)]
PaidIn(P, a)  == Total(Card, PaidOn(P, a), MaxPayment)

(* A balance or limit is what its entries and payments make it. *)
Base(L, P, p) == IF p \in Card THEN L[p] + P[p].amount ELSE -PaidIn(P, p)
Balanced(p, R, V, L, P) ==
    V[p] = Base(L, P, p) + Flow(Entry, R, p, "in") - Flow(Entry, R, p, "out")

-----------------------------------------------------------------------------
(* Facts about the constants. *)
RowTable     == [Entry -> Row \cup {Absent}]
PaymentTable == [Card -> Payment \cup {NoPayment}]

(* The sizes are numbers. *)
LEMMA Sizes ==
    /\ NumEntries \in Nat \ {0} /\ NumAccounts \in Nat \ {0} /\ NumCards \in Nat
    /\ MaxAmount \in Nat \ {0} /\ MaxLimit \in Nat \ {0}
  BY EntriesAssumption

(* Accounts and cards are told apart, and both are numbers. *)
LEMMA Pots ==
    /\ Account \cap Card = {} /\ Pot \subseteq Nat /\ Entry \subseteq Nat
    /\ 0 \notin Pot /\ 0 \notin Entry
    /\ IsFiniteSet(Entry) /\ IsFiniteSet(Card)
<1>1. IsFiniteSet(Entry)
  <2>1. 1 \in Int /\ NumEntries \in Int
    BY Sizes
  <2>. QED
    BY <2>1, FS_Interval DEF Entry
<1>2. IsFiniteSet(Card)
  <2>1. NumAccounts + 1 \in Int /\ NumAccounts + NumCards \in Int
    BY Sizes
  <2>. QED
    BY <2>1, FS_Interval DEF Card
<1>. QED
  BY <1>1, <1>2, Sizes DEF Account, Card, Pot, Entry

(* A row or payment that exists is told from one that does not. *)
LEMMA AbsentNotRow == \A x \in Row : x # Absent /\ x.status # "ABSENT"
  BY DEF Row, Absent, Status

(* What is paid is at least a cent and at most the most there can be.      *)
LEMMA Payments ==
    /\ MaxPayment \in Nat
    /\ \A y \in Payment : y # NoPayment /\ y.amount \in 1..MaxPayment /\ y.account \in Account
    /\ \A y \in Payment \cup {NoPayment} : y.amount \in 0..MaxPayment /\ y.amount \in Int
<1>1. MaxPayment \in Nat
  BY Sizes DEF MaxPayment
<1>. QED
  BY <1>1 DEF Payment, NoPayment

(* Each entry is in one group. *)
LEMMA Groups ==
    /\ \A e \in Entry : GroupOf(e) \in Group /\ e \in GroupOf(e)
    /\ \A g \in Group : g \subseteq Entry /\ \A e \in g : GroupOf(e) = g
  BY EntriesAssumption DEF GroupOf

(* Sums of rows are natural numbers. *)
LEMMA SumType ==
    ASSUME NEW S \in SUBSET Entry, NEW A
    PROVE  IsFiniteSet(S) /\ Sum(S, A) \in Nat
<1>1. IsFiniteSet(S)
  BY Pots, FS_Subset
<1>. QED
  BY <1>1, Sizes, TotalType DEF Sum

(* A row counts for an amount or for nothing.                              *)
LEMMA WeightType ==
    ASSUME NEW x \in Row \cup {Absent}, NEW p, NEW way
    PROVE  Weight(x, p, way) \in 0..MaxAmount /\ Weight(x, p, way) \in Int
  BY AbsentNotRow, Sizes DEF Weight, Row, Amount

(* A flow is a whole number of cents.                                      *)
LEMMA FlowType ==
    ASSUME NEW S \in SUBSET Entry, NEW R, NEW p, NEW way
    PROVE  Flow(S, R, p, way) \in Int
<1>1. Flow(S, R, p, way) \in Nat
  BY SumType DEF Flow
<1>. QED
  BY <1>1

(* Rows that count for the same. *)
LEMMA FlowSame ==
    ASSUME NEW S \in SUBSET Entry, NEW R, NEW N, NEW p, NEW way,
           \A e \in S : Weight(R[e], p, way) = Weight(N[e], p, way)
    PROVE  Flow(S, R, p, way) = Flow(S, N, p, way)
<1>1. [e \in S |-> Weight(R[e], p, way)] = [e \in S |-> Weight(N[e], p, way)]
  OBVIOUS
<1>. QED
  BY <1>1 DEF Flow

(* Rows T of S, worth A, and others that count for nothing. *)
LEMMA FlowFilter ==
    ASSUME NEW S \in SUBSET Entry, NEW T \in SUBSET S, NEW A, NEW R, NEW p, NEW way,
           \A e \in S : Weight(R[e], p, way) = IF e \in T THEN A[e] ELSE 0
    PROVE  Flow(S, R, p, way) = Sum(T, A)
<1>. DEFINE B == [e \in S |-> Weight(R[e], p, way)]
<1>1. \A e \in S : B[e] = IF e \in T THEN A[e] ELSE 0
  OBVIOUS
<1>. HIDE DEF B
<1>2. Total(T, A, MaxAmount) = Total(S, B, MaxAmount)
  BY <1>1, Sizes, TotalFilter
<1>. QED
  BY <1>2 DEF Flow, Sum, B

(* The rows of a subset flow apart. *)
LEMMA FlowApart ==
    ASSUME NEW S \in SUBSET Entry, NEW T \in SUBSET S, NEW R, NEW p, NEW way
    PROVE  Flow(S, R, p, way) = Flow(S \ T, R, p, way) + Flow(T, R, p, way)
<1>. DEFINE A == [e \in S |-> Weight(R[e], p, way)]
            B == [e \in T |-> Weight(R[e], p, way)]
            C == [e \in S \ T |-> Weight(R[e], p, way)]
<1>1. /\ \A e \in T : A[e] = B[e]
      /\ \A e \in S \ T : A[e] = C[e]
  OBVIOUS
<1>. HIDE DEF A, B, C
<1>2. IsFiniteSet(S)
  BY SumType
<1>3. Total(S, A, MaxAmount) = Total(S \ T, A, MaxAmount) + Total(T, A, MaxAmount)
  BY <1>2, Sizes, TotalApart
<1>4. Total(T, A, MaxAmount) = Total(T, B, MaxAmount)
  BY <1>1, TotalSame
<1>5. Total(S \ T, A, MaxAmount) = Total(S \ T, C, MaxAmount)
  BY <1>1, TotalSame
<1>. QED
  BY <1>3, <1>4, <1>5 DEF Flow, Sum, A, B, C

(* One row changes. *)
LEMMA FlowOne ==
    ASSUME NEW S \in SUBSET Entry, NEW d \in S, NEW R, NEW N, NEW p, NEW way,
           R[d] \in Row \cup {Absent}, N[d] \in Row \cup {Absent},
           \A e \in S \ {d} : Weight(R[e], p, way) = Weight(N[e], p, way)
    PROVE  Flow(S, N, p, way) = Flow(S, R, p, way) - Weight(R[d], p, way) + Weight(N[d], p, way)
<1>1. ASSUME NEW T, T[d] \in Row \cup {Absent}
      PROVE  Flow(S, T, p, way) = Flow(S \ {d}, T, p, way) + Weight(T[d], p, way)
  <2>. DEFINE A == [e \in S |-> Weight(T[e], p, way)]
              B == [e \in S \ {d} |-> Weight(T[e], p, way)]
  <2>1. /\ A[d] = Weight(T[d], p, way) /\ A[d] \in 0..MaxAmount
        /\ \A e \in S \ {d} : A[e] = B[e]
    BY <1>1, WeightType
  <2>. HIDE DEF A, B
  <2>2. Total(S, A, MaxAmount) = Total(S \ {d}, A, MaxAmount) + A[d]
    BY <2>1, SumType, Sizes, TotalSplit
  <2>3. Total(S \ {d}, A, MaxAmount) = Total(S \ {d}, B, MaxAmount)
    BY <2>1, TotalSame
  <2>. QED
    BY <2>1, <2>2, <2>3 DEF Flow, Sum, A, B
<1>2. /\ Flow(S, R, p, way) = Flow(S \ {d}, R, p, way) + Weight(R[d], p, way)
      /\ Flow(S, N, p, way) = Flow(S \ {d}, N, p, way) + Weight(N[d], p, way)
  BY <1>1
<1>3. Flow(S \ {d}, R, p, way) = Flow(S \ {d}, N, p, way)
  BY FlowSame
<1>4. Flow(S \ {d}, R, p, way) \in Int
  BY FlowType
<1>5. Weight(R[d], p, way) \in Int /\ Weight(N[d], p, way) \in Int
  BY WeightType
<1>. QED
  BY <1>2, <1>3, <1>4, <1>5

(* What the changes of rows S leave, when some or all of them change. *)
LEMMA GainNone ==
    ASSUME NEW S \in SUBSET Entry, NEW R, NEW N, NEW p,
           \A e \in S, way \in Way : Weight(R[e], p, way) = Weight(N[e], p, way)
    PROVE  Gain(S, R, N, p) = 0
<1>1. /\ Flow(S, R, p, "in") = Flow(S, N, p, "in")
      /\ Flow(S, R, p, "out") = Flow(S, N, p, "out")
  BY FlowSame DEF Way
<1>2. Flow(S, N, p, "in") \in Int /\ Flow(S, N, p, "out") \in Int
  BY FlowType
<1>. QED
  BY <1>1, <1>2 DEF Gain

(* One of the rows changes.                                                *)
LEMMA GainOne ==
    ASSUME NEW S \in SUBSET Entry, NEW d \in S, NEW R, NEW N, NEW p,
           R[d] \in Row \cup {Absent}, N[d] \in Row \cup {Absent},
           \A e \in S \ {d} : R[e] = N[e]
    PROVE  Gain(S, R, N, p) = (Weight(N[d], p, "in") - Weight(R[d], p, "in"))
                                - (Weight(N[d], p, "out") - Weight(R[d], p, "out"))
<1>0. \A e \in S \ {d}, way \in Way : Weight(R[e], p, way) = Weight(N[e], p, way)
  OBVIOUS
<1>1. Flow(S, N, p, "in") = Flow(S, R, p, "in") - Weight(R[d], p, "in") + Weight(N[d], p, "in")
  BY <1>0, FlowOne DEF Way
<1>2. Flow(S, N, p, "out") = Flow(S, R, p, "out") - Weight(R[d], p, "out") + Weight(N[d], p, "out")
  BY <1>0, FlowOne DEF Way
<1>3. /\ Flow(S, R, p, "in") \in Int /\ Flow(S, R, p, "out") \in Int
      /\ Flow(S, N, p, "in") \in Int /\ Flow(S, N, p, "out") \in Int
  BY FlowType
<1>4. /\ Weight(R[d], p, "in") \in Int /\ Weight(N[d], p, "in") \in Int
      /\ Weight(R[d], p, "out") \in Int /\ Weight(N[d], p, "out") \in Int
  BY WeightType
<1>. QED
  BY <1>1, <1>2, <1>3, <1>4 DEF Gain

(* A commit changes the rows its transaction holds. *)
LEMMA GainRest ==
    ASSUME NEW H \in SUBSET Entry, NEW R, NEW N, NEW A, NEW p,
           \A e \in Entry : N[e] = IF e \in H THEN A[e] ELSE R[e]
    PROVE  /\ Flow(Entry, N, p, "in") - Flow(Entry, N, p, "out") =
                Flow(Entry, R, p, "in") - Flow(Entry, R, p, "out") + Gain(H, R, A, p)
           /\ Gain(H, R, A, p) \in Int
<1>1. ASSUME NEW way \in Way
      PROVE  /\ Flow(Entry, N, p, way) = Flow(Entry, R, p, way) - Flow(H, R, p, way) + Flow(H, A, p, way)
             /\ Flow(Entry, R, p, way) \in Int /\ Flow(H, R, p, way) \in Int
             /\ Flow(H, A, p, way) \in Int
  <2>1. /\ Flow(Entry, N, p, way) = Flow(Entry \ H, N, p, way) + Flow(H, N, p, way)
        /\ Flow(Entry, R, p, way) = Flow(Entry \ H, R, p, way) + Flow(H, R, p, way)
    BY FlowApart
  <2>2. Flow(Entry \ H, N, p, way) = Flow(Entry \ H, R, p, way)
    BY FlowSame
  <2>3. Flow(H, N, p, way) = Flow(H, A, p, way)
    BY FlowSame
  <2>4. /\ Flow(Entry \ H, R, p, way) \in Int /\ Flow(H, R, p, way) \in Int
        /\ Flow(H, A, p, way) \in Int
    BY FlowType
  <2>. QED
    BY <2>1, <2>2, <2>3, <2>4
<1>. QED
  BY <1>1 DEF Gain, Way

(* The payment of one card changes. *)
LEMMA PaidSwap ==
    ASSUME NEW P \in PaymentTable, NEW Q \in PaymentTable, NEW c \in Card, NEW a,
           \A d \in Card \ {c} : Q[d] = P[d]
    PROVE  /\ PaidIn(Q, a) = PaidIn(P, a) - PaidBy(P[c], a) + PaidBy(Q[c], a)
           /\ PaidIn(P, a) \in Int /\ PaidBy(P[c], a) \in Int /\ PaidBy(Q[c], a) \in Int
<1>0. \A y \in Payment \cup {NoPayment} : PaidBy(y, a) \in 0..MaxPayment /\ PaidBy(y, a) \in Int
  BY Payments DEF PaidBy
<1>1. ASSUME NEW T \in PaymentTable
      PROVE  /\ PaidIn(T, a) = Total(Card \ {c}, PaidOn(T, a), MaxPayment) + PaidBy(T[c], a)
             /\ Total(Card \ {c}, PaidOn(T, a), MaxPayment) \in Nat
  <2>1. PaidOn(T, a)[c] = PaidBy(T[c], a) /\ PaidOn(T, a)[c] \in 0..MaxPayment
    BY <1>0 DEF PaymentTable, PaidOn
  <2>2. /\ Total(Card \ {c}, PaidOn(T, a), MaxPayment) \in Nat
        /\ Total(Card, PaidOn(T, a), MaxPayment) =
             Total(Card \ {c}, PaidOn(T, a), MaxPayment) + PaidOn(T, a)[c]
    BY <2>1, Pots, Payments, TotalSplit
  <2>. QED
    BY <2>1, <2>2 DEF PaidIn
<1>2. Total(Card \ {c}, PaidOn(P, a), MaxPayment) = Total(Card \ {c}, PaidOn(Q, a), MaxPayment)
  <2>1. \A d \in Card \ {c} : PaidOn(P, a)[d] = PaidOn(Q, a)[d]
    BY DEF PaidOn
  <2>. QED
    BY <2>1, TotalSame
<1>3. PICK m \in Nat : m = Total(Card \ {c}, PaidOn(P, a), MaxPayment)
  BY <1>1
<1>4. PaidIn(P, a) = m + PaidBy(P[c], a) /\ PaidIn(Q, a) = m + PaidBy(Q[c], a)
  BY <1>1, <1>2, <1>3
<1>5. PaidBy(P[c], a) \in Int /\ PaidBy(Q[c], a) \in Int
  BY <1>0 DEF PaymentTable
<1>. QED
  BY <1>4, <1>5

-----------------------------------------------------------------------------
(* The inductive invariant.                                                *)

(* The rows that count in closed statements of a card, and those of the    *)
(* closed window that are settled; Remaining and Matches as operators of   *)
(* the tables.                                                             *)
ClosedIn(R, c)  == {e \in Entry : R[e] # Absent /\ R[e].pot = c /\ IsClosed(R[e])}
SettledIn(R, c) ==
    {e \in Entry : R[e] # Absent /\ R[e].pot = c /\ R[e].closed /\ R[e].status = "SETTLED"}
AmountsIn(R)    == [e \in Entry |-> IF R[e] # Absent THEN R[e].amount ELSE 0]
LeftIn(R, c)    == Sum(ClosedIn(R, c), AmountsIn(R))

Looks(t, x) ==
    CASE t.op = "pay"   -> x.pot = t.on /\ x.closed /\ x.status \in {"OPEN", "VERIFYING"}
      [] t.op = "undo"  -> x.pot = t.on /\ x.closed /\ x.status = "SETTLED"
      [] t.op = "sweep" -> Overdue(x)
Leaves(t, x) ==
    [x EXCEPT !.status = CASE t.op = "pay"   -> "SETTLED"
                           [] t.op = "undo"  -> "OPEN"
                           [] t.op = "sweep" -> "OVERDUE"]

(* What each operation knows of itself at its stages. *)
NewRow(y) ==
    /\ y \in Row /\ y.status \in {"FORECAST", "OPEN", "VERIFYING"} /\ ~y.closed
    /\ y.pot \in Card => y.kind = "expense"

PayDelta(t) ==
    IF t.op = "pay"
    THEN [Zero EXCEPT ![t.pay.account] = -t.pay.amount, ![t.on] = t.pay.amount]
    ELSE [Zero EXCEPT ![t.pay.account] = t.pay.amount, ![t.on] = -t.pay.amount]

Shape(t) ==
    /\ t.pc = "idle" => t.op = "none"
    /\ t.op = "none" => t = NoTx
    /\ t.op \in OnRow =>
         /\ t.pc \in {"lock", "decide", "move", "commit"}
         /\ t.on \in Entry /\ t.todo \cup t.held \subseteq GroupOf(t.on)
         /\ t.op = "repost" => t.todo \cup t.held \subseteq {t.on}
    /\ t.op = "create" =>
         /\ t.pc \in {"move", "commit"} /\ t.todo = {} /\ t.held \in Group
         /\ \A e \in t.held : NewRow(t.after[e])
         /\ \A d, e \in t.held : t.after[d].kind = t.after[e].kind
    /\ t.op \in {"pay", "undo"} =>
         /\ t.pc \in {"move", "mark", "commit"} /\ t.on \in Card /\ t.pay \in Payment
         /\ t.delta = PayDelta(t)
         /\ t.pc = "move" => t.todo = {} /\ t.held = {}
    /\ t.op = "sweep" => t.pc \in {"mark", "commit"} /\ t.delta = Zero /\ t.wrote = {}
    /\ t.op = "limit" =>
         /\ t.pc \in {"load", "write", "commit"} /\ t.on \in Card /\ t.newLimit \in 1..MaxLimit
         /\ t.todo = {} /\ t.held = {} /\ t.pots = {}
         /\ t.wrote = IF t.pc = "commit" THEN {t.on} ELSE {}

(* Rows and pots are taken in ascending order, and all of them before the  *)
(* commit.                                                                 *)
Ascending(t) ==
    /\ t.pc \in {"lock", "decide"} => t.wrote = {} /\ t.pots = {}
    /\ t.pc \in {"mark", "commit"} => t.pots = {}
    /\ t.pc \in {"decide", "move", "commit"} => t.todo = {}
    /\ t.pc = "lock" => \A h \in t.held, x \in t.todo : h < x
    /\ t.pc = "move" => \A w \in t.wrote, p \in t.pots : w < p

(* The rows it holds are there, except those it inserts. *)
Holds(t, R) ==
    \A e \in t.held : IF t.op = "create" THEN R[e] = Absent ELSE R[e] \in Row

(* What it moves is what it read plus its delta, and nothing is left out.  *)
Moves(t, V) ==
    t.op # "limit" =>
        /\ \A p \in t.wrote : t.draft[p] = V[p] + t.delta[p]
        /\ t.pc \in {"move", "mark", "commit"} =>
             \A p \in Pot : t.delta[p] # 0 => p \in t.pots \cup t.wrote

(* A request on entries leaves y on a row x: what is settled or counts in  *)
(* a closed statement keeps all but its status, and stays as closed or     *)
(* open; what it puts on a card fits there, and is neither settled nor     *)
(* unsettled by it.                                                        *)
Keeps(x, y) ==
    /\ y \in Row \cup {Absent}
    /\ x.status = "SETTLED" \/ IsClosed(x) =>
         y # Absent /\ y.amount = x.amount /\ y.pot = x.pot /\ y.closed = x.closed
    /\ y # Absent =>
         /\ y.kind = x.kind
         /\ IsClosed(y) <=> IsClosed(x)
         /\ y.pot \in Card => /\ y.kind = "expense" /\ y.status # "OVERDUE"
                              /\ y.status = "SETTLED" <=> x.status = "SETTLED"
                              /\ y.status = "SETTLED" => x.pot = y.pot

(* Reposting leaves a row of a card as it was, but in the open window.     *)
Opens(x, y) ==
    /\ y \in Row /\ y = [x EXCEPT !.closed = FALSE]
    /\ y.pot \in Card => y.kind = "expense" /\ y.status # "OVERDUE"

Decided(t, R) ==
    t.op \in OnRow \cup {"create"} /\ t.pc \in {"move", "commit"} =>
        /\ \A e \in t.held : CASE t.op = "create" -> TRUE
                             [] t.op = "repost" -> Opens(R[e], t.after[e])
                             [] OTHER -> Keeps(R[e], t.after[e])
        /\ \A p \in Pot : t.delta[p] = Gain(t.held, R, t.after, p)

(* A mass update leaves its status on rows that it looks for; only a       *)
(* payment that leaves nothing marks, and its undoing, which misses none   *)
(* of the settled rows of the closed window.                               *)
Marks(t, R, P) ==
    /\ t.op \in Marking => \A e \in t.held : Looks(t, R[e]) /\ t.after[e] = Leaves(t, R[e])
    /\ t.op \in {"pay", "undo"} /\ t.todo \cup t.held # {} => t.pay.full
    /\ t.op = "pay" => P[t.on] = NoPayment
    /\ t.op = "undo" => /\ P[t.on] = t.pay
                        /\ t.pay.full /\ t.pc \in {"mark", "commit"} =>
                             SettledIn(R, t.on) \subseteq t.todo \cup t.held

(* Without overlap, the limit a change has read is still the one there. *)
Limits(t, V, L) ==
    ~Overlap /\ t.op = "limit" /\ t.pc \in {"write", "commit"} =>
        t.draft[t.on] = V[t.on] + (t.newLimit - L[t.on])

Sound(t, R, V, L, P) ==
    /\ Shape(t) /\ Ascending(t)
    /\ Holds(t, R) /\ Moves(t, V) /\ Decided(t, R) /\ Marks(t, R, P) /\ Limits(t, V, L)

(* Two transactions hold nothing in common. *)
Apart(t, u) ==
    /\ t.held \cap u.held = {}
    /\ t.wrote \cap u.wrote = {}
    /\ ~(t.op \in {"pay", "undo"} /\ u.op \in {"pay", "undo"} /\ t.on = u.on)
    /\ ~Overlap => /\ t.op = "limit" => u.pc = "idle"
                   /\ u.op = "limit" => t.pc = "idle"
                   /\ t.op = "repost" => u.op # "pay"
                   /\ u.op = "repost" => t.op # "pay"

(* The committed tables: rows fit their cards, the installments of a group *)
(* are of one kind, and the money is there.                                *)
Types(R, V, L, P) ==
    R \in RowTable /\ V \in [Pot -> Int] /\ L \in [Card -> 1..MaxLimit] /\ P \in PaymentTable
Fits(R) ==
    \A e \in Entry : R[e] # Absent /\ R[e].pot \in Card =>
        R[e].kind = "expense" /\ R[e].status # "OVERDUE"
OneKind(R) ==
    \A g \in Group : \A d, e \in g : R[d] # Absent /\ R[e] # Absent => R[d].kind = R[e].kind
Kept(R, V, L, P) ==
    /\ \A a \in Account : Balanced(a, R, V, L, P)
    /\ ~Overlap => \A c \in Card : Balanced(c, R, V, L, P)

Inv ==
    /\ Types(row, value, limit, payment) /\ tx \in [Request -> Tx]
    /\ Fits(row) /\ OneKind(row) /\ Kept(row, value, limit, payment)
    /\ \A r \in Request : Sound(tx[r], row, value, limit, payment)
    /\ \A r, q \in Request : r # q => Apart(tx[r], tx[q])

-----------------------------------------------------------------------------
(* The model's operators on its variables are those of the tables. *)
LEMMA OfTables ==
    /\ \A c : Remaining(c) = LeftIn(row, c)
    /\ \A r, x : Matches(r, x) = Looks(tx[r], x) /\ Marked(r, x) = Leaves(tx[r], x)
    /\ AmountOf = AmountsIn(row)
  BY DEF Remaining, LeftIn, ClosedRows, ClosedIn, AmountOf, AmountsIn, Exists,
         Matches, Looks, Marked, Leaves

(* A request that has not begun is sound on any tables. *)
LEMMA NoTxFacts ==
    /\ NoTx \in Tx /\ NoTx.pc = "idle" /\ NoTx.op = "none"
    /\ NoTx.held = {} /\ NoTx.todo = {} /\ NoTx.wrote = {} /\ NoTx.pots = {}
    /\ \A R, V, L, P : Sound(NoTx, R, V, L, P)
<1>1. NoTx \in Tx
  BY Sizes DEF NoTx, Tx, Zero
<1>2. /\ NoTx.pc = "idle" /\ NoTx.op = "none"
      /\ NoTx.held = {} /\ NoTx.todo = {} /\ NoTx.wrote = {} /\ NoTx.pots = {}
  BY DEF NoTx
<1>3. ASSUME NEW R, NEW V, NEW L, NEW P PROVE Sound(NoTx, R, V, L, P)
  BY <1>2 DEF Sound, Shape, Ascending, Holds, Moves, Decided, Marks, Limits, OnRow, Marking
<1>. QED
  BY <1>1, <1>2, <1>3

(* An idle request is NoTx. *)
LEMMA IdleTx ==
    ASSUME Inv, NEW r \in Request, tx[r].pc = "idle"
    PROVE  tx[r] = NoTx
  BY DEF Inv, Sound, Shape

(* A step that changes the record of one transaction only. *)
LEMMA RecordInv ==
    ASSUME Inv, NEW r \in Request, NEW t \in Tx, tx' = [tx EXCEPT ![r] = t],
           UNCHANGED <<row, value, limit, payment>>,
           Sound(t, row, value, limit, payment),
           \A q \in Request \ {r} : Apart(t, tx[q])
    PROVE  Inv'
<1>1. tx' \in [Request -> Tx]
  BY DEF Inv
<1>2. \A q \in Request : tx'[q] = IF q = r THEN t ELSE tx[q]
  BY DEF Inv
<1>3. ASSUME NEW q \in Request PROVE Sound(tx'[q], row, value, limit, payment)
  BY <1>2 DEF Inv
<1>4. ASSUME NEW p \in Request, NEW q \in Request, p # q PROVE Apart(tx'[p], tx'[q])
  <2>1. CASE p = r
    BY <1>2, <1>4, <2>1
  <2>2. CASE q = r
    <3>1. Apart(t, tx[p]) /\ tx'[q] = t /\ tx'[p] = tx[p]
      BY <1>2, <1>4, <2>2
    <3>. QED
      BY <3>1 DEF Apart
  <2>3. CASE p # r /\ q # r
    BY <1>2, <1>4, <2>3 DEF Inv
  <2>. QED
    BY <2>1, <2>2, <2>3
<1>. QED
  BY <1>1, <1>3, <1>4 DEF Inv

(* A request begins. *)
LEMMA BeginInv ==
    ASSUME Inv, NEW r \in Request, NEW t \in Tx, Begin(r, t),
           Sound(t, row, value, limit, payment), t.wrote = {},
           \A q \in Request : t.held \cap tx[q].held = {},
           t.op \in {"pay", "undo"} => CardFree(t.on)
    PROVE  Inv'
<1>1. ASSUME NEW q \in Request \ {r} PROVE Apart(t, tx[q])
  <2>1. ~Overlap => /\ tx[q].op # "limit"
                    /\ t.op = "limit" => tx[q].pc = "idle"
                    /\ {t.op, tx[q].op} # {"repost", "pay"}
    BY DEF Begin, MayBegin, Active
  <2>. QED
    BY <2>1 DEF Apart, CardFree
<1>. QED
  BY <1>1, RecordInv DEF Begin

(* The state at the start. *)
LEMMA InitInv == Init => Inv
<1>. SUFFICES ASSUME Init PROVE Inv
  OBVIOUS
<1>1. \A e \in Entry : row[e] = Absent
  BY DEF Init
<1>2. \A r \in Request : tx[r] = NoTx
  BY DEF Init
<1>3. Types(row, value, limit, payment) /\ tx \in [Request -> Tx]
  <2>1. value \in [Pot -> Int]
    BY DEF Init
  <2>. QED
    BY <2>1, NoTxFacts DEF Init, Types, RowTable, PaymentTable
<1>4. Fits(row) /\ OneKind(row)
  BY <1>1, Groups DEF Fits, OneKind
<1>5. ASSUME NEW p, NEW way PROVE Flow(Entry, row, p, way) = 0
  <2>1. \A e \in Entry : [d \in Entry |-> Weight(row[d], p, way)][e] = 0
    BY <1>1 DEF Weight
  <2>. QED
    BY <2>1, Sizes, TotalZero DEF Flow, Sum
<1>6. ASSUME NEW a PROVE PaidIn(payment, a) = 0
  <2>1. \A c \in Card : PaidOn(payment, a)[c] = 0
    BY DEF PaidOn, PaidBy, Init
  <2>. QED
    BY <2>1, TotalZero, Payments DEF PaidIn
<1>7. Kept(row, value, limit, payment)
  <2>1. ASSUME NEW a \in Account PROVE Balanced(a, row, value, limit, payment)
    <3>1. a \notin Card /\ value[a] = 0
      BY Pots DEF Init, Pot
    <3>. QED
      BY <1>5, <1>6, <3>1 DEF Balanced, Base
  <2>2. ASSUME NEW c \in Card PROVE Balanced(c, row, value, limit, payment)
    <3>1. value[c] = limit[c] /\ limit[c] \in Int /\ payment[c].amount = 0
      BY DEF Init, Pot, NoPayment
    <3>. QED
      BY <1>5, <3>1 DEF Balanced, Base
  <2>. QED
    BY <2>1, <2>2 DEF Kept
<1>8. \A r \in Request : Sound(tx[r], row, value, limit, payment)
  BY <1>2, NoTxFacts
<1>9. \A r, q \in Request : Apart(tx[r], tx[q])
  BY <1>2, NoTxFacts DEF Apart
<1>. QED
  BY <1>3, <1>4, <1>7, <1>8, <1>9 DEF Inv

-----------------------------------------------------------------------------
(* Requests that begin. *)

(* Rows that count for nothing. *)
LEMMA FlowZero ==
    ASSUME NEW S \in SUBSET Entry, NEW R, NEW p, NEW way,
           \A e \in S : Weight(R[e], p, way) = 0
    PROVE  Flow(S, R, p, way) = 0
<1>1. \A e \in S : [d \in S |-> Weight(R[d], p, way)][e] = 0
  OBVIOUS
<1>. QED
  BY <1>1, Sizes, TotalZero DEF Flow, Sum

Installments(g, N, kind, status, amounts, d) ==
    \A e \in g : /\ N[e] # Absent /\ N[e].kind = kind /\ N[e].status = status
                 /\ N[e].amount = amounts[e] /\ N[e].pot = d

(* The installments of a purchase are taken from the limit of its card as  *)
(* the sum they were split from.                                           *)
LEMMA CreateGain ==
    ASSUME NEW g \in SUBSET Entry, NEW R, NEW N, NEW amounts \in [g -> Amount],
           NEW kind, NEW status \in {"FORECAST", "OPEN", "VERIFYING"}, NEW d \in Pot, NEW p \in Pot,
           \A e \in g : R[e] = Absent, Installments(g, N, kind, status, amounts, d)
    PROVE  Gain(g, R, N, p) =
             IF p = d /\ d \in Card /\ status # "FORECAST" THEN -Sum(g, amounts) ELSE 0
<1>1. Flow(g, R, p, "in") = 0 /\ Flow(g, R, p, "out") = 0
  BY FlowZero DEF Weight
<1>. USE DEF Installments
<1>2. Flow(g, N, p, "in") = 0
  BY FlowZero DEF Weight, Counts
<1>3. Sum(g, amounts) \in Int
  <2>1. Sum(g, amounts) \in Nat
    BY SumType
  <2>. QED
    BY <2>1
<1>4. CASE p = d /\ d \in Card /\ status # "FORECAST"
  <2>1. \A e \in g : Weight(N[e], p, "out") = IF e \in g THEN amounts[e] ELSE 0
    BY <1>4 DEF Weight, Counts
  <2>2. Flow(g, N, p, "out") = Sum(g, amounts)
    BY <2>1, FlowFilter
  <2>. QED
    BY <1>1, <1>2, <1>3, <1>4, <2>2 DEF Gain
<1>5. CASE ~(p = d /\ d \in Card /\ status # "FORECAST")
  <2>1. \A e \in g : Weight(N[e], p, "out") = 0
    BY <1>5 DEF Weight, Counts
  <2>2. Flow(g, N, p, "out") = 0
    BY <2>1, FlowZero
  <2>. QED
    BY <1>1, <1>2, <1>5, <2>2 DEF Gain
<1>. QED
  BY <1>4, <1>5

(* A purchase or an earning begins: what it will take from the limit of    *)
(* its card is what its installments add up to.                            *)
LEMMA CreateInv ==
    ASSUME Inv, NEW r \in Request, Create(r)
    PROVE  Inv'
<1>0. PICK g \in Group, kind \in {"expense", "earning"},
           status \in {"FORECAST", "OPEN", "VERIFYING"}, d \in Pot : \E amounts \in Split(g) :
        LET moves == d \in Card /\ status # "FORECAST" IN
        /\ Fresh(g)
        /\ kind = "earning" => d \in Account
        /\ Begin(r, [NoTx EXCEPT
             !.pc = IF moves THEN "move" ELSE "commit", !.op = "create", !.held = g,
             !.after = [e \in Entry |->
                          IF e \in g THEN [kind |-> kind, status |-> status,
                                           amount |-> amounts[e], pot |-> d, closed |-> FALSE]
                          ELSE Absent],
             !.pots = IF moves THEN {d} ELSE {},
             !.delta = IF moves THEN [Zero EXCEPT ![d] = -Sum(g, amounts)] ELSE Zero])
  BY DEF Create
<1>1. PICK amounts \in Split(g) :
        LET moves == d \in Card /\ status # "FORECAST" IN
        /\ Fresh(g)
        /\ kind = "earning" => d \in Account
        /\ Begin(r, [NoTx EXCEPT
             !.pc = IF moves THEN "move" ELSE "commit", !.op = "create", !.held = g,
             !.after = [e \in Entry |->
                          IF e \in g THEN [kind |-> kind, status |-> status,
                                           amount |-> amounts[e], pot |-> d, closed |-> FALSE]
                          ELSE Absent],
             !.pots = IF moves THEN {d} ELSE {},
             !.delta = IF moves THEN [Zero EXCEPT ![d] = -Sum(g, amounts)] ELSE Zero])
  BY <1>0
<1>2. PICK moves \in BOOLEAN : moves = (d \in Card /\ status # "FORECAST")
  OBVIOUS
<1>3. PICK N : N = [e \in Entry |->
                      IF e \in g THEN [kind |-> kind, status |-> status,
                                       amount |-> amounts[e], pot |-> d, closed |-> FALSE]
                      ELSE Absent]
  OBVIOUS
<1>4. PICK delta : delta = IF moves THEN [Zero EXCEPT ![d] = -Sum(g, amounts)] ELSE Zero
  OBVIOUS
<1>5. PICK t : t = [NoTx EXCEPT !.pc = IF moves THEN "move" ELSE "commit", !.op = "create",
                                !.held = g, !.after = N, !.pots = IF moves THEN {d} ELSE {},
                                !.delta = delta]
  OBVIOUS
<1>6. Begin(r, t)
  BY <1>1, <1>2, <1>3, <1>4, <1>5
<1>7. g \subseteq Entry /\ amounts \in [g -> Amount]
  BY Groups DEF Split
<1>8. (\A e \in g : NewRow(N[e]) /\ N[e].kind = kind) /\ Installments(g, N, kind, status, amounts, d)
  <2>1. ASSUME NEW e \in g
        PROVE  /\ N[e] = [kind |-> kind, status |-> status, amount |-> amounts[e],
                          pot |-> d, closed |-> FALSE]
               /\ amounts[e] \in Amount
    BY <1>3, <1>7
  <2>2. ASSUME NEW e \in g PROVE N[e] \in Row
    <3>1. PICK n : n = amounts[e]
      OBVIOUS
    <3>2. n \in Amount /\ N[e] = [kind |-> kind, status |-> status, amount |-> n,
                                  pot |-> d, closed |-> FALSE]
      BY <2>1, <3>1
    <3>. QED
      BY <3>2 DEF Row, Status
  <2>3. d \in Card => kind = "expense"
    BY <1>1, Pots
  <2>4. ASSUME NEW e \in g
        PROVE  /\ N[e].kind = kind /\ N[e].status = status /\ N[e].amount = amounts[e]
               /\ N[e].pot = d /\ ~N[e].closed /\ N[e] # Absent
    <3>1. PICK n, y : n = amounts[e] /\ y = N[e]
      OBVIOUS
    <3>2. y = [kind |-> kind, status |-> status, amount |-> n, pot |-> d, closed |-> FALSE]
      BY <2>1, <3>1
    <3>3. y.kind = kind /\ y.status = status /\ y.amount = n /\ y.pot = d /\ ~y.closed
      BY <3>2
    <3>4. N[e] # Absent
      BY <2>2, AbsentNotRow
    <3>. QED
      BY <3>1, <3>3, <3>4
  <2>5. \A e \in g : NewRow(N[e])
    BY <2>2, <2>3, <2>4 DEF NewRow
  <2>. QED
    BY <2>4, <2>5 DEF Installments
<1>9. N \in [Entry -> Row \cup {Absent}]
  BY <1>3, <1>8 DEF NewRow
<1>10. Sum(g, amounts) \in Int
  <2>1. Sum(g, amounts) \in Nat
    BY <1>7, SumType
  <2>. QED
    BY <2>1
<1>11. delta \in [Pot -> Int]
  BY <1>4, <1>10 DEF Zero
<1>12. /\ t \in Tx
       /\ t.pc = (IF moves THEN "move" ELSE "commit") /\ t.op = "create" /\ t.todo = {}
       /\ t.held = g /\ t.after = N /\ t.pots = (IF moves THEN {d} ELSE {}) /\ t.wrote = {}
       /\ t.delta = delta
  <2>1. NoTx \in Tx /\ NoTx.todo = {} /\ NoTx.wrote = {}
    BY NoTxFacts
  <2>. QED
    BY ZenonT(60), <1>5, <1>7, <1>9, <1>11, <2>1 DEF Tx
<1>13. \A e \in g : row[e] = Absent
  BY <1>1 DEF Fresh, Exists
<1>14. ASSUME NEW p \in Pot PROVE delta[p] = Gain(g, row, N, p)
  <2>1. Gain(g, row, N, p) = IF p = d /\ d \in Card /\ status # "FORECAST"
                              THEN -Sum(g, amounts) ELSE 0
    BY <1>7, <1>8, <1>13, CreateGain
  <2>. QED
    BY <1>2, <1>4, <2>1 DEF Zero
<1>15. \A p \in Pot : delta[p] # 0 => p \in t.pots
  BY <1>4, <1>12 DEF Zero
<1>16. Sound(t, row, value, limit, payment)
  <2>1. Shape(t)
    BY <1>8, <1>12 DEF Shape, OnRow
  <2>2. Ascending(t)
    BY <1>12 DEF Ascending
  <2>3. Holds(t, row)
    BY <1>12, <1>13 DEF Holds
  <2>4. Moves(t, value)
    BY <1>12, <1>15 DEF Moves
  <2>5. Decided(t, row)
    BY <1>12, <1>14 DEF Decided, OnRow
  <2>6. Marks(t, row, payment) /\ Limits(t, value, limit)
    BY <1>12 DEF Marks, Limits, Marking
  <2>. QED
    BY <2>1, <2>2, <2>3, <2>4, <2>5, <2>6 DEF Sound
<1>17. \A q \in Request : t.held \cap tx[q].held = {}
  BY <1>1, <1>12 DEF Fresh
<1>. QED
  BY <1>6, <1>12, <1>16, <1>17, BeginInv

(* An operation on an entry begins: it holds nothing yet.                  *)
LEMMA OnEntryInv ==
    ASSUME Inv, NEW r \in Request, NEW e \in Entry, OnEntry(r, e)
    PROVE  Inv'
<1>1. PICK op \in OnRow :
        /\ Exists(e)
        /\ op = "repost" => row[e].kind = "expense"
        /\ Begin(r, [NoTx EXCEPT
             !.pc = "lock", !.op = op, !.on = e,
             !.todo = IF \/ op = "status"
                         \/ op \in {"update", "repost"} /\ row[e].kind = "expense"
                      THEN {e} ELSE {x \in GroupOf(e) : Exists(x)}])
  BY DEF OnEntry, OnRow
<1>2. PICK todo : todo = IF \/ op = "status"
                            \/ op \in {"update", "repost"} /\ row[e].kind = "expense"
                         THEN {e} ELSE {x \in GroupOf(e) : Exists(x)}
  OBVIOUS
<1>3. PICK t : t = [NoTx EXCEPT !.pc = "lock", !.op = op, !.on = e, !.todo = todo]
  OBVIOUS
<1>4. /\ todo \subseteq GroupOf(e) /\ todo \subseteq Entry
      /\ op = "repost" => todo = {e}
  BY <1>1, <1>2, Groups
<1>5. /\ t \in Tx /\ t.pc = "lock" /\ t.op = op /\ t.on = e /\ t.todo = todo
      /\ t.held = {} /\ t.wrote = {} /\ t.pots = {}
  <2>1. NoTx \in Tx /\ NoTx.held = {} /\ NoTx.wrote = {} /\ NoTx.pots = {}
    BY NoTxFacts
  <2>. QED
    BY <1>3, <1>4, <2>1 DEF Tx, OnRow
<1>6. Sound(t, row, value, limit, payment)
  BY <1>4, <1>5 DEF Sound, Shape, Ascending, Holds, Moves, Decided, Marks, Limits, OnRow, Marking
<1>. QED
  BY <1>1, <1>2, <1>3, <1>5, <1>6, BeginInv DEF OnRow

(* The sweep begins with the rows of its snapshot.                         *)
LEMMA SweepInv ==
    ASSUME Inv, NEW r \in Request, MarkOverdue(r)
    PROVE  Inv'
<1>1. PICK todo \in SUBSET Entry :
        Begin(r, [NoTx EXCEPT !.pc = "mark", !.op = "sweep", !.todo = todo])
  BY DEF MarkOverdue
<1>3. PICK t : t = [NoTx EXCEPT !.pc = "mark", !.op = "sweep", !.todo = todo]
  OBVIOUS
<1>5. /\ t \in Tx /\ t.pc = "mark" /\ t.op = "sweep" /\ t.todo = todo
      /\ t.held = {} /\ t.wrote = {} /\ t.pots = {} /\ t.delta = Zero
  <2>1. NoTx \in Tx /\ NoTx.held = {} /\ NoTx.wrote = {} /\ NoTx.pots = {} /\ NoTx.delta = Zero
    BY NoTxFacts DEF NoTx
  <2>. QED
    BY <1>3, <2>1 DEF Tx
<1>6. Sound(t, row, value, limit, payment)
  BY <1>5 DEF Sound, Shape, Ascending, Holds, Moves, Decided, Marks, Limits, OnRow, Marking, Zero
<1>. QED
  BY <1>1, <1>3, <1>5, <1>6, BeginInv

(* A change of a total limit begins, alone unless Overlap.                 *)
LEMMA ChangeLimitInv ==
    ASSUME Inv, NEW r \in Request, NEW c \in Card, ChangeLimit(r, c)
    PROVE  Inv'
<1>1. PICK new \in 1..MaxLimit :
        Begin(r, [NoTx EXCEPT !.pc = "load", !.op = "limit", !.on = c, !.newLimit = new])
  BY DEF ChangeLimit
<1>3. PICK t : t = [NoTx EXCEPT !.pc = "load", !.op = "limit", !.on = c, !.newLimit = new]
  OBVIOUS
<1>5. /\ t \in Tx /\ t.pc = "load" /\ t.op = "limit" /\ t.on = c /\ t.todo = {} /\ t.newLimit = new
      /\ t.held = {} /\ t.wrote = {} /\ t.pots = {}
  <2>1. NoTx \in Tx /\ NoTx.held = {} /\ NoTx.wrote = {} /\ NoTx.pots = {} /\ NoTx.todo = {}
    BY NoTxFacts
  <2>2. c \in Pot /\ new \in 0..MaxLimit
    BY Sizes DEF Pot
  <2>. QED
    BY <1>3, <2>1, <2>2 DEF Tx
<1>6. Sound(t, row, value, limit, payment)
  BY <1>5 DEF Sound, Shape, Ascending, Holds, Moves, Decided, Marks, Limits, OnRow, Marking
<1>. QED
  BY <1>1, <1>3, <1>5, <1>6, BeginInv

(* What both movements of a statement have in common. *)
LEMMA PayingInv ==
    ASSUME Inv, NEW r \in Request, NEW c \in Card, NEW pay \in Payment,
           NEW op \in {"pay", "undo"}, NEW dir \in {1, -1}, Paying(r, op, c, pay, dir),
           op = "pay" => dir = 1 /\ payment[c] = NoPayment,
           op = "undo" => dir = -1 /\ payment[c] = pay
    PROVE  Inv'
<1>1. PICK delta : delta = [Zero EXCEPT ![pay.account] = -(dir * pay.amount),
                                        ![c] = dir * pay.amount]
  OBVIOUS
<1>2. PICK t : t = [NoTx EXCEPT !.pc = "move", !.op = op, !.on = c, !.pay = pay,
                                !.pots = {pay.account, c}, !.delta = delta]
  OBVIOUS
<1>3. CardFree(c) /\ Begin(r, t)
  BY <1>1, <1>2 DEF Paying
<1>4. pay.account \in Account /\ pay.account \in Pot /\ c \in Pot /\ pay.amount \in Int
  BY Payments DEF Pot
<1>5. /\ delta \in [Pot -> Int]
      /\ \A p \in Pot : delta[p] # 0 => p \in {pay.account, c}
  BY <1>1, <1>4 DEF Zero
<1>6. /\ t \in Tx /\ t.pc = "move" /\ t.op = op /\ t.on = c /\ t.pay = pay /\ t.todo = {}
      /\ t.held = {} /\ t.wrote = {} /\ t.pots = {pay.account, c} /\ t.delta = delta
  <2>1. NoTx \in Tx /\ NoTx.held = {} /\ NoTx.wrote = {} /\ NoTx.todo = {}
    BY NoTxFacts
  <2>. QED
    BY <1>2, <1>4, <1>5, <2>1 DEF Tx
<1>7. delta = PayDelta(t)
  <2>1. CASE op = "pay"
    <3>1. dir * pay.amount = pay.amount
      BY <1>4, <2>1
    <3>. QED
      BY <1>1, <1>6, <2>1, <3>1 DEF PayDelta
  <2>2. CASE op = "undo"
    <3>1. dir * pay.amount = -pay.amount /\ -(dir * pay.amount) = pay.amount
      BY <1>4, <2>2
    <3>. QED
      BY <1>1, <1>6, <2>2, <3>1 DEF PayDelta
  <2>. QED
    BY <2>1, <2>2
<1>8. Sound(t, row, value, limit, payment)
  <2>1. Shape(t) /\ Ascending(t) /\ Holds(t, row) /\ Decided(t, row) /\ Limits(t, value, limit)
    BY <1>6, <1>7 DEF Shape, Ascending, Holds, Decided, Limits, OnRow
  <2>2. Moves(t, value)
    BY <1>5, <1>6 DEF Moves
  <2>3. Marks(t, row, payment)
    BY <1>6 DEF Marks, Marking
  <2>. QED
    BY <2>1, <2>2, <2>3 DEF Sound
<1>. QED
  BY <1>3, <1>6, <1>8, BeginInv

(* A payment begins: its card has none standing.                           *)
LEMMA PayInv ==
    ASSUME Inv, NEW r \in Request, NEW c \in Card, Pay(r, c)
    PROVE  Inv'
<1>1. PICK account \in Account, amount \in 1..MaxPayment :
        /\ payment[c] = NoPayment
        /\ Paying(r, "pay", c, [account |-> account, amount |-> amount,
                                full |-> amount = Remaining(c)], 1)
  BY DEF Pay
<1>2. PICK full \in BOOLEAN : full = (amount = Remaining(c))
  OBVIOUS
<1>3. PICK y \in Payment : y = [account |-> account, amount |-> amount, full |-> full]
  BY DEF Payment
<1>. QED
  BY <1>1, <1>2, <1>3, PayingInv

(* The undoing of the payment that stands begins.                          *)
LEMMA UndoInv ==
    ASSUME Inv, NEW r \in Request, NEW c \in Card, Undo(r, c)
    PROVE  Inv'
<1>1. payment[c] # NoPayment /\ Paying(r, "undo", c, payment[c], -1)
  BY DEF Undo
<1>2. PICK y \in Payment : y = payment[c]
  BY <1>1 DEF Inv, Types, PaymentTable
<1>. QED
  BY <1>1, <1>2, PayingInv

-----------------------------------------------------------------------------
(* Requests that go on.                                                    *)

(* Which operations have which stages. *)
LEMMA StageOp ==
    ASSUME Inv, NEW r \in Request
    PROVE  /\ tx[r] \in Tx /\ Sound(tx[r], row, value, limit, payment)
           /\ tx[r].pc \in {"lock", "decide"} => tx[r].op \in OnRow
           /\ tx[r].pc = "mark" => tx[r].op \in Marking
           /\ tx[r].pc = "move" => tx[r].op \in OnRow \cup {"create", "pay", "undo"}
           /\ tx[r].pc \in {"load", "write"} => tx[r].op = "limit"
<1>1. tx[r] \in Tx /\ Sound(tx[r], row, value, limit, payment)
  BY DEF Inv
<1>2. tx[r].op \in OnRow \cup Marking \cup {"none", "create", "limit"}
  BY <1>1 DEF Tx, OnRow, Marking
<1>. QED
  BY <1>1, <1>2, NoTxFacts DEF Sound, Shape, OnRow, Marking

(* A transaction that goes on and takes only rows and pots that are free.  *)
LEMMA GoesOn ==
    ASSUME Inv, NEW r \in Request, NEW t \in Tx, tx' = [tx EXCEPT ![r] = t],
           UNCHANGED <<row, value, limit, payment>>,
           Sound(t, row, value, limit, payment),
           tx[r].pc # "idle", t.op = tx[r].op, t.on = tx[r].on,
           \A e \in t.held \ tx[r].held : RowFree(e),
           \A p \in t.wrote \ tx[r].wrote : PotFree(p)
    PROVE  Inv'
<1>1. ASSUME NEW q \in Request \ {r} PROVE Apart(t, tx[q])
  <2>1. Apart(tx[r], tx[q])
    BY DEF Inv
  <2>2. t.held \cap tx[q].held = {}
    BY <2>1 DEF Apart, RowFree
  <2>3. t.wrote \cap tx[q].wrote = {}
    BY <2>1 DEF Apart, PotFree
  <2>. QED
    BY <2>1, <2>2, <2>3 DEF Apart
<1>. QED
  BY <1>1, RecordInv

(* The next row, and the smallest of those left, is locked.                *)
LEMMA LockRowInv ==
    ASSUME Inv, NEW r \in Request, NEW e \in Entry, LockRow(r, e)
    PROVE  Inv'
<1>1. PICK t : t = [tx[r] EXCEPT !.todo = tx[r].todo \ {e},
                                 !.held = IF Exists(e) THEN tx[r].held \cup {e} ELSE tx[r].held,
                                 !.pc = IF tx[r].todo = {e} THEN "decide" ELSE "lock"]
  OBVIOUS
<1>2. /\ tx[r].pc = "lock" /\ e \in tx[r].todo /\ (\A x \in tx[r].todo : e <= x)
      /\ Exists(e) => RowFree(e)
      /\ UNCHANGED <<row, value, limit, payment>>
  BY DEF LockRow
<1>3. tx' = [tx EXCEPT ![r] = t]
  BY <1>1 DEF LockRow, Inv
<1>4. /\ tx[r] \in Tx /\ Sound(tx[r], row, value, limit, payment) /\ tx[r].op \in OnRow
  BY <1>2, StageOp
<1>5. /\ t \in Tx /\ t.pc = (IF tx[r].todo = {e} THEN "decide" ELSE "lock")
      /\ t.op = tx[r].op /\ t.on = tx[r].on /\ t.todo = tx[r].todo \ {e}
      /\ t.held = (IF Exists(e) THEN tx[r].held \cup {e} ELSE tx[r].held)
      /\ t.wrote = tx[r].wrote /\ t.pots = tx[r].pots
  BY <1>1, <1>4 DEF Tx
<1>6. tx[r].wrote = {} /\ tx[r].pots = {}
  BY <1>2, <1>4 DEF Sound, Ascending
<1>7. Shape(t)
  BY <1>2, <1>4, <1>5 DEF Sound, Shape, OnRow
<1>8. Ascending(t)
  <2>1. ASSUME NEW h \in t.held, NEW x \in t.todo PROVE h < x
    <3>1. CASE h = e
      <4>1. e <= x /\ e # x /\ e \in Nat /\ x \in Nat
        BY <1>2, <1>4, <1>5, Pots DEF Tx
      <4>. QED
        BY <3>1, <4>1
    <3>2. CASE h # e
      BY <1>2, <1>4, <1>5, <3>2 DEF Sound, Ascending
    <3>. QED
      BY <3>1, <3>2
  <2>. QED
    BY <1>5, <1>6, <2>1 DEF Ascending
<1>9. Holds(t, row)
  <2>1. Exists(e) => row[e] \in Row
    BY DEF Inv, Types, RowTable, Exists
  <2>. QED
    BY <1>4, <1>5, <2>1 DEF Sound, Holds, OnRow
<1>10. Moves(t, value) /\ Decided(t, row) /\ Marks(t, row, payment) /\ Limits(t, value, limit)
  BY <1>4, <1>5, <1>6 DEF Moves, Decided, Marks, Limits, OnRow, Marking
<1>11. Sound(t, row, value, limit, payment)
  BY <1>7, <1>8, <1>9, <1>10 DEF Sound
<1>12. (\A d \in t.held \ tx[r].held : RowFree(d)) /\ (\A p \in t.wrote \ tx[r].wrote : PotFree(p))
  BY <1>2, <1>5
<1>. QED
  BY <1>2, <1>3, <1>5, <1>11, <1>12, GoesOn

(* Rows that become the same gain the same. *)
LEMMA GainSame ==
    ASSUME NEW S \in SUBSET Entry, NEW R, NEW N, NEW M, NEW p, \A e \in S : N[e] = M[e]
    PROVE  Gain(S, R, N, p) = Gain(S, R, M, p)
<1>1. ASSUME NEW way \in Way PROVE Flow(S, N, p, way) = Flow(S, M, p, way)
  BY FlowSame
<1>. QED
  BY <1>1 DEF Gain, Way

(* A request that holds its rows decides what to leave there. *)
LEMMA DecideInv ==
    ASSUME Inv, NEW r \in Request, NEW op \in OnRow, Deciding(r, op),
           NEW new, NEW delta \in [Pot -> Int], Decide(r, new, delta),
           \A e \in tx[r].held : IF op = "repost" THEN Opens(row[e], new[e])
                                 ELSE Keeps(row[e], new[e]),
           \A p \in Pot : delta[p] = Gain(tx[r].held, row, new, p)
    PROVE  Inv'
<1>1. PICK moved : moved = {p \in Pot : delta[p] # 0}
  OBVIOUS
<1>2. PICK N : N = [e \in Entry |-> IF e \in tx[r].held THEN new[e] ELSE Absent]
  OBVIOUS
<1>3. PICK t : t = [tx[r] EXCEPT !.after = N, !.delta = delta, !.pots = moved,
                                 !.pc = IF moved = {} THEN "commit" ELSE "move"]
  OBVIOUS
<1>4. /\ tx' = [tx EXCEPT ![r] = t] /\ UNCHANGED <<row, value, limit, payment>>
  BY <1>1, <1>2, <1>3 DEF Decide, Inv
<1>5. /\ tx[r] \in Tx /\ Sound(tx[r], row, value, limit, payment)
      /\ tx[r].pc = "decide" /\ tx[r].op = op
  BY StageOp DEF Deciding
<1>6. N \in [Entry -> Row \cup {Absent}] /\ moved \subseteq Pot
  BY <1>1, <1>2 DEF Keeps, Opens
<1>7. /\ t \in Tx /\ t.pc = (IF moved = {} THEN "commit" ELSE "move")
      /\ t.op = op /\ t.on = tx[r].on /\ t.todo = tx[r].todo /\ t.held = tx[r].held
      /\ t.wrote = tx[r].wrote /\ t.pots = moved /\ t.after = N /\ t.delta = delta
  BY <1>3, <1>5, <1>6 DEF Tx
<1>8. tx[r].wrote = {} /\ tx[r].todo = {} /\ tx[r].held \subseteq Entry
  BY <1>5 DEF Sound, Ascending, Tx
<1>9. Shape(t) /\ Ascending(t) /\ Holds(t, row)
  <2>1. Shape(t)
    BY <1>5, <1>7 DEF Sound, Shape, OnRow
  <2>2. Ascending(t)
    BY <1>7, <1>8 DEF Ascending
  <2>3. Holds(t, row)
    BY <1>5, <1>7 DEF Sound, Holds, OnRow
  <2>. QED
    BY <2>1, <2>2, <2>3
<1>10. Moves(t, value)
  BY <1>1, <1>7, <1>8 DEF Moves
<1>11. Decided(t, row)
  <2>1. \A e \in tx[r].held : N[e] = new[e]
    BY <1>2, <1>8
  <2>2. \A p \in Pot : Gain(tx[r].held, row, N, p) = Gain(tx[r].held, row, new, p)
    BY <1>8, <2>1, GainSame
  <2>. QED
    BY <1>7, <2>1, <2>2 DEF Decided, OnRow
<1>12. Marks(t, row, payment) /\ Limits(t, value, limit)
  BY <1>7 DEF Marks, Limits, OnRow, Marking
<1>13. Sound(t, row, value, limit, payment)
  BY <1>9, <1>10, <1>11, <1>12 DEF Sound
<1>. QED
  BY <1>4, <1>5, <1>7, <1>13, GoesOn

(* The rows of a request on entries: of one kind, and fit for their cards. *)
LEMMA HeldRows ==
    ASSUME Inv, NEW r \in Request, NEW op \in OnRow, Deciding(r, op), NEW e \in tx[r].held
    PROVE  /\ e \in Entry /\ row[e] \in Row /\ row[e] # Absent
           /\ row[e].kind = row[tx[r].on].kind
           /\ row[e].pot \in Card => row[e].kind = "expense" /\ row[e].status # "OVERDUE"
           /\ Keeps(row[e], row[e])
<1>1. /\ tx[r] \in Tx /\ Sound(tx[r], row, value, limit, payment)
      /\ tx[r].op \in OnRow /\ tx[r].on \in tx[r].held
  BY StageOp DEF Deciding
<1>2. /\ tx[r].op # "create" /\ tx[r].on \in Entry /\ tx[r].held \subseteq GroupOf(tx[r].on)
      /\ tx[r].held \subseteq Entry
  BY <1>1 DEF Sound, Shape, OnRow, Tx
<1>3. \A x \in tx[r].held : row[x] \in Row /\ row[x] # Absent
  BY <1>1, <1>2, AbsentNotRow DEF Sound, Holds
<1>4. row[e].kind = row[tx[r].on].kind
  BY <1>1, <1>2, <1>3, Groups DEF Inv, OneKind
<1>5. row[e].pot \in Card => row[e].kind = "expense" /\ row[e].status # "OVERDUE"
  BY <1>2, <1>3 DEF Inv, Fits
<1>. QED
  BY <1>2, <1>3, <1>4, <1>5 DEF Keeps

(* What AllowedTransitions admits. *)
LEMMA Transitions ==
    ASSUME NEW s \in Status, NEW to \in AllowedTransitions[s]
    PROVE  /\ to \in {"OPEN", "VERIFYING", "SETTLED"}
           /\ s = "FORECAST" \/ s = "SETTLED" => to = "OPEN"
  BY DEF AllowedTransitions, Status

(* A change of status moves what the row counted for, or counts for now. *)
LEMMA StatusWeights ==
    ASSUME NEW x \in Row, NEW y \in Row, NEW p \in Pot,
           y.kind = x.kind, y.amount = x.amount, y.pot = x.pot,
           y.status \in {"OPEN", "VERIFYING", "SETTLED"},
           x.status = "FORECAST" \/ x.status = "SETTLED" => y.status = "OPEN",
           x.pot \in Card => x.kind = "expense" /\ "SETTLED" \notin {x.status, y.status}
    PROVE  (Weight(y, p, "in") - Weight(x, p, "in")) - (Weight(y, p, "out") - Weight(x, p, "out"))
             = IF p # x.pot THEN 0
               ELSE LET sign == IF x.kind = "earning" THEN 1 ELSE -1 IN
                    CASE y.status = "SETTLED" -> sign * x.amount
                      [] x.status = "SETTLED" -> -(sign * x.amount)
                      [] x.status = "FORECAST" /\ x.pot \in Card -> -x.amount
                      [] OTHER -> 0
<1>1. x # Absent /\ y # Absent /\ x.amount \in Int /\ x.kind \in {"expense", "earning"}
  BY AbsentNotRow, Sizes DEF Row, Amount
<1>2. CASE p # x.pot
  BY <1>2 DEF Weight
<1>3. CASE p = x.pot /\ p \in Card
  <2>1. p \notin Account
    BY <1>3, Pots
  <2>. QED
    BY <1>1, <1>3, <2>1 DEF Weight, Counts
<1>4. CASE p = x.pot /\ p \notin Card
  <2>1. p \in Account
    BY <1>4 DEF Pot
  <2>2. CASE x.kind = "earning"
    BY <1>1, <1>4, <2>1, <2>2 DEF Weight, Counts
  <2>3. CASE x.kind = "expense"
    BY <1>1, <1>4, <2>1, <2>3 DEF Weight, Counts
  <2>. QED
    BY <1>1, <2>2, <2>3
<1>. QED
  BY <1>2, <1>3, <1>4

(* A change of status decides to move what the status counts for.          *)
LEMMA ChangeStatusInv ==
    ASSUME Inv, NEW r \in Request, ChangeStatus(r)
    PROVE  Inv'
<1>1. Deciding(r, "status") /\ "status" \in OnRow
  BY DEF ChangeStatus, OnRow
<1>2. PICK on \in Entry, x \in Row :
        /\ on = tx[r].on /\ x = row[on] /\ on \in tx[r].held /\ x # Absent
        /\ x.pot \in Card => x.kind = "expense" /\ x.status # "OVERDUE"
  BY <1>1, HeldRows DEF Deciding
<1>3. PICK to \in AllowedTransitions[x.status] :
        /\ x.pot \in Card => /\ "SETTLED" \notin {x.status, to}
                             /\ x.status = "FORECAST" => ~x.closed
        /\ Decide(r, [row EXCEPT ![on].status = to],
                  [Zero EXCEPT ![x.pot] =
                     LET sign == IF x.kind = "earning" THEN 1 ELSE -1 IN
                     CASE to = "SETTLED"       -> sign * x.amount
                       [] x.status = "SETTLED" -> -(sign * x.amount)
                       [] x.status = "FORECAST" /\ x.pot \in Card -> -x.amount
                       [] OTHER -> 0])
  BY <1>2 DEF ChangeStatus
<1>4. PICK moved : moved = LET sign == IF x.kind = "earning" THEN 1 ELSE -1 IN
                           CASE to = "SETTLED"       -> sign * x.amount
                             [] x.status = "SETTLED" -> -(sign * x.amount)
                             [] x.status = "FORECAST" /\ x.pot \in Card -> -x.amount
                             [] OTHER -> 0
  OBVIOUS
<1>5. PICK delta : delta = [Zero EXCEPT ![x.pot] = moved]
  OBVIOUS
<1>6. PICK new : new = [row EXCEPT ![on].status = to]
  OBVIOUS
<1>7. Decide(r, new, delta)
  BY <1>3, <1>4, <1>5, <1>6
<1>8. /\ to \in {"OPEN", "VERIFYING", "SETTLED"} /\ to \in Status /\ x.status \in Status
      /\ x.status = "FORECAST" \/ x.status = "SETTLED" => to = "OPEN"
  BY <1>3, Transitions DEF Row, Status
<1>9. PICK y : y = [x EXCEPT !.status = to]
  OBVIOUS
<1>10. /\ y \in Row /\ y # Absent /\ y.kind = x.kind /\ y.amount = x.amount /\ y.pot = x.pot
       /\ y.closed = x.closed /\ y.status = to
  <2>1. /\ y \in Row /\ y.kind = x.kind /\ y.amount = x.amount /\ y.pot = x.pot
        /\ y.closed = x.closed /\ y.status = to
    BY <1>8, <1>9 DEF Row
  <2>. QED
    BY <2>1, AbsentNotRow
<1>11. /\ new[on] = y /\ \A e \in Entry \ {on} : new[e] = row[e]
  BY <1>2, <1>6, <1>9 DEF Inv, Types, RowTable
<1>12. x.pot \in Pot /\ x.amount \in Int /\ x.kind \in {"expense", "earning"}
  BY Sizes DEF Row, Amount
<1>13. moved \in Int
  <2>1. CASE x.kind = "earning"
    BY <1>4, <1>12, <2>1
  <2>2. CASE x.kind = "expense"
    BY <1>4, <1>12, <2>2
  <2>. QED
    BY <1>12, <2>1, <2>2
<1>14. delta \in [Pot -> Int] /\ \A p \in Pot : delta[p] = IF p # x.pot THEN 0 ELSE moved
  BY <1>5, <1>12, <1>13 DEF Zero
<1>15. ASSUME NEW e \in tx[r].held PROVE Keeps(row[e], new[e])
  <2>1. CASE e = on
    <3>1. Keeps(x, y)
      BY <1>2, <1>3, <1>8, <1>10 DEF Keeps, IsClosed
    <3>. QED
      BY <1>2, <1>11, <2>1, <3>1
  <2>2. CASE e # on
    <3>1. e \in Entry /\ Keeps(row[e], row[e])
      BY <1>1, HeldRows
    <3>. QED
      BY <1>11, <2>2, <3>1
  <2>. QED
    BY <2>1, <2>2
<1>16. ASSUME NEW p \in Pot PROVE delta[p] = Gain(tx[r].held, row, new, p)
  <2>1. tx[r].held \in SUBSET Entry
    BY <1>1, HeldRows
  <2>2. Gain(tx[r].held, row, new, p) = (Weight(y, p, "in") - Weight(x, p, "in"))
                                          - (Weight(y, p, "out") - Weight(x, p, "out"))
    BY <1>2, <1>10, <1>11, <2>1, GainOne
  <2>3. (Weight(y, p, "in") - Weight(x, p, "in")) - (Weight(y, p, "out") - Weight(x, p, "out"))
          = IF p # x.pot THEN 0 ELSE moved
    BY ZenonT(60), <1>2, <1>3, <1>4, <1>8, <1>10, StatusWeights
  <2>. QED
    BY <1>14, <2>2, <2>3
<1>. QED
  BY <1>1, <1>7, <1>14, <1>15, <1>16, DecideInv

(* An update of an expense decides to move the difference of amounts, if   *)
(* the old one was taken from a limit.                                     *)
LEMMA UpdateExpenseInv ==
    ASSUME Inv, NEW r \in Request, UpdateExpense(r)
    PROVE  Inv'
<1>1. Deciding(r, "update") /\ "update" \in OnRow
  BY DEF UpdateExpense, OnRow
<1>2. PICK on \in Entry, x \in Row :
        /\ on = tx[r].on /\ x = row[on] /\ on \in tx[r].held /\ x # Absent
        /\ x.pot \in Card => x.kind = "expense" /\ x.status # "OVERDUE"
  BY <1>1, HeldRows DEF Deciding
<1>3. /\ x.kind = "expense" /\ x.status # "SETTLED" /\ ~x.closed
      /\ \E n \in Amount \ {x.amount} :
           Decide(r, [row EXCEPT ![on].amount = n],
                  [Zero EXCEPT ![x.pot] = IF Consuming(x) THEN -(n - x.amount) ELSE 0])
  BY <1>2 DEF UpdateExpense
<1>4. PICK n \in Amount :
        Decide(r, [row EXCEPT ![on].amount = n],
               [Zero EXCEPT ![x.pot] = IF Consuming(x) THEN -(n - x.amount) ELSE 0])
  BY <1>3
<1>5. PICK delta, new : /\ delta = [Zero EXCEPT ![x.pot] = IF Consuming(x) THEN -(n - x.amount) ELSE 0]
                        /\ new = [row EXCEPT ![on].amount = n]
  OBVIOUS
<1>7. Decide(r, new, delta)
  BY <1>4, <1>5
<1>9. PICK y : y = [x EXCEPT !.amount = n]
  OBVIOUS
<1>10. /\ y \in Row /\ y # Absent /\ y.kind = x.kind /\ y.amount = n /\ y.pot = x.pot
       /\ y.closed = x.closed /\ y.status = x.status
  <2>1. /\ y \in Row /\ y.kind = x.kind /\ y.amount = n /\ y.pot = x.pot
        /\ y.closed = x.closed /\ y.status = x.status
    BY <1>9 DEF Row
  <2>. QED
    BY <2>1, AbsentNotRow
<1>11. /\ new[on] = y /\ \A e \in Entry \ {on} : new[e] = row[e]
  BY <1>2, <1>5, <1>9 DEF Inv, Types, RowTable
<1>12. x.pot \in Pot /\ x.amount \in Int /\ n \in Int
  BY Sizes DEF Row, Amount
<1>14. /\ delta \in [Pot -> Int]
       /\ \A p \in Pot : delta[p] = IF p = x.pot /\ Consuming(x) THEN x.amount - n ELSE 0
  BY <1>5, <1>12 DEF Zero
<1>15. ASSUME NEW e \in tx[r].held PROVE Keeps(row[e], new[e])
  <2>1. CASE e = on
    <3>1. Keeps(x, y)
      BY <1>2, <1>3, <1>10 DEF Keeps, IsClosed
    <3>. QED
      BY <1>2, <1>11, <2>1, <3>1
  <2>2. CASE e # on
    <3>1. e \in Entry /\ Keeps(row[e], row[e])
      BY <1>1, HeldRows
    <3>. QED
      BY <1>11, <2>2, <3>1
  <2>. QED
    BY <2>1, <2>2
<1>16. ASSUME NEW p \in Pot PROVE delta[p] = Gain(tx[r].held, row, new, p)
  <2>1. tx[r].held \in SUBSET Entry
    BY <1>1, HeldRows
  <2>2. Gain(tx[r].held, row, new, p) = (Weight(y, p, "in") - Weight(x, p, "in"))
                                          - (Weight(y, p, "out") - Weight(x, p, "out"))
    BY <1>2, <1>10, <1>11, <2>1, GainOne
  <2>3. Weight(y, p, "in") = 0 /\ Weight(x, p, "in") = 0
    BY <1>3, <1>10 DEF Weight, Counts
  <2>4. p = x.pot /\ Consuming(x) => Weight(y, p, "out") = n /\ Weight(x, p, "out") = x.amount
    BY <1>2, <1>10 DEF Weight, Counts, Consuming
  <2>5. ~(p = x.pot /\ Consuming(x)) => Weight(y, p, "out") = 0 /\ Weight(x, p, "out") = 0
    <3>1. x.status \in Status
      BY DEF Row
    <3>. QED
      BY <1>3, <1>10, <3>1 DEF Weight, Counts, Consuming, Status
  <2>. QED
    BY <1>12, <1>14, <2>2, <2>3, <2>4, <2>5
<1>. QED
  BY <1>1, <1>7, <1>14, <1>15, <1>16, DecideInv

(* A reposting decides to leave a row in the open window, and moves        *)
(* nothing.                                                                *)
LEMMA RepostExpenseInv ==
    ASSUME Inv, NEW r \in Request, RepostExpense(r)
    PROVE  Inv'
<1>1. Deciding(r, "repost") /\ "repost" \in OnRow
  BY DEF RepostExpense, OnRow
<1>2. PICK on \in Entry, x \in Row :
        /\ on = tx[r].on /\ x = row[on] /\ on \in tx[r].held /\ x # Absent
        /\ x.pot \in Card => x.kind = "expense" /\ x.status # "OVERDUE"
  BY <1>1, HeldRows DEF Deciding
<1>3. tx[r].held = {on}
  BY <1>1, <1>2, StageOp DEF Deciding, Sound, Shape
<1>4. PICK new : new = [row EXCEPT ![on].closed = FALSE]
  OBVIOUS
<1>5. Decide(r, new, Zero)
  BY <1>2, <1>4 DEF RepostExpense
<1>6. PICK y : y = [x EXCEPT !.closed = FALSE]
  OBVIOUS
<1>7. /\ y \in Row /\ y # Absent /\ y.kind = x.kind /\ y.amount = x.amount /\ y.pot = x.pot
      /\ y.status = x.status
  <2>1. /\ y \in Row /\ y.kind = x.kind /\ y.amount = x.amount /\ y.pot = x.pot
        /\ y.status = x.status
    BY <1>6 DEF Row
  <2>. QED
    BY <2>1, AbsentNotRow
<1>8. new[on] = y
  BY <1>2, <1>4, <1>6 DEF Inv, Types, RowTable
<1>9. \A e \in tx[r].held : Opens(row[e], new[e])
  <2>1. Opens(x, y)
    BY <1>2, <1>6, <1>7 DEF Opens
  <2>. QED
    BY <1>2, <1>3, <1>8, <2>1
<1>10. Zero \in [Pot -> Int] /\ \A p \in Pot : Zero[p] = 0
  BY DEF Zero
<1>11. ASSUME NEW p \in Pot PROVE Zero[p] = Gain(tx[r].held, row, new, p)
  <2>1. ASSUME NEW e \in tx[r].held, NEW way \in Way
        PROVE  Weight(row[e], p, way) = Weight(new[e], p, way)
    BY <1>2, <1>3, <1>7, <1>8 DEF Weight, Counts
  <2>2. tx[r].held \in SUBSET Entry
    BY <1>2, <1>3
  <2>3. Gain(tx[r].held, row, new, p) = 0
    BY <2>1, <2>2, GainNone
  <2>. QED
    BY <1>10, <2>3
<1>. QED
  BY <1>1, <1>5, <1>9, <1>10, <1>11, DecideInv

(* An update of earnings decides on rows that count for nothing yet.       *)
LEMMA UpdateEarningInv ==
    ASSUME Inv, NEW r \in Request, UpdateEarning(r)
    PROVE  Inv'
<1>1. Deciding(r, "update") /\ "update" \in OnRow
  BY DEF UpdateEarning, OnRow
<1>2. PICK on \in Entry, x \in Row : on = tx[r].on /\ x = row[on] /\ on \in tx[r].held
  BY <1>1, HeldRows DEF Deciding
<1>3. /\ x.kind = "earning" /\ x.status # "SETTLED"
      /\ \E amount \in Amount, account \in Account, given \in BOOLEAN :
           Decide(r, [e \in tx[r].held |->
                        IF e = on
                        THEN [row[e] EXCEPT !.amount = amount, !.pot = account]
                        ELSE IF given /\ row[e].status # "SETTLED"
                        THEN [row[e] EXCEPT !.pot = account] ELSE row[e]],
                  Zero)
  BY <1>2 DEF UpdateEarning
<1>4. PICK amount \in Amount, account \in Account, given \in BOOLEAN :
        Decide(r, [e \in tx[r].held |->
                     IF e = on
                     THEN [row[e] EXCEPT !.amount = amount, !.pot = account]
                     ELSE IF given /\ row[e].status # "SETTLED"
                     THEN [row[e] EXCEPT !.pot = account] ELSE row[e]],
               Zero)
  BY <1>3
<1>5. PICK new : new = [e \in tx[r].held |->
                          IF e = on
                          THEN [row[e] EXCEPT !.amount = amount, !.pot = account]
                          ELSE IF given /\ row[e].status # "SETTLED"
                          THEN [row[e] EXCEPT !.pot = account] ELSE row[e]]
  OBVIOUS
<1>6. account \in Pot /\ account \notin Card
  BY Pots DEF Pot
<1>7. ASSUME NEW e \in tx[r].held
      PROVE  /\ Keeps(row[e], new[e])
             /\ \A p \in Pot, way \in Way : Weight(row[e], p, way) = Weight(new[e], p, way)
  <2>1. PICK z \in Row : z = row[e] /\ z.kind = "earning" /\ z # Absent /\ z.pot \notin Card
    BY <1>1, <1>2, <1>3, HeldRows
  <2>2. CASE new[e] = z
    BY <1>1, <2>1, <2>2, HeldRows
  <2>3. CASE new[e] # z
    <3>1. z.status # "SETTLED"
      BY <1>2, <1>3, <1>5, <2>1, <2>3
    <3>2. new[e] = [z EXCEPT !.amount = amount, !.pot = account] \/ new[e] = [z EXCEPT !.pot = account]
      BY <1>5, <2>1, <2>3
    <3>3. PICK y : y = new[e]
      OBVIOUS
    <3>4. y \in Row /\ y.kind = z.kind /\ y.status = z.status /\ y.pot = account
      BY <1>6, <3>2, <3>3 DEF Row
    <3>5. y # Absent
      BY <3>4, AbsentNotRow
    <3>6. Keeps(z, y)
      BY <1>6, <2>1, <3>1, <3>4, <3>5 DEF Keeps, IsClosed
    <3>7. ASSUME NEW p \in Pot, NEW way \in Way PROVE Weight(z, p, way) = 0 /\ Weight(y, p, way) = 0
      BY <1>6, <2>1, <3>1, <3>4 DEF Weight, Counts, Way
    <3>. QED
      BY <2>1, <3>3, <3>6, <3>7
  <2>. QED
    BY <2>2, <2>3
<1>8. Zero \in [Pot -> Int] /\ \A p \in Pot : Zero[p] = 0
  BY DEF Zero
<1>9. ASSUME NEW p \in Pot PROVE Zero[p] = Gain(tx[r].held, row, new, p)
  <2>1. tx[r].held \in SUBSET Entry
    BY <1>1, HeldRows
  <2>2. Gain(tx[r].held, row, new, p) = 0
    BY <1>7, <2>1, GainNone
  <2>. QED
    BY <1>8, <2>2
<1>10. Decide(r, new, Zero) /\ \A e \in tx[r].held : Keeps(row[e], new[e])
  BY <1>4, <1>5, <1>7
<1>. QED
  BY <1>1, <1>8, <1>9, <1>10, DecideInv

(* What rows that leave give back: nothing to accounts, because none of    *)
(* them is settled, and to a card what they have consumed.                 *)
LEMMA ReleasedFlow ==
    ASSUME Inv, NEW S \in SUBSET Entry, NEW p \in Pot,
           \A e \in S : row[e] \in Row /\ row[e].status # "SETTLED"
    PROVE  /\ Flow(S, row, p, "in") = 0
           /\ Flow(S, row, p, "out") = Released(S, p)
<1>1. ASSUME NEW e \in S
      PROVE  /\ row[e] # Absent /\ row[e].status \in Status \ {"SETTLED"}
             /\ AmountOf[e] = row[e].amount
  BY <1>1, AbsentNotRow DEF AmountOf, Exists, Row
<1>2. Flow(S, row, p, "in") = 0
  BY <1>1, FlowZero DEF Weight, Counts
<1>3. PICK T \in SUBSET S : T = {e \in S : row[e].pot = p /\ Consuming(row[e])}
  OBVIOUS
<1>4. ASSUME NEW e \in S
      PROVE  Weight(row[e], p, "out") = IF e \in T THEN AmountOf[e] ELSE 0
  BY <1>1, <1>3 DEF Weight, Counts, Consuming, Status
<1>5. Flow(S, row, p, "out") = Sum(T, AmountOf)
  BY <1>4, FlowFilter
<1>. QED
  BY <1>2, <1>3, <1>5 DEF Released

(* Only the rows T of those a request holds change. *)
LEMMA GainSome ==
    ASSUME NEW S \in SUBSET Entry, NEW T \in SUBSET S, NEW R, NEW N, NEW p,
           \A e \in S \ T : N[e] = R[e]
    PROVE  Gain(S, R, N, p) = Gain(T, R, N, p)
<1>1. ASSUME NEW way \in Way
      PROVE  /\ Flow(S, R, p, way) = Flow(S \ T, R, p, way) + Flow(T, R, p, way)
             /\ Flow(S, N, p, way) = Flow(S \ T, R, p, way) + Flow(T, N, p, way)
             /\ Flow(S \ T, R, p, way) \in Int /\ Flow(T, R, p, way) \in Int
             /\ Flow(T, N, p, way) \in Int
  <2>1. /\ Flow(S, R, p, way) = Flow(S \ T, R, p, way) + Flow(T, R, p, way)
        /\ Flow(S, N, p, way) = Flow(S \ T, N, p, way) + Flow(T, N, p, way)
    BY FlowApart
  <2>2. Flow(S \ T, N, p, way) = Flow(S \ T, R, p, way)
    BY FlowSame
  <2>3. /\ Flow(S \ T, R, p, way) \in Int /\ Flow(T, R, p, way) \in Int
        /\ Flow(T, N, p, way) \in Int
    BY FlowType
  <2>. QED
    BY <2>1, <2>2, <2>3
<1>. QED
  BY <1>1 DEF Gain, Way

(* A deletion decides to give back what its unsettled rows consumed.       *)
LEMMA DeleteInv ==
    ASSUME Inv, NEW r \in Request, Delete(r)
    PROVE  Inv'
<1>1. Deciding(r, "delete") /\ "delete" \in OnRow
  BY DEF Delete, OnRow
<1>2. PICK S : S = Loose(r)
  OBVIOUS
<1>3. PICK new, delta : /\ new = [e \in tx[r].held |-> IF e \in S THEN Absent ELSE row[e]]
                        /\ delta = [p \in Pot |-> Released(S, p)]
  OBVIOUS
<1>4. Decide(r, new, delta)
  BY <1>2, <1>3 DEF Delete
<1>5. /\ tx[r].held \in SUBSET Entry /\ S \in SUBSET tx[r].held /\ S \in SUBSET Entry
      /\ \A e \in S : row[e] \in Row /\ row[e].status # "SETTLED" /\ ~IsClosed(row[e])
      /\ \A e \in tx[r].held \ S : new[e] = row[e]
      /\ \A e \in S : new[e] = Absent
  BY <1>1, <1>2, <1>3, HeldRows DEF Loose
<1>6. ASSUME NEW p \in Pot
      PROVE  Released(S, p) \in Int /\ Released(S, p) = Gain(tx[r].held, row, new, p)
  <2>1. Flow(S, row, p, "in") = 0 /\ Flow(S, row, p, "out") = Released(S, p)
    BY <1>5, ReleasedFlow
  <2>2. Flow(S, new, p, "in") = 0 /\ Flow(S, new, p, "out") = 0
    BY <1>5, FlowZero DEF Weight
  <2>3. Flow(S, row, p, "out") \in Int
    BY <1>5, FlowType
  <2>4. Gain(tx[r].held, row, new, p) = Gain(S, row, new, p)
    BY <1>5, GainSome
  <2>. QED
    BY <2>1, <2>2, <2>3, <2>4 DEF Gain
<1>7. delta \in [Pot -> Int] /\ \A p \in Pot : delta[p] = Gain(tx[r].held, row, new, p)
  BY <1>3, <1>6
<1>8. ASSUME NEW e \in tx[r].held PROVE Keeps(row[e], new[e])
  <2>1. CASE e \in S
    BY <1>5, <2>1 DEF Keeps
  <2>2. CASE e \notin S
    BY <1>1, <1>5, <2>2, HeldRows
  <2>. QED
    BY <2>1, <2>2
<1>. QED
  BY <1>1, <1>4, <1>7, <1>8, DecideInv

(* A change of payment method decides to give back what the rows consumed  *)
(* where they were and to take what is not a forecast where they go.       *)
LEMMA ChangePaymentMethodInv ==
    ASSUME Inv, NEW r \in Request, ChangePaymentMethod(r)
    PROVE  Inv'
<1>1. /\ Deciding(r, "method") /\ "method" \in OnRow
      /\ row[tx[r].on].kind = "expense"
  BY DEF ChangePaymentMethod, OnRow
<1>2. PICK dest \in Pot :
        LET moved   == {e \in Loose(r) : row[e].pot # dest}
            counted == {e \in moved : row[e].status # "FORECAST"} IN
        Decide(r, [e \in tx[r].held |->
                     IF e \notin moved THEN row[e]
                     ELSE IF dest \in Card THEN OnCard(row[e], dest)
                     ELSE [row[e] EXCEPT !.pot = dest, !.closed = FALSE]],
               [p \in Pot |-> Released(moved, p)
                              - (IF p = dest /\ p \in Card THEN Sum(counted, AmountOf) ELSE 0)])
  BY DEF ChangePaymentMethod
<1>3. PICK S : S = {e \in Loose(r) : row[e].pot # dest}
  OBVIOUS
<1>4. PICK T : T = {e \in S : row[e].status # "FORECAST"}
  OBVIOUS
<1>5. PICK new : new = [e \in tx[r].held |->
                          IF e \notin S THEN row[e]
                          ELSE IF dest \in Card THEN OnCard(row[e], dest)
                          ELSE [row[e] EXCEPT !.pot = dest, !.closed = FALSE]]
  OBVIOUS
<1>6. PICK delta : delta = [p \in Pot |-> Released(S, p)
                              - (IF p = dest /\ p \in Card THEN Sum(T, AmountOf) ELSE 0)]
  OBVIOUS
<1>7. Decide(r, new, delta)
  BY <1>2, <1>3, <1>4, <1>5, <1>6
<1>8. /\ tx[r].held \in SUBSET Entry /\ S \in SUBSET tx[r].held /\ S \in SUBSET Entry
      /\ T \in SUBSET S /\ T \in SUBSET Entry
      /\ \A e \in S : /\ row[e] \in Row /\ row[e].status # "SETTLED" /\ ~IsClosed(row[e])
                      /\ row[e].kind = "expense" /\ row[e].pot # dest
      /\ \A e \in tx[r].held \ S : new[e] = row[e]
  BY <1>1, <1>3, <1>4, <1>5, HeldRows DEF Loose
<1>9. ASSUME NEW e \in S
      PROVE  \E x \in Row, y \in Row :
               /\ x = row[e] /\ y = new[e] /\ y # Absent
               /\ y.kind = "expense" /\ y.amount = x.amount /\ y.pot = dest /\ ~y.closed
               /\ y.status # "SETTLED" /\ (dest \in Card => y.status # "OVERDUE")
               /\ y.status = "FORECAST" <=> x.status = "FORECAST"
  <2>1. PICK x, y : /\ x \in Row /\ x = row[e] /\ y = new[e]
                    /\ x.kind = "expense" /\ x.status # "SETTLED"
    BY <1>8
  <2>2. y = IF dest \in Card
            THEN [x EXCEPT !.pot = dest, !.closed = FALSE,
                           !.status = IF x.status = "OVERDUE" THEN "OPEN" ELSE x.status]
            ELSE [x EXCEPT !.pot = dest, !.closed = FALSE]
    BY <1>5, <1>8, <2>1 DEF OnCard
  <2>3. /\ y \in Row /\ y.kind = "expense" /\ y.amount = x.amount /\ y.pot = dest /\ ~y.closed
        /\ y.status # "SETTLED" /\ (dest \in Card => y.status # "OVERDUE")
        /\ y.status = "FORECAST" <=> x.status = "FORECAST"
    <3>1. CASE dest \in Card
      BY <2>1, <2>2, <3>1 DEF Row, Status
    <3>2. CASE dest \notin Card
      BY <2>1, <2>2, <3>2 DEF Row, Status
    <3>. QED
      BY <3>1, <3>2
  <2>4. y # Absent
    BY <2>3, AbsentNotRow
  <2>. QED
    BY <2>1, <2>3, <2>4
<1>10. ASSUME NEW p \in Pot
       PROVE  /\ Gain(tx[r].held, row, new, p) =
                   Released(S, p) - (IF p = dest /\ p \in Card THEN Sum(T, AmountOf) ELSE 0)
              /\ Released(S, p) \in Int /\ Sum(T, AmountOf) \in Int
  <2>1. Flow(S, row, p, "in") = 0 /\ Flow(S, row, p, "out") = Released(S, p)
    BY <1>8, ReleasedFlow
  <2>2. Flow(S, new, p, "in") = 0
    <3>1. \A e \in S : Weight(new[e], p, "in") = 0
      BY <1>9 DEF Weight, Counts
    <3>. QED
      BY <1>8, <3>1, FlowZero
  <2>3. Flow(S, new, p, "out") = IF p = dest /\ p \in Card THEN Sum(T, AmountOf) ELSE 0
    <3>1. CASE p = dest /\ p \in Card
      <4>1. ASSUME NEW e \in S
            PROVE  Weight(new[e], p, "out") = IF e \in T THEN AmountOf[e] ELSE 0
        <5>1. AmountOf[e] = row[e].amount
          BY <1>8, AbsentNotRow DEF AmountOf, Exists
        <5>2. e \in T <=> row[e].status # "FORECAST"
          BY <1>4
        <5>3. PICK x \in Row, y \in Row :
                /\ x = row[e] /\ y = new[e] /\ y # Absent
                /\ y.amount = x.amount /\ y.pot = dest
                /\ y.status = "FORECAST" <=> x.status = "FORECAST"
          BY <1>9
        <5>. QED
          BY <3>1, <5>1, <5>2, <5>3 DEF Weight, Counts
      <4>2. Flow(S, new, p, "out") = Sum(T, AmountOf)
        BY <1>8, <4>1, FlowFilter
      <4>. QED
        BY <3>1, <4>2
    <3>2. CASE ~(p = dest /\ p \in Card)
      <4>1. ASSUME NEW e \in S PROVE Weight(new[e], p, "out") = 0
        BY <1>9, <3>2 DEF Weight, Counts
      <4>2. Flow(S, new, p, "out") = 0
        BY <1>8, <4>1, FlowZero
      <4>. QED
        BY <3>2, <4>2
    <3>. QED
      BY <3>1, <3>2
  <2>4. Flow(S, row, p, "out") \in Int
    BY <1>8, FlowType
  <2>5. Sum(T, AmountOf) \in Int
    <3>1. Sum(T, AmountOf) \in Nat
      BY <1>8, SumType
    <3>. QED
      BY <3>1
  <2>6. Gain(tx[r].held, row, new, p) = Gain(S, row, new, p)
    BY <1>8, GainSome
  <2>. QED
    BY <2>1, <2>2, <2>3, <2>4, <2>5, <2>6 DEF Gain
<1>11. delta \in [Pot -> Int] /\ \A p \in Pot : delta[p] = Gain(tx[r].held, row, new, p)
  BY <1>6, <1>10
<1>12. ASSUME NEW e \in tx[r].held PROVE Keeps(row[e], new[e])
  <2>1. CASE e \in S
    <3>1. ~IsClosed(row[e]) /\ row[e].status # "SETTLED" /\ row[e].kind = "expense"
      BY <1>8, <2>1
    <3>2. /\ new[e] \in Row /\ new[e].kind = "expense" /\ ~new[e].closed
          /\ new[e].status # "SETTLED" /\ (new[e].pot \in Card => new[e].status # "OVERDUE")
      BY <1>9, <2>1
    <3>. QED
      BY <3>1, <3>2 DEF Keeps, IsClosed
  <2>2. CASE e \notin S
    BY <1>1, <1>8, <2>2, HeldRows
  <2>. QED
    BY <2>1, <2>2
<1>. QED
  BY <1>1, <1>7, <1>11, <1>12, DecideInv

(* A mass update takes one of its rows. *)
LEMMA MarkRowInv ==
    ASSUME Inv, NEW r \in Request, NEW e \in Entry, MarkRow(r, e)
    PROVE  Inv'
<1>1. PICK u \in Tx :
        /\ u = tx[r] /\ Sound(u, row, value, limit, payment)
        /\ u.pc = "mark" /\ u.op \in Marking /\ e \in u.todo
  BY StageOp DEF MarkRow
<1>2. PICK x, hit : x = row[e] /\ hit = (x # Absent /\ Looks(u, x))
  OBVIOUS
<1>3. PICK y : y = IF hit THEN Leaves(u, x) ELSE Absent
  OBVIOUS
<1>4. PICK t : t = [u EXCEPT !.todo = u.todo \ {e},
                             !.held = IF hit THEN u.held \cup {e} ELSE u.held,
                             !.after = [u.after EXCEPT ![e] = y],
                             !.pc = IF u.todo = {e} THEN "commit" ELSE "mark"]
  OBVIOUS
<1>5. x # Absent => x \in Row /\ RowFree(e)
  BY <1>2 DEF MarkRow, Exists, Inv, Types, RowTable
<1>6. hit \in BOOLEAN /\ (hit => x \in Row /\ RowFree(e))
  BY <1>2, <1>5
<1>7. tx' = [tx EXCEPT ![r] = t] /\ UNCHANGED <<row, value, limit, payment>>
  <2>1. hit = (Exists(e) /\ Matches(r, row[e])) /\ y = IF hit THEN Marked(r, row[e]) ELSE Absent
    BY <1>1, <1>2, <1>3, OfTables DEF Exists
  <2>2. UNCHANGED <<row, value, limit, payment>>
    BY DEF MarkRow
  <2>3. tx' = [tx EXCEPT ![r].todo = @ \ {e},
                         ![r].held = IF hit THEN @ \cup {e} ELSE @,
                         ![r].after[e] = y,
                         ![r].pc = IF tx[r].todo = {e} THEN "commit" ELSE "mark"]
    BY <2>1 DEF MarkRow
  <2>4. tx \in [Request -> Tx]
    BY DEF Inv
  <2>. QED
    BY <1>1, <1>4, <2>2, <2>3, <2>4 DEF Tx
<1>8. y \in Row \cup {Absent}
  BY <1>1, <1>3, <1>6 DEF Leaves, Row, Status, Marking
<1>9. /\ t \in Tx /\ t.pc = (IF u.todo = {e} THEN "commit" ELSE "mark")
      /\ t.op = u.op /\ t.on = u.on /\ t.todo = u.todo \ {e}
      /\ t.held = (IF hit THEN u.held \cup {e} ELSE u.held)
      /\ t.after = [u.after EXCEPT ![e] = y] /\ t.pay = u.pay /\ t.delta = u.delta
      /\ t.draft = u.draft /\ t.wrote = u.wrote /\ t.pots = u.pots
  <2>1. /\ DOMAIN u = {"pc", "op", "on", "todo", "held", "after", "delta", "draft",
                      "pots", "wrote", "pay", "newLimit"}
        /\ u.held \in SUBSET Entry /\ u.todo \in SUBSET Entry
        /\ u.after \in [Entry -> Row \cup {Absent}]
    BY <1>1 DEF Tx
  <2>2. [u.after EXCEPT ![e] = y] \in [Entry -> Row \cup {Absent}]
    BY <1>8, <2>1
  <2>3. (IF hit THEN u.held \cup {e} ELSE u.held) \in SUBSET Entry
    BY <2>1
  <2>4. t.pc = (IF u.todo = {e} THEN "commit" ELSE "mark")
        /\ t.todo = u.todo \ {e}
        /\ t.held = (IF hit THEN u.held \cup {e} ELSE u.held)
        /\ t.after = [u.after EXCEPT ![e] = y]
    BY <1>4, <2>1
  <2>5. /\ t.op = u.op /\ t.on = u.on /\ t.pay = u.pay /\ t.delta = u.delta
        /\ t.draft = u.draft /\ t.wrote = u.wrote /\ t.pots = u.pots
    BY <1>4, <2>1
  <2>6. t \in Tx
    <3>1. t = [pc |-> t.pc, op |-> u.op, on |-> u.on, todo |-> t.todo, held |-> t.held,
               after |-> t.after, pots |-> u.pots, delta |-> u.delta,
               draft |-> u.draft, wrote |-> u.wrote, pay |-> u.pay,
               newLimit |-> u.newLimit]
      <4>1. u = [pc |-> u.pc, op |-> u.op, on |-> u.on, todo |-> u.todo, held |-> u.held,
                 after |-> u.after, pots |-> u.pots, delta |-> u.delta,
                 draft |-> u.draft, wrote |-> u.wrote, pay |-> u.pay,
                 newLimit |-> u.newLimit]
        BY <1>1 DEF Tx
      <4>. QED
        BY <1>4, <2>4, <4>1
    <3>2. /\ t.pc \in {"mark", "commit"} /\ t.todo \in SUBSET Entry
          /\ t.held \in SUBSET Entry /\ t.after \in [Entry -> Row \cup {Absent}]
      BY <2>1, <2>2, <2>3, <2>4
    <3>. QED
      BY <1>1, <3>1, <3>2 DEF Tx
  <2>. QED
    BY <2>4, <2>5, <2>6
<1>10. e \notin u.held
  <2>1. u.op # "create"
    BY <1>1 DEF Marking
  <2>2. e \in u.held => x \in Row
    BY <1>1, <1>2, <2>1 DEF Sound, Holds
  <2>. QED
    BY <1>1, <1>5, <2>2, AbsentNotRow DEF RowFree
<1>11. Shape(t)
  BY <1>1, <1>9 DEF Sound, Shape, Marking, OnRow, PayDelta
<1>12. Ascending(t)
  BY <1>1, <1>9 DEF Sound, Ascending
<1>13. Holds(t, row)
  BY <1>1, <1>2, <1>6, <1>9 DEF Sound, Holds, Marking
<1>14. Moves(t, value)
  BY <1>1, <1>9 DEF Sound, Moves
<1>15. Decided(t, row) /\ Limits(t, value, limit)
  BY <1>1, <1>9 DEF Decided, Limits, OnRow, Marking
<1>16. ASSUME NEW d \in t.held PROVE Looks(t, row[d]) /\ t.after[d] = Leaves(t, row[d])
  <2>1. ASSUME NEW z PROVE Looks(t, z) = Looks(u, z) /\ Leaves(t, z) = Leaves(u, z)
    BY <1>9 DEF Looks, Leaves
  <2>2. d \in Entry /\ u.after \in [Entry -> Row \cup {Absent}]
    BY <1>1, <1>9 DEF Tx
  <2>3. CASE d = e
    BY <1>2, <1>3, <1>9, <1>10, <2>1, <2>2, <2>3
  <2>4. CASE d # e
    BY <1>1, <1>9, <2>1, <2>2, <2>4 DEF Sound, Marks
  <2>. QED
    BY <2>3, <2>4
<1>17. /\ u.op = "pay" => payment[t.on] = NoPayment
       /\ u.op \in {"pay", "undo"} => t.pay.full
  BY <1>1, <1>9 DEF Sound, Marks
<1>18. ASSUME u.op = "undo"
       PROVE  payment[t.on] = t.pay /\ SettledIn(row, t.on) \subseteq t.todo \cup t.held
  <2>1. payment[t.on] = t.pay /\ SettledIn(row, t.on) \subseteq u.todo \cup u.held /\ t.on \in Card
    BY <1>1, <1>9, <1>17, <1>18 DEF Sound, Marks, Shape
  <2>2. e \in SettledIn(row, t.on) => hit
    BY <1>2, <1>9, <1>18, <2>1 DEF SettledIn, Looks
  <2>. QED
    BY <1>9, <2>1, <2>2
<1>19. Marks(t, row, payment)
  BY <1>9, <1>16, <1>17, <1>18 DEF Marks
<1>20. Sound(t, row, value, limit, payment)
  BY <1>11, <1>12, <1>13, <1>14, <1>15, <1>19 DEF Sound
<1>21. (\A d \in t.held \ u.held : RowFree(d)) /\ (\A p \in t.wrote \ u.wrote : PotFree(p))
  BY <1>6, <1>9
<1>. QED
  BY <1>1, <1>7, <1>9, <1>20, <1>21, GoesOn

(* One pot is moved. *)
LEMMA ApplyDeltaInv ==
    ASSUME Inv, NEW r \in Request, NEW p \in Pot, ApplyDelta(r, p)
    PROVE  Inv'
<1>1. PICK u \in Tx :
        /\ u = tx[r] /\ Sound(u, row, value, limit, payment)
        /\ u.pc = "move" /\ u.op \in OnRow \cup {"create", "pay", "undo"}
        /\ p \in u.pots /\ (\A q \in u.pots : p <= q)
  BY StageOp DEF ApplyDelta
<1>2. PotFree(p) /\ UNCHANGED <<row, value, limit, payment>>
  BY DEF ApplyDelta
<1>3. PICK todo : todo = IF u.pots = {p} THEN Found(r) ELSE {}
  OBVIOUS
<1>4. PICK amount : amount = value[p] + u.delta[p]
  OBVIOUS
<1>0. PICK pc \in {"move", "commit", "mark"} :
        pc = IF u.pots # {p} THEN "move" ELSE IF todo = {} THEN "commit" ELSE "mark"
  OBVIOUS
<1>22. PICK draft : draft = [u.draft EXCEPT ![p] = amount]
  OBVIOUS
<1>5. PICK t : t = [u EXCEPT !.draft = draft, !.wrote = u.wrote \cup {p},
                             !.pots = u.pots \ {p}, !.todo = todo, !.pc = pc]
  OBVIOUS
<1>6. tx' = [tx EXCEPT ![r] = t]
  <2>1. tx' = [tx EXCEPT ![r].draft[p] = amount, ![r].wrote = @ \cup {p}, ![r].pots = @ \ {p},
                         ![r].todo = todo,
                         ![r].pc = IF tx[r].pots # {p} THEN "move"
                                   ELSE IF todo = {} THEN "commit" ELSE "mark"]
    BY <1>1, <1>3, <1>4 DEF ApplyDelta, Moved
  <2>2. tx \in [Request -> Tx]
    BY DEF Inv
  <2>. QED
    BY <1>0, <1>1, <1>5, <1>22, <2>1, <2>2 DEF Tx
<1>7. todo \subseteq Entry /\ (u.pots # {p} => todo = {}) /\ (u.op \notin {"pay", "undo"} => todo = {})
  BY <1>1, <1>3 DEF Found
<1>8. amount \in Int
  BY <1>1, <1>4 DEF Inv, Types, Tx
<1>9. /\ t \in Tx
      /\ t.pc = (IF u.pots # {p} THEN "move" ELSE IF todo = {} THEN "commit" ELSE "mark")
      /\ t.op = u.op /\ t.on = u.on /\ t.todo = todo /\ t.held = u.held /\ t.after = u.after
      /\ t.pay = u.pay /\ t.delta = u.delta /\ t.draft = [u.draft EXCEPT ![p] = amount]
      /\ t.wrote = u.wrote \cup {p} /\ t.pots = u.pots \ {p}
  <2>1. draft \in [Pot -> Int]
    BY <1>1, <1>8, <1>22 DEF Tx
  <2>2. /\ t \in Tx /\ t.pc = pc
        /\ t.op = u.op /\ t.on = u.on /\ t.todo = todo /\ t.held = u.held /\ t.after = u.after
        /\ t.pay = u.pay /\ t.delta = u.delta /\ t.draft = draft
        /\ t.wrote = u.wrote \cup {p} /\ t.pots = u.pots \ {p}
    BY ZenonT(60), <1>1, <1>5, <1>7, <2>1 DEF Tx
  <2>. QED
    BY <1>0, <1>22, <2>2
<1>10. u.todo = {}
  BY <1>1 DEF Sound, Ascending
<1>11. Shape(t)
  BY <1>1, <1>7, <1>9, <1>10 DEF Sound, Shape, OnRow, PayDelta
<1>12. Ascending(t)
  <2>1. ASSUME NEW w \in t.wrote, NEW q \in t.pots PROVE w < q
    <3>1. CASE w = p
      <4>1. p <= q /\ p # q /\ p \in Nat /\ q \in Nat
        BY <1>1, <1>9, Pots DEF Tx
      <4>. QED
        BY <3>1, <4>1
    <3>2. CASE w # p
      BY <1>1, <1>9, <3>2 DEF Sound, Ascending
    <3>. QED
      BY <3>1, <3>2
  <2>. QED
    BY <1>7, <1>9, <1>1, <2>1 DEF Ascending
<1>13. Holds(t, row)
  BY <1>1, <1>9 DEF Sound, Holds
<1>14. Moves(t, value)
  <2>1. ASSUME NEW w \in t.wrote PROVE t.draft[w] = value[w] + t.delta[w]
    <3>1. w \in Pot /\ u.draft \in [Pot -> Int]
      BY <1>1, <1>9 DEF Tx
    <3>2. u.op # "limit"
      BY <1>1 DEF OnRow
    <3>. QED
      BY <1>1, <1>4, <1>9, <3>1, <3>2 DEF Sound, Moves
  <2>2. \A q \in Pot : t.delta[q] # 0 => q \in t.pots \cup t.wrote
    BY <1>1, <1>9 DEF Sound, Moves, OnRow
  <2>. QED
    BY <2>1, <2>2 DEF Moves
<1>15. Decided(t, row) /\ Limits(t, value, limit)
  BY <1>1, <1>9 DEF Sound, Decided, Limits, OnRow
<1>16. u.op \in {"pay", "undo"} => u.held = {} /\ u.on \in Card
  BY <1>1 DEF Sound, Shape
<1>17. /\ u.op = "pay" => payment[t.on] = NoPayment
       /\ u.op \in {"pay", "undo"} /\ t.todo # {} => t.pay.full
  BY <1>1, <1>3, <1>9 DEF Sound, Marks, Found
<1>18. ASSUME u.op = "undo"
       PROVE  /\ payment[t.on] = t.pay
              /\ t.pay.full /\ t.pc \in {"mark", "commit"} => SettledIn(row, t.on) \subseteq t.todo
  <2>1. payment[u.on] = u.pay
    BY <1>1, <1>18 DEF Sound, Marks
  <2>2. ASSUME u.pots = {p}, u.pay.full, NEW e \in SettledIn(row, u.on) PROVE e \in Found(r)
    BY <1>1, <1>18, <2>2 DEF SettledIn, Matches, Found, Exists
  <2>. QED
    BY <1>3, <1>9, <2>1, <2>2
<1>19. Marks(t, row, payment)
  BY <1>1, <1>9, <1>16, <1>17, <1>18 DEF Marks, Marking, OnRow
<1>20. Sound(t, row, value, limit, payment)
  BY <1>11, <1>12, <1>13, <1>14, <1>15, <1>19 DEF Sound
<1>21. (\A d \in t.held \ u.held : RowFree(d)) /\ (\A q \in t.wrote \ u.wrote : PotFree(q))
  BY <1>2, <1>9
<1>. QED
  BY <1>1, <1>2, <1>6, <1>9, <1>20, <1>21, GoesOn

(* A new total limit: read, and then written. *)
LEMMA LoadForUpdateInv ==
    ASSUME Inv, NEW r \in Request, LoadForUpdate(r)
    PROVE  Inv'
<1>1. PICK u \in Tx : /\ u = tx[r] /\ Sound(u, row, value, limit, payment)
                      /\ u.pc = "load" /\ u.op = "limit" /\ u.on \in Card
  BY StageOp DEF LoadForUpdate, Sound, Shape
<1>2. PICK amount : amount = value[u.on] + (u.newLimit - limit[u.on])
  OBVIOUS
<1>3. amount \in Int
  <2>1. value[u.on] \in Int /\ u.newLimit \in Int /\ limit[u.on] \in Int
    BY <1>1 DEF Inv, Types, Tx, Pot
  <2>. QED
    BY <1>2, <2>1
<1>4. PICK t : t = [u EXCEPT !.draft = [u.draft EXCEPT ![u.on] = amount], !.pc = "write"]
  OBVIOUS
<1>5. tx' = [tx EXCEPT ![r] = t] /\ UNCHANGED <<row, value, limit, payment>>
  <2>1. tx \in [Request -> Tx]
    BY DEF Inv
  <2>. QED
    BY <1>1, <1>2, <1>4, <2>1 DEF LoadForUpdate, Tx
<1>6. /\ t \in Tx /\ t.pc = "write" /\ t.op = "limit" /\ t.on = u.on /\ t.todo = u.todo
      /\ t.held = u.held /\ t.pots = u.pots /\ t.wrote = u.wrote /\ t.newLimit = u.newLimit
      /\ t.draft[t.on] = amount
  BY <1>1, <1>3, <1>4 DEF Tx, Pot
<1>7. u.held = {} /\ u.todo = {} /\ u.wrote = {} /\ u.pots = {}
  BY <1>1 DEF Sound, Shape
<1>8. Sound(t, row, value, limit, payment)
  BY <1>1, <1>2, <1>6, <1>7
  DEF Sound, Shape, Ascending, Holds, Moves, Decided, Marks, Limits, OnRow, Marking
<1>. QED
  BY <1>1, <1>5, <1>6, <1>8, GoesOn

(* The new limit is written as it was computed from what was read.         *)
LEMMA WriteLimitInv ==
    ASSUME Inv, NEW r \in Request, WriteLimit(r)
    PROVE  Inv'
<1>1. PICK u \in Tx : /\ u = tx[r] /\ Sound(u, row, value, limit, payment)
                      /\ u.pc = "write" /\ u.op = "limit" /\ u.on \in Card
  BY StageOp DEF WriteLimit, Sound, Shape
<1>4. PICK t : t = [u EXCEPT !.wrote = {u.on}, !.pc = "commit"]
  OBVIOUS
<1>5. /\ tx' = [tx EXCEPT ![r] = t] /\ UNCHANGED <<row, value, limit, payment>>
      /\ PotFree(u.on)
  <2>1. tx \in [Request -> Tx]
    BY DEF Inv
  <2>. QED
    BY <1>1, <1>4, <2>1 DEF WriteLimit, Tx
<1>6. /\ t \in Tx /\ t.pc = "commit" /\ t.op = "limit" /\ t.on = u.on /\ t.todo = u.todo
      /\ t.held = u.held /\ t.pots = u.pots /\ t.wrote = {u.on} /\ t.newLimit = u.newLimit
      /\ t.draft = u.draft
  BY <1>1, <1>4 DEF Tx, Pot
<1>7. u.held = {} /\ u.todo = {} /\ u.wrote = {} /\ u.pots = {}
  BY <1>1 DEF Sound, Shape
<1>8. Limits(t, value, limit)
  BY <1>1, <1>6 DEF Sound, Limits
<1>9. Sound(t, row, value, limit, payment)
  BY <1>1, <1>6, <1>7, <1>8
  DEF Sound, Shape, Ascending, Holds, Moves, Decided, Marks, OnRow, Marking
<1>. QED
  BY <1>1, <1>5, <1>6, <1>7, <1>9, GoesOn

(* Whatever rolls back leaves the others as they were. *)
LEMMA AbortInv ==
    ASSUME Inv, NEW r \in Request, Abort(r)
    PROVE  Inv'
<1>1. \A q \in Request : Apart(NoTx, tx[q])
  BY NoTxFacts DEF Apart
<1>2. Sound(NoTx, row, value, limit, payment) /\ NoTx \in Tx
  BY NoTxFacts
<1>. QED
  BY <1>1, <1>2, RecordInv DEF Abort

-----------------------------------------------------------------------------
(* The commit: from tables R, V, L, P to N, W, M, Q. *)
CommitsTo(t, R, V, L, P, N, W, M, Q) ==
    /\ t \in Tx /\ t.pc = "commit"
    /\ N = [e \in Entry |-> IF e \in t.held THEN t.after[e] ELSE R[e]]
    /\ W = [p \in Pot |-> IF p \in t.wrote THEN t.draft[p] ELSE V[p]]
    /\ M = IF t.op = "limit" THEN [L EXCEPT ![t.on] = t.newLimit] ELSE L
    /\ Q = CASE t.op = "pay"  -> [P EXCEPT ![t.on] = t.pay]
             [] t.op = "undo" -> [P EXCEPT ![t.on] = NoPayment]
             [] OTHER -> P

(* A commit leaves y where x was: nothing settled or closed is lost, or    *)
(* leaves the closed window but by being posted anew; rows fit their       *)
(* cards, and in the closed window of one only a payment of it settles     *)
(* rows and only an undoing puts them back.                                *)
Carried(t, x, y) ==
    /\ y \in Row \cup {Absent}
    /\ x # Absent /\ (x.status = "SETTLED" \/ IsClosed(x)) =>
         y # Absent /\ y.amount = x.amount /\ y.pot = x.pot /\ y.kind = x.kind
    /\ y # Absent /\ IsClosed(y) => x # Absent /\ IsClosed(x)
    /\ t.op # "repost" /\ x # Absent /\ IsClosed(x) => y # Absent /\ IsClosed(y)
    /\ y # Absent /\ y.pot \in Card =>
         /\ y.kind = "expense" /\ y.status # "OVERDUE"
         /\ y.status = "SETTLED" /\ y.closed =>
              \/ x # Absent /\ x.status = "SETTLED" /\ x.closed /\ x.pot = y.pot
              \/ t.op = "pay" /\ t.on = y.pot
    /\ x # Absent /\ x.pot \in Card /\ x.status = "SETTLED" =>
         y.status = "SETTLED" \/ (t.op = "undo" /\ t.on = x.pot)
    /\ x # Absent /\ y # Absent => y.kind = x.kind

(* What a mass update leaves. *)
LEMMA LeavesRow ==
    ASSUME NEW t, t.op \in Marking, t.op # "sweep" => t.on \in Card,
           NEW x \in Row, Looks(t, x), NEW y, y = Leaves(t, x)
    PROVE  /\ y \in Row /\ y # Absent
           /\ y.kind = x.kind /\ y.amount = x.amount /\ y.pot = x.pot /\ y.closed = x.closed
           /\ t.op = "pay" => /\ x.pot = t.on /\ x.closed /\ x.status \in {"OPEN", "VERIFYING"}
                              /\ y.status = "SETTLED"
           /\ t.op = "undo" => /\ x.pot = t.on /\ x.closed /\ x.status = "SETTLED"
                               /\ y.status = "OPEN"
           /\ t.op = "sweep" => /\ x.pot \in Account /\ x.status = "OPEN"
                                /\ y.status = "OVERDUE"
           /\ \A p \in Pot, way \in Way : Weight(x, p, way) = Weight(y, p, way)
<1>1. PICK s \in {"SETTLED", "OPEN", "OVERDUE"} :
        /\ y = [x EXCEPT !.status = s]
        /\ t.op = "pay" => s = "SETTLED" /\ x.pot = t.on /\ x.closed /\ x.status \in {"OPEN", "VERIFYING"}
        /\ t.op = "undo" => s = "OPEN" /\ x.pot = t.on /\ x.closed /\ x.status = "SETTLED"
        /\ t.op = "sweep" => s = "OVERDUE" /\ x.pot \in Account /\ x.status = "OPEN"
  <2>1. CASE t.op = "pay"
    BY <2>1 DEF Looks, Leaves
  <2>2. CASE t.op = "undo"
    BY <2>2 DEF Looks, Leaves
  <2>3. CASE t.op = "sweep"
    BY <2>3 DEF Looks, Leaves, Overdue
  <2>. QED
    BY <2>1, <2>2, <2>3 DEF Marking
<1>2. /\ y \in Row /\ y.kind = x.kind /\ y.amount = x.amount /\ y.pot = x.pot
      /\ y.closed = x.closed /\ y.status = s
  BY <1>1 DEF Row, Status
<1>3. x # Absent /\ y # Absent
  BY <1>2, AbsentNotRow
<1>4. ASSUME NEW p \in Pot, NEW way \in Way PROVE Weight(x, p, way) = Weight(y, p, way)
  <2>1. CASE t.op \in {"pay", "undo"}
    <3>1. x.pot \in Card /\ x.pot \notin Account
      BY <1>1, <2>1, Pots
    <3>. QED
      BY <1>1, <1>2, <1>3, <2>1, <3>1 DEF Weight, Counts
  <2>2. CASE t.op = "sweep"
    <3>1. x.pot \notin Card
      BY <1>1, <2>2, Pots
    <3>. QED
      BY <1>1, <1>2, <1>3, <2>2, <3>1 DEF Weight, Counts
  <2>. QED
    BY <2>1, <2>2 DEF Marking
<1>. QED
  BY <1>1, <1>2, <1>3, <1>4

(* Every row is carried over by every commit.                              *)
LEMMA RowsCarried ==
    ASSUME NEW t, NEW R \in RowTable, NEW V, NEW L, NEW P, NEW N, NEW W, NEW M, NEW Q,
           CommitsTo(t, R, V, L, P, N, W, M, Q), Sound(t, R, V, L, P), Fits(R),
           NEW e \in Entry
    PROVE  Carried(t, R[e], N[e])
<1>1. /\ t \in Tx /\ t.op \in OnRow \cup Marking \cup {"none", "create", "limit"}
      /\ N[e] = IF e \in t.held THEN t.after[e] ELSE R[e]
  BY DEF CommitsTo, Tx, OnRow, Marking
<1>2. /\ R[e] \in Row \cup {Absent}
      /\ R[e] # Absent /\ R[e].pot \in Card => R[e].kind = "expense" /\ R[e].status # "OVERDUE"
  BY DEF RowTable, Fits
<1>3. CASE e \notin t.held
  BY <1>1, <1>2, <1>3 DEF Carried
<1>4. CASE e \in t.held /\ t.op \in OnRow
  <2>1. PICK x, y : x \in Row /\ x = R[e] /\ y = t.after[e] /\ y = N[e]
    BY <1>1, <1>4 DEF CommitsTo, Sound, Holds, OnRow
  <2>2. x # Absent
    BY <2>1, AbsentNotRow
  <2>3. CASE t.op = "repost"
    <3>1. Opens(x, y)
      BY <1>4, <2>1, <2>3 DEF CommitsTo, Sound, Decided, OnRow
    <3>2. /\ y \in Row /\ y.kind = x.kind /\ y.status = x.status /\ y.amount = x.amount
          /\ y.pot = x.pot /\ ~y.closed
      BY <2>1, <3>1 DEF Opens, Row
    <3>3. y # Absent
      BY <3>2, AbsentNotRow
    <3>4. y.pot \in Card => y.kind = "expense" /\ y.status # "OVERDUE"
      BY <3>1 DEF Opens
    <3>5. Carried(t, x, y)
      BY <2>2, <2>3, <3>2, <3>3, <3>4 DEF Carried, IsClosed
    <3>. QED
      BY <2>1, <3>5
  <2>4. CASE t.op # "repost"
    <3>1. Keeps(x, y)
      BY <1>4, <2>1, <2>4 DEF CommitsTo, Sound, Decided, OnRow
    <3>2. x.status = "SETTLED" => y # Absent /\ y.pot = x.pot
      BY <3>1 DEF Keeps
    <3>3. Carried(t, x, y)
      BY <2>2, <3>1, <3>2 DEF Carried, Keeps, IsClosed
    <3>. QED
      BY <2>1, <3>3
  <2>. QED
    BY <2>3, <2>4
<1>5. CASE e \in t.held /\ t.op = "create"
  <2>1. R[e] = Absent /\ NewRow(t.after[e])
    BY <1>1, <1>5 DEF Sound, Holds, Shape
  <2>. QED
    BY <1>1, <1>5, <2>1 DEF Carried, NewRow, IsClosed
<1>6. CASE e \in t.held /\ t.op \in Marking
  <2>1. PICK x, y : /\ x \in Row /\ x = R[e] /\ y = N[e] /\ Looks(t, x) /\ y = Leaves(t, x)
                    /\ t.op # "sweep" => t.on \in Card
    BY <1>1, <1>6 DEF Sound, Holds, Marks, Shape, Marking
  <2>2. x # Absent
    BY <2>1, AbsentNotRow
  <2>3. x.pot = t.on => x.closed \/ t.op = "sweep"
    BY <1>6, <2>1, LeavesRow DEF Marking
  <2>4. /\ y \in Row /\ y # Absent
        /\ y.kind = x.kind /\ y.amount = x.amount /\ y.pot = x.pot /\ y.closed = x.closed
        /\ t.op = "pay" => /\ x.pot = t.on /\ x.closed /\ x.status \in {"OPEN", "VERIFYING"}
                           /\ y.status = "SETTLED"
        /\ t.op = "undo" => /\ x.pot = t.on /\ x.closed /\ x.status = "SETTLED"
                            /\ y.status = "OPEN"
        /\ t.op = "sweep" => /\ x.pot \in Account /\ x.status = "OPEN"
                             /\ y.status = "OVERDUE"
    BY <1>6, <2>1, LeavesRow
  <2>5. CASE t.op = "sweep"
    BY <2>1, <2>2, <2>4, <2>5, Pots DEF Carried, IsClosed
  <2>6. CASE t.op = "undo"
    BY <1>2, <2>1, <2>2, <2>4, <2>6 DEF Carried, IsClosed
  <2>7. CASE t.op = "pay"
    BY <1>2, <1>6, <2>1, <2>2, <2>4, <2>7 DEF Carried, IsClosed
  <2>. QED
    BY <1>6, <2>5, <2>6, <2>7 DEF Marking
<1>7. t.op \in {"none", "limit"} => t.held = {}
  BY NoTxFacts DEF Sound, Shape
<1>. QED
  BY <1>1, <1>3, <1>4, <1>5, <1>6, <1>7

(* What the closed rows of a card are worth stays the same. *)
LEMMA LeftSame ==
    ASSUME NEW t, t.op # "repost", NEW R, NEW N, \A e \in Entry : Carried(t, R[e], N[e]),
           NEW c \in Card
    PROVE  LeftIn(N, c) = LeftIn(R, c)
<1>1. \A e \in Entry : /\ e \in ClosedIn(N, c) <=> e \in ClosedIn(R, c)
                       /\ e \in ClosedIn(R, c) => AmountsIn(N)[e] = AmountsIn(R)[e]
  BY DEF ClosedIn, AmountsIn, Carried
<1>2. ClosedIn(N, c) = ClosedIn(R, c)
  <2>1. ClosedIn(N, c) \subseteq Entry /\ ClosedIn(R, c) \subseteq Entry
    BY DEF ClosedIn
  <2>. QED
    BY <1>1, <2>1
<1>3. \A e \in ClosedIn(R, c) : AmountsIn(N)[e] = AmountsIn(R)[e]
  BY <1>1 DEF ClosedIn
<1>4. Total(ClosedIn(R, c), AmountsIn(N), MaxAmount) = Total(ClosedIn(R, c), AmountsIn(R), MaxAmount)
  BY <1>3, TotalSame
<1>. QED
  BY <1>2, <1>4 DEF LeftIn, Sum

(* Rows that start from the same gain the same. *)
LEMMA GainFrom ==
    ASSUME NEW S \in SUBSET Entry, NEW R, NEW N, NEW A, NEW p, \A e \in S : R[e] = N[e]
    PROVE  Gain(S, N, A, p) = Gain(S, R, A, p)
<1>1. ASSUME NEW way \in Way PROVE Flow(S, R, p, way) = Flow(S, N, p, way)
  BY FlowSame
<1>. QED
  BY <1>1 DEF Gain, Way

(* The payments after a commit. *)
LEMMA PaymentsAfter ==
    ASSUME NEW t, NEW R, NEW V, NEW L, NEW P \in PaymentTable, NEW N, NEW W, NEW M, NEW Q,
           CommitsTo(t, R, V, L, P, N, W, M, Q), Sound(t, R, V, L, P)
    PROVE  /\ Q \in PaymentTable
           /\ t.op \notin {"pay", "undo"} => Q = P
           /\ t.op \in {"pay", "undo"} =>
                /\ t.on \in Card /\ t.pay \in Payment /\ \A c \in Card \ {t.on} : Q[c] = P[c]
           /\ t.op = "pay" => Q[t.on] = t.pay /\ P[t.on] = NoPayment
           /\ t.op = "undo" => Q[t.on] = NoPayment /\ P[t.on] = t.pay
<1>1. t.op \in {"pay", "undo"} => t.on \in Card /\ t.pay \in Payment
  BY DEF Sound, Shape
<1>2. CASE t.op = "pay"
  BY <1>1, <1>2 DEF CommitsTo, PaymentTable, Sound, Marks
<1>3. CASE t.op = "undo"
  BY <1>1, <1>3 DEF CommitsTo, PaymentTable, Sound, Marks
<1>4. CASE t.op \notin {"pay", "undo"}
  BY <1>4 DEF CommitsTo
<1>. QED
  BY <1>2, <1>3, <1>4

(* What another transaction knows stays true when t commits. *)
LEMMA OthersSound ==
    ASSUME NEW t, NEW R \in RowTable, NEW V, NEW L, NEW P \in PaymentTable,
           NEW N, NEW W, NEW M, NEW Q,
           CommitsTo(t, R, V, L, P, N, W, M, Q), Sound(t, R, V, L, P), Fits(R),
           NEW u \in Tx, Sound(u, R, V, L, P), Apart(t, u)
    PROVE  Sound(u, N, W, M, Q)
<1>1. u.held \subseteq Entry /\ u.wrote \subseteq Pot
  BY DEF Tx
<1>2. \A e \in u.held : N[e] = R[e]
  BY <1>1 DEF CommitsTo, Apart
<1>3. \A p \in u.wrote : W[p] = V[p]
  BY <1>1 DEF CommitsTo, Apart
<1>4. Shape(u) /\ Ascending(u)
  BY DEF Sound
<1>5. Holds(u, N)
  BY <1>2 DEF Sound, Holds
<1>6. Moves(u, W)
  BY <1>3 DEF Sound, Moves
<1>7. Decided(u, N)
  <2>1. ASSUME NEW p \in Pot PROVE Gain(u.held, N, u.after, p) = Gain(u.held, R, u.after, p)
    BY <1>1, <1>2, GainFrom
  <2>. QED
    BY <1>2, <2>1 DEF Sound, Decided
<1>8. Marks(u, N, Q)
  <2>1. u.op \in {"pay", "undo"} => u.on \in Card /\ Q[u.on] = P[u.on]
    <3>1. u.op \in {"pay", "undo"} => u.on \in Card
      BY DEF Sound, Shape
    <3>2. t.op \in {"pay", "undo"} /\ u.op \in {"pay", "undo"} => t.on # u.on
      BY DEF Apart
    <3>. QED
      BY <3>1, <3>2, PaymentsAfter
  <2>2. \A e \in Entry : Carried(t, R[e], N[e])
    BY RowsCarried
  <2>4. ASSUME u.op \in {"pay", "undo"}, NEW e \in SettledIn(N, u.on)
        PROVE  e \in SettledIn(R, u.on)
    <3>1. /\ e \in Entry /\ N[e] # Absent /\ N[e].pot = u.on /\ N[e].closed
          /\ N[e].status = "SETTLED" /\ u.on \in Card
      BY <2>1, <2>4 DEF SettledIn
    <3>2. ~(t.op = "pay" /\ t.on = u.on)
      BY <2>4 DEF Apart
    <3>3. R[e] # Absent /\ R[e].status = "SETTLED" /\ R[e].closed /\ R[e].pot = u.on
      BY <2>2, <3>1, <3>2 DEF Carried
    <3>. QED
      BY <3>1, <3>3 DEF SettledIn
  <2>5. u.op \in Marking => \A e \in u.held : Looks(u, N[e]) /\ u.after[e] = Leaves(u, N[e])
    BY <1>2 DEF Sound, Marks
  <2>6. /\ u.op = "pay" => Q[u.on] = NoPayment
        /\ u.op \in {"pay", "undo"} /\ u.todo \cup u.held # {} => u.pay.full
    BY <2>1 DEF Sound, Marks
  <2>7. u.op = "undo" => /\ Q[u.on] = u.pay
                         /\ u.pay.full /\ u.pc \in {"mark", "commit"} =>
                              SettledIn(N, u.on) \subseteq u.todo \cup u.held
    BY <2>1, <2>4 DEF Sound, Marks
  <2>. QED
    BY <2>5, <2>6, <2>7 DEF Marks
<1>9. Limits(u, W, M)
  <2>1. t.pc # "idle"
    BY DEF CommitsTo
  <2>. QED
    BY <2>1 DEF Limits, Apart
<1>. QED
  BY <1>4, <1>5, <1>6, <1>7, <1>8, <1>9 DEF Sound

(* Rows fit their cards after a commit. *)
LEMMA FitsAfter ==
    ASSUME NEW t, NEW R \in RowTable, NEW V, NEW L, NEW P, NEW N, NEW W, NEW M, NEW Q,
           CommitsTo(t, R, V, L, P, N, W, M, Q), Sound(t, R, V, L, P), Fits(R)
    PROVE  Fits(N)
  BY RowsCarried DEF Fits, Carried

(* The installments of a group stay of one kind. *)
LEMMA KindsAfter ==
    ASSUME NEW t, NEW R \in RowTable, NEW V, NEW L, NEW P, NEW N, NEW W, NEW M, NEW Q,
           CommitsTo(t, R, V, L, P, N, W, M, Q), Sound(t, R, V, L, P),
           Fits(R), OneKind(R)
    PROVE  OneKind(N)
<1>. SUFFICES ASSUME NEW g \in Group, NEW d \in g, NEW e \in g, N[d] # Absent, N[e] # Absent
              PROVE  N[d].kind = N[e].kind
  BY DEF OneKind
<1>0. g \subseteq Entry /\ d \in Entry /\ e \in Entry /\ GroupOf(d) = g /\ GroupOf(e) = g
  BY Groups
<1>1. \A x \in Entry : N[x] = IF x \in t.held THEN t.after[x] ELSE R[x]
  BY DEF CommitsTo
<1>2. Carried(t, R[d], N[d]) /\ Carried(t, R[e], N[e])
  BY <1>0, RowsCarried
<1>3. CASE R[d] # Absent /\ R[e] # Absent
  BY <1>2, <1>3 DEF Carried, OneKind
<1>4. CASE R[d] = Absent \/ R[e] = Absent
  <2>1. PICK x \in {d, e} : x \in t.held /\ R[x] = Absent
    BY <1>0, <1>1, <1>4
  <2>2. t.op = "create"
    <3>1. R[x] \notin Row
      BY <2>1, AbsentNotRow
    <3>. QED
      BY <2>1, <3>1 DEF Sound, Holds
  <2>3. t.held = g
    BY <1>0, <2>1, <2>2, Groups DEF Sound, Shape
  <2>. QED
    BY <1>0, <1>1, <2>2, <2>3 DEF Sound, Shape
<1>. QED
  BY <1>3, <1>4

(* The tables keep their types. *)
LEMMA TypesAfter ==
    ASSUME NEW t, NEW R, NEW V, NEW L, NEW P, NEW N, NEW W, NEW M, NEW Q, Types(R, V, L, P),
           CommitsTo(t, R, V, L, P, N, W, M, Q), Sound(t, R, V, L, P), Fits(R)
    PROVE  Types(N, W, M, Q)
<1>1. R \in RowTable /\ V \in [Pot -> Int] /\ L \in [Card -> 1..MaxLimit] /\ P \in PaymentTable
  BY DEF Types
<1>2. N \in RowTable
  <2>1. \A e \in Entry : N[e] \in Row \cup {Absent}
    BY <1>1, RowsCarried DEF Carried
  <2>. QED
    BY <2>1 DEF CommitsTo, RowTable
<1>3. W \in [Pot -> Int]
  BY <1>1 DEF CommitsTo, Tx
<1>4. M \in [Card -> 1..MaxLimit]
  BY <1>1 DEF CommitsTo, Sound, Shape
<1>5. Q \in PaymentTable
  BY <1>1, PaymentsAfter
<1>. QED
  BY <1>2, <1>3, <1>4, <1>5 DEF Types

(* A mass update moves nothing by itself: what it leaves counts as before. *)
LEMMA MarksGain ==
    ASSUME NEW t \in Tx, NEW R, NEW V, NEW L, NEW P, Sound(t, R, V, L, P), t.op \in Marking,
           NEW p \in Pot
    PROVE  Gain(t.held, R, t.after, p) = 0
<1>1. t.held \in SUBSET Entry
  BY DEF Tx
<1>2. ASSUME NEW e \in t.held, NEW way \in Way
      PROVE  Weight(R[e], p, way) = Weight(t.after[e], p, way)
  <2>1. R[e] \in Row /\ Looks(t, R[e]) /\ t.after[e] = Leaves(t, R[e])
    BY DEF Sound, Holds, Marks, Marking
  <2>2. t.op # "sweep" => t.on \in Card
    BY DEF Sound, Shape, Marking
  <2>. QED
    BY <2>1, <2>2, LeavesRow
<1>. QED
  BY <1>1, <1>2, GainNone

(* A payment takes from its account what it gives back to its card. *)
LEMMA PaymentMoves ==
    ASSUME NEW t \in Tx, NEW R, NEW V, NEW L \in [Card -> 1..MaxLimit], NEW P \in PaymentTable,
           NEW N, NEW W, NEW M, NEW Q, NEW p \in Pot,
           CommitsTo(t, R, V, L, P, N, W, M, Q), Sound(t, R, V, L, P), t.op \in {"pay", "undo"}
    PROVE  /\ Base(L, Q, p) = Base(L, P, p) + t.delta[p]
           /\ Base(L, P, p) \in Int
<1>1. /\ Q \in PaymentTable /\ t.on \in Card /\ t.pay \in Payment
      /\ \A c \in Card \ {t.on} : Q[c] = P[c]
      /\ t.op = "pay" => Q[t.on] = t.pay /\ P[t.on] = NoPayment
      /\ t.op = "undo" => Q[t.on] = NoPayment /\ P[t.on] = t.pay
  BY PaymentsAfter
<1>2. /\ t.pay # NoPayment /\ t.pay.account \in Account /\ t.pay.amount \in Int
      /\ NoPayment.amount = 0
  BY <1>1, Payments DEF NoPayment
<1>3. PICK n \in Int : n = t.pay.amount
  BY <1>2
<1>4. t.delta = [Zero EXCEPT ![t.pay.account] = IF t.op = "pay" THEN -n ELSE n,
                             ![t.on] = IF t.op = "pay" THEN n ELSE -n]
  BY <1>3 DEF Sound, Shape, PayDelta
<1>5. t.pay.account \notin Card /\ t.on \notin Account /\ t.pay.account # t.on
  BY <1>1, <1>2, Pots
<1>6. t.delta[p] = IF p = t.on THEN IF t.op = "pay" THEN n ELSE -n
                   ELSE IF p = t.pay.account THEN IF t.op = "pay" THEN -n ELSE n ELSE 0
  BY <1>4, <1>5 DEF Zero
<1>7. CASE p \in Card
  <2>1. L[p] \in Int /\ P[p].amount \in Int /\ Q[p].amount \in Int
    BY <1>1, <1>7, Payments, Sizes DEF PaymentTable
  <2>2. Q[p].amount = P[p].amount + t.delta[p]
    <3>1. CASE p # t.on
      <4>1. Q[p] = P[p] /\ t.delta[p] = 0
        BY <1>1, <1>5, <1>6, <1>7, <3>1
      <4>. QED
        BY <2>1, <4>1
    <3>2. CASE p = t.on /\ t.op = "pay"
      <4>1. Q[p].amount = n /\ P[p].amount = 0 /\ t.delta[p] = n
        BY <1>1, <1>2, <1>3, <1>6, <3>2
      <4>. QED
        BY <4>1
    <3>3. CASE p = t.on /\ t.op = "undo"
      <4>1. Q[p].amount = 0 /\ P[p].amount = n /\ t.delta[p] = -n
        BY <1>1, <1>2, <1>3, <1>6, <3>3
      <4>. QED
        BY <4>1
    <3>. QED
      BY <3>1, <3>2, <3>3
  <2>3. t.delta[p] \in Int
    BY <1>6
  <2>. QED
    BY <1>7, <2>1, <2>2, <2>3 DEF Base
<1>8. CASE p \notin Card
  <2>1. /\ PaidIn(Q, p) = PaidIn(P, p) - PaidBy(P[t.on], p) + PaidBy(Q[t.on], p)
        /\ PaidIn(P, p) \in Int /\ PaidBy(P[t.on], p) \in Int /\ PaidBy(Q[t.on], p) \in Int
    BY <1>1, PaidSwap
  <2>2. PaidBy(NoPayment, p) = 0 /\ PaidBy(t.pay, p) = IF p = t.pay.account THEN n ELSE 0
    BY <1>2, <1>3 DEF PaidBy
  <2>3. p # t.on
    BY <1>1, <1>8
  <2>4. t.op = "pay" \/ t.op = "undo"
    OBVIOUS
  <2>. QED
    BY <1>1, <1>6, <1>8, <2>1, <2>2, <2>3, <2>4 DEF Base
<1>. QED
  BY <1>7, <1>8

(* The balances and limits are still what entries and payments make them. *)
LEMMA KeptAfter ==
    ASSUME NEW t, NEW R, NEW V, NEW L, NEW P, NEW N, NEW W, NEW M, NEW Q, Types(R, V, L, P),
           CommitsTo(t, R, V, L, P, N, W, M, Q), Sound(t, R, V, L, P), Kept(R, V, L, P)
    PROVE  Kept(N, W, M, Q)
<1>1. /\ R \in RowTable /\ V \in [Pot -> Int] /\ L \in [Card -> 1..MaxLimit]
      /\ P \in PaymentTable
  BY DEF Types
<1>2. /\ t \in Tx /\ t.pc = "commit" /\ t.held \in SUBSET Entry
      /\ t.op \in OnRow \cup Marking \cup {"create", "limit"}
  <2>1. t \in Tx /\ t.pc = "commit"
    BY DEF CommitsTo
  <2>2. t.op # "none"
    BY <2>1, NoTxFacts DEF Sound, Shape
  <2>. QED
    BY <2>1, <2>2 DEF Tx, OnRow, Marking
<1>3. ASSUME NEW p \in Pot, Balanced(p, R, V, L, P), p \in Account \/ ~Overlap
      PROVE  Balanced(p, N, W, M, Q)
  <2>1. PICK g \in Int : /\ g = Gain(t.held, R, t.after, p)
                         /\ Flow(Entry, N, p, "in") - Flow(Entry, N, p, "out") =
                              Flow(Entry, R, p, "in") - Flow(Entry, R, p, "out") + g
    <3>1. \A e \in Entry : N[e] = IF e \in t.held THEN t.after[e] ELSE R[e]
      BY DEF CommitsTo
    <3>. QED
      BY <1>2, <3>1, GainRest
  <2>2. /\ Flow(Entry, N, p, "in") \in Int /\ Flow(Entry, N, p, "out") \in Int
        /\ Flow(Entry, R, p, "in") \in Int /\ Flow(Entry, R, p, "out") \in Int
    BY FlowType
  <2>3. /\ V[p] \in Int /\ t.delta[p] \in Int
        /\ V[p] = Base(L, P, p) + Flow(Entry, R, p, "in") - Flow(Entry, R, p, "out")
    BY <1>1, <1>2, <1>3 DEF Balanced, Tx
  <2>4. Base(L, P, p) \in Int
    <3>1. CASE p \in Card
      <4>1. L[p] \in Int /\ P[p].amount \in Int
        BY <1>1, <3>1, Payments, Sizes DEF PaymentTable
      <4>. QED
        BY <3>1, <4>1 DEF Base
    <3>2. CASE p \notin Card
      <4>1. PaidIn(P, p) \in Int
        BY Pots, Payments, TotalType DEF PaidIn
      <4>. QED
        BY <3>2, <4>1 DEF Base
    <3>. QED
      BY <3>1, <3>2
  <2>5. CASE t.op = "limit"
    <3>1. t.held = {} /\ t.on \in Card /\ t.wrote = {t.on} /\ t.newLimit \in 1..MaxLimit
      BY <1>2, <2>5 DEF Sound, Shape
    <3>2. g = 0
      BY <2>1, <3>1, GainNone
    <3>3. Q = P
      BY <1>1, <2>5, PaymentsAfter
    <3>4. M = [L EXCEPT ![t.on] = t.newLimit]
      BY <2>5 DEF CommitsTo
    <3>5. CASE p # t.on
      <4>1. W[p] = V[p]
        BY <3>1, <3>5 DEF CommitsTo
      <4>2. Base(M, Q, p) = Base(L, P, p)
        BY <1>1, <3>3, <3>4, <3>5 DEF Base
      <4>. QED
        BY <2>1, <2>2, <2>3, <2>4, <3>2, <4>1, <4>2 DEF Balanced
    <3>6. CASE p = t.on
      <4>1. ~Overlap
        BY <1>3, <3>1, <3>6, Pots
      <4>2. W[p] = t.draft[p]
        BY <3>1, <3>6 DEF CommitsTo
      <4>3. t.draft[p] = V[p] + (t.newLimit - L[p])
        BY <1>2, <2>5, <3>6, <4>1 DEF Sound, Limits
      <4>4. /\ Base(M, Q, p) = t.newLimit + P[p].amount /\ Base(L, P, p) = L[p] + P[p].amount
            /\ L[p] \in Int /\ t.newLimit \in Int /\ P[p].amount \in Int
        BY <1>1, <3>1, <3>3, <3>4, <3>6, Payments, Sizes DEF Base, PaymentTable
      <4>. QED
        BY <2>1, <2>2, <2>3, <3>2, <4>2, <4>3, <4>4 DEF Balanced
    <3>. QED
      BY <3>5, <3>6
  <2>6. CASE t.op # "limit"
    <3>1. M = L
      BY <2>6 DEF CommitsTo
    <3>2. W[p] = V[p] + t.delta[p]
      <4>1. CASE p \in t.wrote
        BY <2>6, <4>1 DEF CommitsTo, Sound, Moves
      <4>2. CASE p \notin t.wrote
        <5>1. t.delta[p] = 0
          BY <1>2, <2>6, <4>2 DEF Sound, Moves, Ascending
        <5>. QED
          BY <2>3, <4>2, <5>1 DEF CommitsTo
      <4>. QED
        BY <4>1, <4>2
    <3>3. Base(L, Q, p) + g = Base(L, P, p) + t.delta[p]
      <4>1. CASE t.op \in OnRow \cup {"create"}
        <5>1. Q = P
          BY <1>1, <4>1, PaymentsAfter DEF OnRow
        <5>2. g = t.delta[p]
          BY <1>2, <2>1, <4>1 DEF Sound, Decided
        <5>. QED
          BY <5>1, <5>2
      <4>2. CASE t.op = "sweep"
        <5>1. Q = P
          BY <1>1, <4>2, PaymentsAfter
        <5>2. g = 0
          BY <1>2, <2>1, <4>2, MarksGain DEF Marking
        <5>3. t.delta[p] = 0
          BY <4>2 DEF Sound, Shape, Zero
        <5>. QED
          BY <5>1, <5>2, <5>3
      <4>3. CASE t.op \in {"pay", "undo"}
        <5>1. g = 0
          BY <1>2, <2>1, <4>3, MarksGain DEF Marking
        <5>2. Base(L, Q, p) = Base(L, P, p) + t.delta[p]
          BY <1>1, <1>2, <4>3, PaymentMoves
        <5>. QED
          BY <2>3, <2>4, <5>1, <5>2
      <4>. QED
        BY <1>2, <2>6, <4>1, <4>2, <4>3 DEF Marking
    <3>4. Base(L, Q, p) \in Int
      <4>1. Base(L, Q, p) = Base(L, P, p) \/ Base(L, Q, p) = Base(L, P, p) + t.delta[p]
        BY <1>1, <1>2, PaymentMoves, PaymentsAfter
      <4>. QED
        BY <2>3, <2>4, <4>1
    <3>. QED
      BY <2>1, <2>2, <2>3, <2>4, <3>1, <3>2, <3>3, <3>4 DEF Balanced
  <2>. QED
    BY <2>5, <2>6
<1>4. Account \subseteq Pot /\ Card \subseteq Pot
  BY DEF Pot
<1>. QED
  BY <1>3, <1>4 DEF Kept

(* What a transaction wrote becomes visible at once. *)
LEMMA CommitInv ==
    ASSUME Inv, NEW r \in Request, Commit(r)
    PROVE  Inv'
<1>1. PICK R, V, L, P : R = row /\ V = value /\ L = limit /\ P = payment
  OBVIOUS
<1>2. PICK N, W, M, Q : N = row' /\ W = value' /\ M = limit' /\ Q = payment'
  OBVIOUS
<1>3. PICK t : t = tx[r]
  OBVIOUS
<1>4. /\ Types(R, V, L, P) /\ Fits(R) /\ OneKind(R) /\ Kept(R, V, L, P)
      /\ \A q \in Request : tx[q] \in Tx /\ Sound(tx[q], R, V, L, P)
      /\ \A p, q \in Request : p # q => Apart(tx[p], tx[q])
      /\ R \in RowTable /\ P \in PaymentTable
  BY <1>1 DEF Inv, Types
<1>5. CommitsTo(t, R, V, L, P, N, W, M, Q) /\ Sound(t, R, V, L, P)
  <2>1. t \in Tx /\ Sound(t, R, V, L, P)
    BY <1>3, <1>4
  <2>2. t.pc = "commit" /\ N = [e \in Entry |-> IF e \in t.held THEN t.after[e] ELSE R[e]]
    BY <1>1, <1>2, <1>3 DEF Commit
  <2>3. W = [p \in Pot |-> IF p \in t.wrote THEN t.draft[p] ELSE V[p]]
    BY <1>1, <1>2, <1>3 DEF Commit
  <2>4. M = IF t.op = "limit" THEN [L EXCEPT ![t.on] = t.newLimit] ELSE L
    BY <1>1, <1>2, <1>3 DEF Commit
  <2>5. Q = CASE t.op = "pay"  -> [P EXCEPT ![t.on] = t.pay]
              [] t.op = "undo" -> [P EXCEPT ![t.on] = NoPayment]
              [] OTHER -> P
    BY <1>1, <1>2, <1>3 DEF Commit
  <2>. QED
    BY <2>1, <2>2, <2>3, <2>4, <2>5 DEF CommitsTo
<1>6. /\ tx' \in [Request -> Tx]
      /\ \A q \in Request : tx'[q] = IF q = r THEN NoTx ELSE tx[q]
  BY NoTxFacts DEF Commit, Inv
<1>7. Types(N, W, M, Q)
  BY <1>4, <1>5, TypesAfter
<1>8. Fits(N)
  BY <1>4, <1>5, FitsAfter
<1>9. OneKind(N)
  BY <1>4, <1>5, KindsAfter
<1>10. Kept(N, W, M, Q)
  BY <1>4, <1>5, KeptAfter
<1>11. ASSUME NEW q \in Request PROVE Sound(tx'[q], N, W, M, Q)
  <2>1. CASE q = r
    BY <1>6, <2>1, NoTxFacts
  <2>2. CASE q # r
    <3>1. PICK u \in Tx : u = tx[q] /\ Sound(u, R, V, L, P) /\ Apart(t, u)
      BY <1>3, <1>4, <2>2
    <3>2. Sound(u, N, W, M, Q)
      BY <1>4, <1>5, <3>1, OthersSound
    <3>. QED
      BY <1>6, <2>2, <3>1, <3>2
  <2>. QED
    BY <2>1, <2>2
<1>12. ASSUME NEW p \in Request, NEW q \in Request, p # q PROVE Apart(tx'[p], tx'[q])
  <2>1. CASE p # r /\ q # r
    BY <1>4, <1>6, <1>12, <2>1
  <2>2. CASE p = r \/ q = r
    BY <1>6, <2>2, NoTxFacts DEF Apart
  <2>. QED
    BY <2>1, <2>2
<1>. QED
  BY <1>2, <1>6, <1>7, <1>8, <1>9, <1>10, <1>11, <1>12 DEF Inv

(* The closing of a statement on a day nothing else happens: rows count as *)
(* closed, and are worth the same.                                         *)
LEMMA CloseInv ==
    ASSUME Inv, NEW c \in Card, Close(c)
    PROVE  Inv'
<1>1. PICK S \in SUBSET {e \in Entry : Exists(e) /\ row[e].pot = c /\ ~row[e].closed} :
        row' = [e \in Entry |-> IF e \in S THEN [row[e] EXCEPT !.closed = TRUE] ELSE row[e]]
  BY DEF Close
<1>2. UNCHANGED <<value, limit, payment, tx>>
  BY DEF Close
<1>3. PICK R, V, L, P : R = row /\ V = value /\ L = limit /\ P = payment
  OBVIOUS
<1>4. PICK N : N = row'
  OBVIOUS
<1>5. /\ Types(R, V, L, P) /\ Fits(R) /\ OneKind(R) /\ Kept(R, V, L, P)
      /\ R \in RowTable
  BY <1>3 DEF Inv, Types
<1>6. \A e \in Entry : e \notin S => N[e] = R[e]
  BY <1>1, <1>3, <1>4
<1>7. \A e \in S : /\ e \in Entry /\ R[e] \in Row /\ R[e].pot = c /\ ~R[e].closed
                   /\ N[e] = [R[e] EXCEPT !.closed = TRUE]
  BY <1>1, <1>3, <1>4, <1>5 DEF RowTable, Exists
<1>8. \A e \in S : /\ N[e] \in Row /\ N[e] # Absent /\ R[e] # Absent
                   /\ N[e].kind = R[e].kind /\ N[e].status = R[e].status
                   /\ N[e].amount = R[e].amount /\ N[e].pot = R[e].pot
  <2>1. \A e \in S : /\ N[e] \in Row /\ N[e].kind = R[e].kind /\ N[e].status = R[e].status
                     /\ N[e].amount = R[e].amount /\ N[e].pot = R[e].pot
    BY <1>7 DEF Row
  <2>2. \A e \in S : N[e] # Absent /\ R[e] # Absent
    BY <1>7, <2>1, AbsentNotRow
  <2>. QED
    BY <2>1, <2>2
<1>9. Types(N, V, L, P)
  <2>1. N \in RowTable
    <3>1. \A e \in Entry : N[e] \in Row \cup {Absent}
      BY <1>5, <1>6, <1>8 DEF RowTable
    <3>. QED
      BY <1>1, <1>4, <3>1 DEF RowTable
  <2>. QED
    BY <1>5, <2>1 DEF Types
<1>10. Fits(N) /\ OneKind(N)
  <2>1. Fits(N)
    BY <1>5, <1>6, <1>8 DEF Fits
  <2>2. \A e \in Entry : N[e] # Absent => R[e] # Absent /\ N[e].kind = R[e].kind
    BY <1>6, <1>8
  <2>3. \A g \in Group : g \subseteq Entry
    BY Groups
  <2>. QED
    BY <1>5, <2>1, <2>2, <2>3 DEF OneKind
<1>12. Kept(N, V, L, P)
  <2>1. ASSUME NEW p \in Pot, NEW way \in Way PROVE Flow(Entry, N, p, way) = Flow(Entry, R, p, way)
    <3>1. ASSUME NEW e \in Entry PROVE Weight(R[e], p, way) = Weight(N[e], p, way)
      <4>1. CASE e \in S
        BY <1>8, <4>1 DEF Weight, Counts
      <4>2. CASE e \notin S
        BY <1>6, <4>2
      <4>. QED
        BY <4>1, <4>2
    <3>. QED
      BY <3>1, FlowSame
  <2>2. Account \subseteq Pot /\ Card \subseteq Pot
    BY DEF Pot
  <2>3. \A p \in Pot : Balanced(p, R, V, L, P) => Balanced(p, N, V, L, P)
    BY <2>1 DEF Balanced, Way
  <2>. QED
    BY <1>5, <2>2, <2>3 DEF Kept
<1>13. \A q \in Request : tx[q] = NoTx
  BY IdleTx DEF Close, Active
<1>14. \A q \in Request : Sound(tx[q], N, V, L, P)
  BY <1>13, NoTxFacts
<1>. QED
  BY <1>2, <1>3, <1>4, <1>9, <1>10, <1>12, <1>14 DEF Inv

(* Every step keeps the invariant. *)
LEMMA NextInv == Inv /\ [Next]_vars => Inv'
<1>. SUFFICES ASSUME Inv, [Next]_vars PROVE Inv'
  OBVIOUS
<1>1. ASSUME NEW r \in Request, Arrive(r) PROVE Inv'
  BY <1>1, CreateInv, SweepInv, OnEntryInv, PayInv, UndoInv, ChangeLimitInv DEF Arrive
<1>2. ASSUME NEW r \in Request, Step(r) PROVE Inv'
  BY <1>2, LockRowInv, MarkRowInv, ChangeStatusInv, UpdateExpenseInv, RepostExpenseInv,
     UpdateEarningInv,
     ChangePaymentMethodInv, DeleteInv, ApplyDeltaInv, LoadForUpdateInv, WriteLimitInv, CommitInv
  DEF Step
<1>3. ASSUME NEW r \in Request, Abort(r) PROVE Inv'
  BY <1>3, AbortInv
<1>4. ASSUME NEW c \in Card, Close(c) PROVE Inv'
  BY <1>4, CloseInv
<1>5. CASE UNCHANGED vars
  BY <1>5 DEF vars, Inv
<1>. QED
  BY <1>1, <1>2, <1>3, <1>4, <1>5 DEF Next

(* The invariant holds for any number of entries, accounts, cards and      *)
(* requests.                                                               *)
THEOREM Invariance == Spec => []Inv
<1>1. Init => Inv
  BY InitInv
<1>2. Inv /\ [Next]_vars => Inv'
  BY NextInv
<1>. QED
  BY <1>1, <1>2, PTL DEF Spec

-----------------------------------------------------------------------------
(* What the invariant says of the properties of the runs.                  *)

(* Whatever happens, the variables keep their types, and what is on a card *)
(* is an expense that is never overdue.                                    *)
THEOREM TypeCorrect == Spec => []TypeOK
<1>1. Inv => TypeOK
  BY DEF Inv, TypeOK, CardEntriesFit, Fits, Types, RowTable, PaymentTable, Exists
<1>. QED
  BY <1>1, Invariance, PTL

(* What an account has realized, as the reports add it up.                 *)
LEMMA Reported ==
    ASSUME Inv, NEW a \in Account
    PROVE  /\ Flow(Entry, row, a, "in") = Sum(EntriesOn(a, "earning", Realized), AmountOf)
           /\ Flow(Entry, row, a, "out") = Sum(EntriesOn(a, "expense", Realized), AmountOf)
           /\ PaidIn(payment, a) = PaidFrom(a)
<1>1. a \notin Card
  BY Pots
<1>2. Flow(Entry, row, a, "in") = Sum(EntriesOn(a, "earning", Realized), AmountOf)
  <2>. DEFINE T == EntriesOn(a, "earning", Realized)
  <2>1. \A e \in Entry : Weight(row[e], a, "in") = IF e \in T THEN AmountOf[e] ELSE 0
    BY <1>1 DEF EntriesOn, Exists, Weight, Counts, Realized, AmountOf
  <2>2. T \in SUBSET Entry
    BY DEF EntriesOn
  <2>. HIDE DEF T
  <2>3. Flow(Entry, row, a, "in") = Sum(T, AmountOf)
    BY <2>1, <2>2, FlowFilter
  <2>. QED
    BY <2>3 DEF T
<1>3. Flow(Entry, row, a, "out") = Sum(EntriesOn(a, "expense", Realized), AmountOf)
  <2>. DEFINE T == EntriesOn(a, "expense", Realized)
  <2>1. \A e \in Entry : Weight(row[e], a, "out") = IF e \in T THEN AmountOf[e] ELSE 0
    BY <1>1 DEF EntriesOn, Exists, Weight, Counts, Realized, AmountOf
  <2>2. T \in SUBSET Entry
    BY DEF EntriesOn
  <2>. HIDE DEF T
  <2>3. Flow(Entry, row, a, "out") = Sum(T, AmountOf)
    BY <2>1, <2>2, FlowFilter
  <2>. QED
    BY <2>3 DEF T
<1>4. PaidIn(payment, a) = PaidFrom(a)
  <2>. DEFINE T == {c \in Card : payment[c] # NoPayment /\ payment[c].account = a}
              A == [c \in Card |-> payment[c].amount]
  <2>1. \A c \in Card : PaidOn(payment, a)[c] = IF c \in T THEN A[c] ELSE 0
    BY DEF PaidOn, PaidBy
  <2>2. T \in SUBSET Card
    OBVIOUS
  <2>. HIDE DEF T, A
  <2>3. Total(T, A, MaxPayment) = Total(Card, PaidOn(payment, a), MaxPayment)
    BY <2>1, <2>2, Payments, TotalFilter
  <2>. QED
    BY <2>3 DEF PaidIn, PaidFrom, T, A
<1>. QED
  BY <1>2, <1>3, <1>4

(* Every entry of an account has moved or has still to move.               *)
LEMMA MovedOrPending ==
    ASSUME Inv, NEW a \in Account, NEW kind \in {"expense", "earning"}
    PROVE  /\ Sum(EntriesOn(a, kind, Status), AmountOf)
                = Sum(EntriesOn(a, kind, Realized), AmountOf) + PendingOn(a, kind)
           /\ Sum(EntriesOn(a, kind, Realized), AmountOf) \in Int /\ PendingOn(a, kind) \in Int
<1>. DEFINE X == EntriesOn(a, kind, Realized)
            Y == EntriesOn(a, kind, Pending)
<1>1. X \cap Y = {} /\ X \in SUBSET Entry /\ Y \in SUBSET Entry
  BY DEF EntriesOn, Realized, Pending
<1>2. EntriesOn(a, kind, Status) = X \cup Y
  BY DEF EntriesOn, Realized, Pending, Status
<1>. HIDE DEF X, Y
<1>3. IsFiniteSet(X) /\ IsFiniteSet(Y) /\ Sum(X, AmountOf) \in Nat /\ Sum(Y, AmountOf) \in Nat
  BY <1>1, SumType
<1>4. Total(X \cup Y, AmountOf, MaxAmount) = Total(X, AmountOf, MaxAmount) + Total(Y, AmountOf, MaxAmount)
  BY <1>1, <1>3, Sizes, TotalUnion
<1>5. PendingOn(a, kind) = Sum(Y, AmountOf)
  BY DEF PendingOn, Y
<1>6. Sum(X \cup Y, AmountOf) = Sum(X, AmountOf) + Sum(Y, AmountOf)
  BY <1>4 DEF Sum
<1>7. Sum(X, AmountOf) \in Int /\ Sum(Y, AmountOf) \in Int
  BY <1>3
<1>. QED
  BY <1>2, <1>5, <1>6, <1>7 DEF X

(* The balance of an account is what its settled entries and its standing  *)
(* statement payments come to, whatever runs at the same time, and the     *)
(* forecast counts every entry once; limits may change meanwhile.          *)
THEOREM BalancesAreKept == Spec => []BalanceKept
<1>1. Inv => BalanceKept
  <2>. SUFFICES ASSUME Inv, NEW a \in Account
                PROVE  /\ value[a] = RealizedBalance(a)
                       /\ ForecastBalance(a) = Sum(EntriesOn(a, "earning", Status), AmountOf)
                            - Sum(EntriesOn(a, "expense", Status), AmountOf) - PaidFrom(a)
    BY DEF BalanceKept
  <2>1. a \notin Card
    BY Pots
  <2>2. value[a] = -PaidIn(payment, a) + Flow(Entry, row, a, "in") - Flow(Entry, row, a, "out")
    BY <2>1 DEF Inv, Kept, Balanced, Base
  <2>3. PICK in \in Int, out \in Int, paid \in Int :
          /\ in = Sum(EntriesOn(a, "earning", Realized), AmountOf)
          /\ out = Sum(EntriesOn(a, "expense", Realized), AmountOf)
          /\ paid = PaidFrom(a)
    <3>1. PaidIn(payment, a) \in Int
      BY Pots, Payments, TotalType DEF PaidIn
    <3>. QED
      BY <3>1, MovedOrPending, Reported
  <2>4. value[a] = -paid + in - out
    BY <2>2, <2>3, Reported
  <2>5. value[a] = RealizedBalance(a)
    BY <2>3, <2>4 DEF RealizedBalance
  <2>6. /\ Sum(EntriesOn(a, "earning", Status), AmountOf) = in + PendingOn(a, "earning")
        /\ Sum(EntriesOn(a, "expense", Status), AmountOf) = out + PendingOn(a, "expense")
        /\ PendingOn(a, "earning") \in Int /\ PendingOn(a, "expense") \in Int
    BY <2>3, MovedOrPending
  <2>. QED
    BY <2>3, <2>4, <2>5, <2>6 DEF ForecastBalance
<1>. QED
  BY <1>1, Invariance, PTL

(* What was spent of a card is exactly its entries that are not forecasts  *)
(* less what was paid of them, whatever is posted anew, when whoever       *)
(* changes its total limit runs alone: EntriesOverlap shows that without   *)
(* this it fails.                                                          *)
THEOREM SpentIsKept == ASSUME ~Overlap PROVE Spec => []SpentKept
<1>1. Inv => SpentKept
  <2>. SUFFICES ASSUME Inv, NEW c \in Card
                PROVE  value[c] = limit[c] + payment[c].amount
                         - Sum({e \in Entry : Exists(e) /\ row[e].pot = c
                                                /\ row[e].status # "FORECAST"}, AmountOf)
    BY DEF SpentKept
  <2>1. c \notin Account
    BY Pots
  <2>2. value[c] = limit[c] + payment[c].amount + Flow(Entry, row, c, "in") - Flow(Entry, row, c, "out")
    BY DEF Inv, Kept, Balanced, Base
  <2>3. Flow(Entry, row, c, "in") = 0
    BY <2>1, FlowZero DEF Weight, Counts
  <2>. DEFINE T == {e \in Entry : Exists(e) /\ row[e].pot = c /\ row[e].status # "FORECAST"}
  <2>4. \A e \in Entry : Weight(row[e], c, "out") = IF e \in T THEN AmountOf[e] ELSE 0
    BY <2>1 DEF Exists, Weight, Counts, AmountOf
  <2>. HIDE DEF T
  <2>5. T \in SUBSET Entry
    BY DEF T
  <2>6. Flow(Entry, row, c, "out") = Sum(T, AmountOf)
    BY <2>4, <2>5, FlowFilter
  <2>7. limit[c] \in Int /\ payment[c].amount \in Int /\ Sum(T, AmountOf) \in Int
    <3>1. limit[c] \in Int /\ payment[c].amount \in Int
      BY Payments, Sizes DEF Inv, Types, PaymentTable
    <3>2. Sum(T, AmountOf) \in Nat
      BY <2>5, SumType
    <3>. QED
      BY <3>1, <3>2
  <2>. QED
    BY <2>2, <2>3, <2>6, <2>7 DEF T
<1>. QED
  BY <1>1, Invariance, PTL

(* Only a commit changes what is committed, whatever else a request does.  *)
LEMMA OnlyCommits ==
    ASSUME NEW r \in Request, Arrive(r) \/ Abort(r) \/ Step(r), ~Commit(r)
    PROVE  UNCHANGED <<row, value, limit, payment>>
<1>. DEFINE Same == UNCHANGED <<row, value, limit, payment>>
<1>1. \A t : Begin(r, t) => Same
  BY DEF Begin
<1>2. CASE Arrive(r)
  <2>1. CASE Create(r)
    BY <1>1, <2>1 DEF Create
  <2>2. CASE MarkOverdue(r)
    BY <1>1, <2>2 DEF MarkOverdue
  <2>3. CASE \E e \in Entry : OnEntry(r, e)
    BY <1>1, <2>3 DEF OnEntry
  <2>4. CASE \E c \in Card : Pay(r, c) \/ Undo(r, c) \/ ChangeLimit(r, c)
    BY <1>1, <2>4 DEF Pay, Undo, Paying, ChangeLimit
  <2>. QED
    BY <1>2, <2>1, <2>2, <2>3, <2>4 DEF Arrive
<1>3. CASE Step(r)
  BY <1>3 DEF Step, LockRow, MarkRow, ChangeStatus, UpdateExpense, RepostExpense,
     UpdateEarning, ChangePaymentMethod, Delete, Decide, ApplyDelta, LoadForUpdate, WriteLimit
<1>4. CASE Abort(r)
  BY <1>4 DEF Abort
<1>. QED
  BY <1>2, <1>3, <1>4

(* What is settled, or counts in a closed statement, keeps its amount and  *)
(* its account or card in every step and is never deleted: a step may only *)
(* settle it, put it back, or post it in another window.                   *)
THEOREM SettledIsFrozen == Spec => SettledFrozen
<1>. DEFINE Frozen ==
       \A e \in Entry :
         Exists(e) /\ (row[e].status = "SETTLED" \/ IsClosed(row[e])) =>
            /\ row'[e] # Absent
            /\ row'[e] = [row[e] EXCEPT !.status = row'[e].status, !.closed = row'[e].closed]
<1>1. ASSUME Inv, [Next]_vars PROVE Frozen \/ UNCHANGED row
  <2>1. ASSUME NEW r \in Request, Commit(r) PROVE Frozen
    <3>. SUFFICES ASSUME NEW e \in Entry, Exists(e), row[e].status = "SETTLED" \/ IsClosed(row[e])
                  PROVE  /\ row'[e] # Absent
                         /\ row'[e] = [row[e] EXCEPT !.status = row'[e].status,
                                                    !.closed = row'[e].closed]
      OBVIOUS
    <3>1. PICK t, R, V, L, P : t = tx[r] /\ R = row /\ V = value /\ L = limit /\ P = payment
      OBVIOUS
    <3>2. PICK N : N = [d \in Entry |-> IF d \in t.held THEN t.after[d] ELSE R[d]]
      OBVIOUS
    <3>3. PICK W, M, Q :
            /\ W = [p \in Pot |-> IF p \in t.wrote THEN t.draft[p] ELSE V[p]]
            /\ M = IF t.op = "limit" THEN [L EXCEPT ![t.on] = t.newLimit] ELSE L
            /\ Q = CASE t.op = "pay"  -> [P EXCEPT ![t.on] = t.pay]
                     [] t.op = "undo" -> [P EXCEPT ![t.on] = NoPayment]
                     [] OTHER -> P
      OBVIOUS
    <3>4. /\ t \in Tx /\ t.pc = "commit" /\ Sound(t, R, V, L, P) /\ Fits(R) /\ R \in RowTable
          /\ row' = N
      BY <1>1, <2>1, <3>1, <3>2 DEF Commit, Inv, Types
    <3>5. CommitsTo(t, R, V, L, P, N, W, M, Q)
      BY <3>2, <3>3, <3>4 DEF CommitsTo
    <3>6. Carried(t, R[e], N[e])
      BY <3>4, <3>5, RowsCarried
    <3>7. PICK x, y : x = R[e] /\ y = N[e]
      OBVIOUS
    <3>8. x \in Row /\ y \in Row /\ y # Absent
      BY <3>1, <3>4, <3>6, <3>7 DEF RowTable, Carried, Exists
    <3>9. y.amount = x.amount /\ y.pot = x.pot /\ y.kind = x.kind
      BY <3>1, <3>6, <3>7 DEF Carried, Exists
    <3>10. y = [x EXCEPT !.status = y.status, !.closed = y.closed]
      BY <3>8, <3>9 DEF Row
    <3>. QED
      BY <3>1, <3>4, <3>7, <3>8, <3>10
  <2>2. ASSUME NEW c \in Card, Close(c) PROVE Frozen
    <3>. SUFFICES ASSUME NEW e \in Entry, Exists(e), row[e].status = "SETTLED" \/ IsClosed(row[e])
                  PROVE  /\ row'[e] # Absent
                         /\ row'[e] = [row[e] EXCEPT !.status = row'[e].status,
                                                    !.closed = row'[e].closed]
      OBVIOUS
    <3>1. PICK S \in SUBSET {d \in Entry : Exists(d) /\ row[d].pot = c /\ ~row[d].closed} :
            row' = [d \in Entry |-> IF d \in S THEN [row[d] EXCEPT !.closed = TRUE] ELSE row[d]]
      BY <2>2 DEF Close
    <3>2. PICK x \in Row, y \in Row :
            /\ x = row[e] /\ y = row'[e]
            /\ y = x \/ y = [x EXCEPT !.closed = TRUE]
      <4>1. PICK x \in Row : x = row[e]
        BY <1>1 DEF Inv, Types, RowTable, Exists
      <4>2. x \in Row /\ [x EXCEPT !.closed = TRUE] \in Row
        BY DEF Row
      <4>. QED
        BY <3>1, <4>1, <4>2
    <3>3. y = [x EXCEPT !.status = y.status, !.closed = y.closed]
      BY <3>2 DEF Row
    <3>. QED
      BY <3>2, <3>3, AbsentNotRow
  <2>3. ASSUME NEW r \in Request, Arrive(r) \/ Abort(r) \/ Step(r), ~Commit(r)
        PROVE  UNCHANGED row
    BY <2>3, OnlyCommits
  <2>4. CASE UNCHANGED vars
    BY <2>4 DEF vars
  <2>. QED
    BY <1>1, <2>1, <2>2, <2>3, <2>4 DEF Next
<1>2. Inv /\ [Next]_vars => [Frozen]_row
  BY <1>1
<1>. QED
  BY <1>2, Invariance, PTL DEF Spec, SettledFrozen

-----------------------------------------------------------------------------
(* Waiting in a circle.                                                    *)

(* A set of the first n numbers has a largest one. *)
LEMMA Largest ==
    ASSUME NEW n \in Nat, NEW T \in SUBSET (1..n), T # {}
    PROVE  \E m \in T : \A x \in T : x <= m
<1>. DEFINE F == 1..n
            up(a) == {b \in F : b >= a}
            U == {up(a) : a \in T}
            R == StrictSubsetOrdering(F)
<1>1. IsFiniteSet(F)
  <2>1. 1 \in Int /\ n \in Int
    OBVIOUS
  <2>. QED
    BY <2>1, FS_Interval
<1>2. IsWellFoundedOn(R, SUBSET F)
  BY <1>1, FS_StrictSubsetOrderingWellFounded, FS_FiniteSubsetsOfFinite
<1>3. U \subseteq SUBSET F /\ U # {}
  OBVIOUS
<1>. HIDE DEF R
<1>4. PICK X \in U : \A Y \in U : <<Y, X>> \notin R
  BY <1>2, <1>3, WFMin, Zenon
<1>5. PICK m \in T : X = up(m)
  BY <1>4
<1>6. ASSUME NEW a \in T, a > m PROVE FALSE
  <2>1. up(a) \in U /\ up(a) \in SUBSET F /\ X \in SUBSET F
    BY <1>3
  <2>2. up(a) \subseteq X /\ m \in X /\ m \notin up(a)
    BY <1>5, <1>6
  <2>3. <<up(a), X>> \in R
    BY <2>1, <2>2 DEF R, StrictSubsetOrdering
  <2>. QED
    BY <1>4, <2>1, <2>3
<1>. QED
  BY <1>5, <1>6

(* A request that waits, other than to mark rows, either locks the rows of *)
(* its group, having moved nothing, or moves balances and limits, or holds *)
(* nothing at all; what it waits for comes after all it holds of the kind. *)
LEMMA WaitsUpwards ==
    ASSUME Inv, NEW q \in Request, NEW p \in Request, WaitsFor(q, p), tx[q].pc # "mark"
    PROVE  \/ /\ tx[q].wrote = {}
              /\ \E e \in tx[p].held : e \in Entry /\ \A h \in tx[q].held : h < e
           \/ \E m \in tx[p].wrote : m \in Pot /\ \A w \in tx[q].wrote : w < m
<1>1. tx[q] \in Tx /\ tx[p] \in Tx /\ Shape(tx[q]) /\ Ascending(tx[q])
  BY DEF Inv, Sound
<1>2. CASE tx[q].pc = "lock"
  <2>1. PICK e \in tx[q].todo : e \in tx[p].held
    BY <1>2 DEF WaitsFor
  <2>. QED
    BY <1>1, <1>2, <2>1 DEF Ascending, Tx
<1>3. CASE tx[q].pc = "move"
  <2>1. PICK m \in tx[q].pots : m \in tx[p].wrote
    BY <1>3 DEF WaitsFor
  <2>. QED
    BY <1>1, <1>3, <2>1 DEF Ascending, Tx
<1>4. CASE tx[q].pc = "write"
  <2>1. tx[q].on \in tx[p].wrote
    BY <1>4 DEF WaitsFor
  <2>2. tx[q].op = "limit"
    BY <1>1, <1>4 DEF Shape, Tx, OnRow, NoTx
  <2>3. tx[q].wrote = {}
    BY <1>1, <1>4, <2>2 DEF Shape
  <2>. QED
    BY <1>1, <2>1, <2>3 DEF Tx
<1>. QED
  BY <1>2, <1>3, <1>4 DEF WaitsFor

(* Rows are locked in the order of their ids and pots moved in ascending   *)
(* order, after the rows: requests that wait in a circle include a mass    *)
(* update, for any number of requests, entries, accounts and cards.        *)
THEOREM OnlyMarkersCloseCircles == Spec => []CirclesHaveAMarker
<1>1. Inv => CirclesHaveAMarker
  <2>. SUFFICES ASSUME Inv, NEW S \in (SUBSET Request) \ {{}},
                       \A r \in S : \E q \in S : WaitsFor(r, q),
                       ~\E r \in S : tx[r].pc = "mark"
                PROVE  FALSE
    BY Zenon DEF CirclesHaveAMarker
  <2>. DEFINE T == {m \in Pot : \E q \in S : m \in tx[q].wrote}
              H == {e \in Entry : \E q \in S : e \in tx[q].held}
  <2>1. \A q \in S : \E p \in S :
          \/ /\ tx[q].wrote = {}
             /\ \E e \in tx[p].held : e \in Entry /\ \A h \in tx[q].held : h < e
          \/ \E m \in tx[p].wrote : m \in Pot /\ \A w \in tx[q].wrote : w < m
    BY WaitsUpwards
  <2>2. ASSUME T # {} PROVE FALSE
    <3>1. PICK m \in T : \A x \in T : x <= m
      <4>1. T \in SUBSET (1..(NumAccounts + NumCards)) /\ NumAccounts + NumCards \in Nat
        BY Sizes DEF Pot, Account, Card
      <4>. QED
        BY <2>2, <4>1, Largest
    <3>2. PICK q \in S : m \in tx[q].wrote
      BY <3>1
    <3>3. PICK p \in S : \E x \in tx[p].wrote : x \in Pot /\ \A w \in tx[q].wrote : w < x
      BY <2>1, <3>2
    <3>4. PICK x \in tx[p].wrote : x \in Pot /\ m < x
      BY <3>2, <3>3
    <3>5. x \in T
      BY <3>4
    <3>. QED
      BY <3>1, <3>4, <3>5, Pots
  <2>3. ASSUME T = {}, H # {} PROVE FALSE
    <3>1. PICK h \in H : \A x \in H : x <= h
      <4>1. H \in SUBSET (1..NumEntries) /\ NumEntries \in Nat
        BY Sizes DEF Entry
      <4>. QED
        BY <2>3, <4>1, Largest
    <3>2. PICK q \in S : h \in tx[q].held
      BY <3>1
    <3>3. PICK p \in S : \E x \in tx[p].held : x \in Entry /\ \A y \in tx[q].held : y < x
      BY <2>1, <2>3, <3>2
    <3>4. PICK x \in tx[p].held : x \in Entry /\ h < x
      BY <3>2, <3>3
    <3>5. x \in H
      BY <3>4
    <3>. QED
      BY <3>1, <3>4, <3>5, Pots
  <2>4. ASSUME T = {}, H = {} PROVE FALSE
    <3>1. PICK q \in S : TRUE
      OBVIOUS
    <3>2. PICK p \in S : (\E e \in tx[p].held : e \in Entry) \/ (\E m \in tx[p].wrote : m \in Pot)
      BY <2>1
    <3>3. (\E e \in Entry : e \in H) \/ (\E m \in Pot : m \in T)
      BY <3>2
    <3>. QED
      BY <2>4, <3>3
  <2>. QED
    BY <2>2, <2>3, <2>4
<1>. QED
  BY <1>1, Invariance, PTL

-----------------------------------------------------------------------------
(* The book: what each transaction will have done at its commit.           *)

(* The rows of H that go with the group. *)
Unsettled(R, H) == {e \in H : R[e].status # "SETTLED" /\ ~IsClosed(R[e])}

(* What an operation on entry d leaves in N where R was, of the rows H it  *)
(* holds.                                                                  *)
Entered(H, N) ==
    \E kind \in {"expense", "earning"}, status \in {"FORECAST", "OPEN", "VERIFYING"},
       p \in Pot : \E amounts \in Split(H) :
        /\ kind = "earning" => p \in Account
        /\ \A e \in H : N[e] = [kind |-> kind, status |-> status, amount |-> amounts[e],
                                pot |-> p, closed |-> FALSE]

Restated(d, H, R, N) ==
    \E to \in AllowedTransitions[R[d].status] :
        /\ R[d].pot \in Card => /\ "SETTLED" \notin {R[d].status, to}
                                /\ R[d].status = "FORECAST" => ~R[d].closed
        /\ \A e \in H : N[e] = IF e = d THEN [R[e] EXCEPT !.status = to] ELSE R[e]

Amended(d, H, R, N) ==
    /\ R[d].kind = "expense" /\ R[d].status # "SETTLED" /\ ~R[d].closed
    /\ \E new \in Amount :
        \A e \in H : N[e] = IF e = d THEN [R[e] EXCEPT !.amount = new] ELSE R[e]

Reposted(d, H, R, N) ==
    /\ R[d].pot \in Card
    /\ \A e \in H : N[e] = IF e = d THEN [R[e] EXCEPT !.closed = FALSE] ELSE R[e]

Taken(d, H, R, N, amount, a, T) ==
    /\ T = {d} \/ T = H
    /\ a # R[d].pot => T = H
    /\ \A e \in H :
         N[e] = IF e = d THEN [R[e] EXCEPT !.amount = amount, !.pot = a]
                ELSE IF e \in T /\ R[e].status # "SETTLED" THEN [R[e] EXCEPT !.pot = a]
                ELSE R[e]

Reassigned(d, H, R, N) ==
    /\ R[d].kind = "earning" /\ R[d].status # "SETTLED"
    /\ \E amount \in Amount, a \in Account : \E T : Taken(d, H, R, N, amount, a, T)

Relocated(d, H, R, N) ==
    /\ R[d].kind = "expense" /\ d \in Unsettled(R, H)
    /\ \E dest \in Pot \ {R[d].pot} :
        \A e \in H :
            N[e] = IF e \notin Unsettled(R, H) \/ R[e].pot = dest THEN R[e]
                   ELSE IF dest \in Card THEN OnCard(R[e], dest)
                   ELSE [R[e] EXCEPT !.pot = dest, !.closed = FALSE]

Deleted(d, H, R, N) ==
    /\ d \in Unsettled(R, H)
    /\ \A e \in H : N[e] = IF e \in Unsettled(R, H) THEN Absent ELSE R[e]

(* What an operation op on d leaves. *)
Leaving(op, d, H, R, N) ==
    /\ op = "create" => Entered(H, N)
    /\ op \in OnRow => d \in H
    /\ op = "status" => Restated(d, H, R, N)
    /\ op = "update" => Amended(d, H, R, N) \/ Reassigned(d, H, R, N)
    /\ op = "repost" => Reposted(d, H, R, N)
    /\ op = "method" => Relocated(d, H, R, N)
    /\ op = "delete" => Deleted(d, H, R, N)

Outcome(t, R) ==
    t.pc \in {"move", "commit"} => Leaving(t.op, t.on, t.held, R, t.after)

(* An operation on a whole group misses no row of it. *)
Wide(t, R) ==
    \/ t.op \in {"method", "delete"}
    \/ t.op = "update" /\ R[t.on] # Absent /\ R[t.on].kind = "earning"
Whole(t, R) ==
    Wide(t, R) /\ t.on \in t.todo \cup t.held =>
        \A e \in GroupOf(t.on) : R[e] # Absent => e \in t.todo \cup t.held

(* A payment is of at most what remains, it knows whether it leaves        *)
(* nothing, and then it misses no closed row that is not settled already.  *)
Dues(t, R) ==
    t.op = "pay" =>
        /\ t.pay.amount <= LeftIn(R, t.on)
        /\ t.pay.full <=> t.pay.amount = LeftIn(R, t.on)
        /\ t.pay.full /\ t.pc \in {"mark", "commit"} =>
             \A e \in ClosedIn(R, t.on) : R[e].status # "SETTLED" => e \in t.todo \cup t.held

Meant(t, R) == Outcome(t, R) /\ Whole(t, R) /\ Dues(t, R)

(* Nobody has seen the rows a request inserts. *)
Unseen(t, u) == t.op = "create" => t.held \cap (u.todo \cup u.held) = {}

Meaning ==
    /\ \A r \in Request : Meant(tx[r], row)
    /\ \A r, q \in Request : r # q => Unseen(tx[r], tx[q])

(* A request that has not begun means nothing. *)
LEMMA NoTxMeant == \A R, u : Meant(NoTx, R) /\ Unseen(NoTx, u) /\ Unseen(u, NoTx)
<1>1. /\ NoTx.op = "none" /\ NoTx.pc = "idle" /\ NoTx.held = {} /\ NoTx.todo = {}
  BY NoTxFacts
<1>. QED
  BY <1>1 DEF Meant, Outcome, Whole, Wide, Dues, Unseen

(* What is left depends on the rows held alone. *)
LEMMA LeavingSame ==
    ASSUME NEW op, NEW d, NEW H, NEW R, NEW N, NEW S, NEW M,
           \A e \in H : R[e] = S[e] /\ N[e] = M[e],
           Leaving(op, d, H, R, N)
    PROVE  Leaving(op, d, H, S, M)
<1>1. Unsettled(R, H) = Unsettled(S, H)
  BY DEF Unsettled
<1>2. op \in OnRow => d \in H /\ R[d] = S[d]
  BY DEF Leaving
<1>3. ASSUME op = "create" PROVE Entered(H, M)
  <2>1. PICK kind \in {"expense", "earning"}, status \in {"FORECAST", "OPEN", "VERIFYING"},
             p \in Pot : \E amounts \in Split(H) :
          /\ kind = "earning" => p \in Account
          /\ \A e \in H : N[e] = [kind |-> kind, status |-> status, amount |-> amounts[e],
                                  pot |-> p, closed |-> FALSE]
    BY <1>3 DEF Leaving, Entered
  <2>2. PICK amounts \in Split(H) :
          /\ kind = "earning" => p \in Account
          /\ \A e \in H : N[e] = [kind |-> kind, status |-> status, amount |-> amounts[e],
                                  pot |-> p, closed |-> FALSE]
    BY <2>1
  <2>3. \A e \in H : M[e] = [kind |-> kind, status |-> status, amount |-> amounts[e],
                             pot |-> p, closed |-> FALSE]
    BY <2>2
  <2>. QED
    BY <2>2, <2>3 DEF Entered
<1>4. op = "status" => Restated(d, H, S, M)
  BY <1>2 DEF Leaving, Restated, OnRow
<1>5. ASSUME op = "update" PROVE Amended(d, H, S, M) \/ Reassigned(d, H, S, M)
  <2>1. CASE Amended(d, H, R, N)
    BY <1>2, <1>5, <2>1 DEF Amended, OnRow
  <2>2. CASE Reassigned(d, H, R, N)
    <3>1. PICK amount \in Amount, a \in Account : \E T : Taken(d, H, R, N, amount, a, T)
      BY <2>2 DEF Reassigned
    <3>2. PICK T : Taken(d, H, R, N, amount, a, T)
      BY <3>1
    <3>3. R[d] = S[d]
      BY <1>2, <1>5 DEF OnRow
    <3>4. Taken(d, H, S, M, amount, a, T)
      BY <3>2, <3>3 DEF Taken
    <3>5. S[d].kind = "earning" /\ S[d].status # "SETTLED"
      BY <2>2, <3>3 DEF Reassigned
    <3>. QED
      BY <3>4, <3>5 DEF Reassigned
  <2>. QED
    BY <1>5, <2>1, <2>2 DEF Leaving
<1>6. ASSUME op = "method" PROVE Relocated(d, H, S, M)
  <2>1. Relocated(d, H, R, N) /\ R[d] = S[d]
    BY <1>2, <1>6 DEF Leaving, OnRow
  <2>2. PICK dest \in Pot \ {R[d].pot} :
          \A e \in H :
              N[e] = IF e \notin Unsettled(R, H) \/ R[e].pot = dest THEN R[e]
                     ELSE IF dest \in Card THEN OnCard(R[e], dest)
                     ELSE [R[e] EXCEPT !.pot = dest, !.closed = FALSE]
    BY <2>1 DEF Relocated
  <2>3. \A e \in H :
           M[e] = IF e \notin Unsettled(S, H) \/ S[e].pot = dest THEN S[e]
                  ELSE IF dest \in Card THEN OnCard(S[e], dest)
                  ELSE [S[e] EXCEPT !.pot = dest, !.closed = FALSE]
    BY <1>1, <2>2
  <2>4. S[d].kind = "expense" /\ d \in Unsettled(S, H) /\ dest \in Pot \ {S[d].pot}
    BY <1>1, <2>1 DEF Relocated
  <2>. QED
    BY <2>3, <2>4 DEF Relocated
<1>7. op = "delete" => Deleted(d, H, S, M)
  BY <1>1 DEF Leaving, Deleted
<1>8. op = "repost" => Reposted(d, H, S, M)
  BY <1>2 DEF Leaving, Reposted, OnRow
<1>. QED
  BY <1>2, <1>3, <1>4, <1>5, <1>6, <1>7, <1>8 DEF Leaving

(* A step that changes the record of one transaction only: it takes rows   *)
(* that are there, or inserts some that nobody has seen.                   *)
LEMMA RecordMeant ==
    ASSUME Inv, Meaning, NEW r \in Request, NEW t, tx' = [tx EXCEPT ![r] = t], row' = row,
           Meant(t, row),
           t.op = "create" => \A q \in Request \ {r} : t.held \cap (tx[q].todo \cup tx[q].held) = {},
           \A e \in t.todo \cup t.held :
               t.op = "create" \/ e \in tx[r].todo \cup tx[r].held \/ Exists(e),
           t.op = "create" => t.todo = {}
    PROVE  Meaning'
<1>2. \A q \in Request : tx'[q] = IF q = r THEN t ELSE tx[q]
  BY DEF Inv
<1>3. ASSUME NEW q \in Request PROVE Meant(tx'[q], row')
  BY <1>2 DEF Meaning
<1>4. ASSUME NEW p \in Request, NEW q \in Request, p # q PROVE Unseen(tx'[p], tx'[q])
  <2>1. CASE p = r
    BY <1>2, <1>4, <2>1 DEF Unseen
  <2>2. CASE q = r
    <3>1. tx'[p] = tx[p] /\ tx'[q] = t /\ Unseen(tx[p], tx[r]) /\ Holds(tx[p], row)
      BY <1>2, <1>4, <2>2 DEF Meaning, Inv, Sound
    <3>2. ASSUME tx[p].op = "create", NEW e \in tx[p].held, e \in t.todo \cup t.held PROVE FALSE
      <4>1. row[e] = Absent /\ e \notin tx[r].todo \cup tx[r].held
        BY <3>1, <3>2 DEF Holds, Unseen
      <4>2. t.op = "create" /\ e \in t.held
        BY <3>2, <4>1 DEF Exists
      <4>. QED
        BY <1>4, <2>2, <3>2, <4>2
    <3>. QED
      BY <3>1, <3>2 DEF Unseen
  <2>3. CASE p # r /\ q # r
    BY <1>2, <1>4, <2>3 DEF Meaning
  <2>. QED
    BY <2>1, <2>2, <2>3
<1>. QED
  BY <1>3, <1>4 DEF Meaning

-----------------------------------------------------------------------------
(* Requests that begin. *)

(* The record of a request whose operation has only begun. *)
LEMMA BeginMeant ==
    ASSUME Inv, Meaning, NEW r \in Request, NEW t, Begin(r, t), Meant(t, row),
           t.op # "create", \A e \in t.todo \cup t.held : Exists(e)
    PROVE  Meaning'
  BY RecordMeant DEF Begin

(* A purchase or an earning begins with the installments of its split, and *)
(* with rows nobody has seen.                                              *)
LEMMA CreateMeant ==
    ASSUME Inv, Meaning, NEW r \in Request, Create(r)
    PROVE  Meaning'
<1>0. PICK g \in Group, kind \in {"expense", "earning"},
           status \in {"FORECAST", "OPEN", "VERIFYING"}, d \in Pot : \E amounts \in Split(g) :
        LET moves == d \in Card /\ status # "FORECAST" IN
        /\ Fresh(g)
        /\ kind = "earning" => d \in Account
        /\ Begin(r, [NoTx EXCEPT
             !.pc = IF moves THEN "move" ELSE "commit", !.op = "create", !.held = g,
             !.after = [e \in Entry |->
                          IF e \in g THEN [kind |-> kind, status |-> status,
                                           amount |-> amounts[e], pot |-> d, closed |-> FALSE]
                          ELSE Absent],
             !.pots = IF moves THEN {d} ELSE {},
             !.delta = IF moves THEN [Zero EXCEPT ![d] = -Sum(g, amounts)] ELSE Zero])
  BY DEF Create
<1>1. PICK amounts \in Split(g) :
        LET moves == d \in Card /\ status # "FORECAST" IN
        /\ Fresh(g)
        /\ kind = "earning" => d \in Account
        /\ Begin(r, [NoTx EXCEPT
             !.pc = IF moves THEN "move" ELSE "commit", !.op = "create", !.held = g,
             !.after = [e \in Entry |->
                          IF e \in g THEN [kind |-> kind, status |-> status,
                                           amount |-> amounts[e], pot |-> d, closed |-> FALSE]
                          ELSE Absent],
             !.pots = IF moves THEN {d} ELSE {},
             !.delta = IF moves THEN [Zero EXCEPT ![d] = -Sum(g, amounts)] ELSE Zero])
  BY <1>0
<1>2. PICK N : N = [e \in Entry |->
                      IF e \in g THEN [kind |-> kind, status |-> status,
                                       amount |-> amounts[e], pot |-> d, closed |-> FALSE]
                      ELSE Absent]
  OBVIOUS
<1>3. PICK pc, pots, delta :
        Begin(r, [NoTx EXCEPT !.pc = pc, !.op = "create", !.held = g, !.after = N,
                              !.pots = pots, !.delta = delta])
  BY <1>1, <1>2
<1>4. PICK t : t = [NoTx EXCEPT !.pc = pc, !.op = "create", !.held = g, !.after = N,
                                !.pots = pots, !.delta = delta]
  OBVIOUS
<1>5. t.pc = pc /\ t.op = "create" /\ t.held = g /\ t.after = N /\ t.todo = {}
  BY <1>4 DEF NoTx
<1>6. g \subseteq Entry
  BY Groups
<1>7. \A e \in g : N[e] = [kind |-> kind, status |-> status, amount |-> amounts[e],
                           pot |-> d, closed |-> FALSE]
  BY <1>2, <1>6
<1>8. Entered(g, N)
  <2>1. kind = "earning" => d \in Account
    BY <1>1
  <2>. QED
    BY <1>7, <2>1 DEF Entered
<1>9. Meant(t, row)
  BY <1>5, <1>8 DEF Meant, Outcome, Leaving, Whole, Wide, Dues, OnRow
<1>10. \A q \in Request : t.held \cap (tx[q].todo \cup tx[q].held) = {}
  BY <1>1, <1>5 DEF Fresh
<1>11. tx' = [tx EXCEPT ![r] = t] /\ row' = row
  BY <1>3, <1>4 DEF Begin
<1>. QED
  BY <1>5, <1>9, <1>10, <1>11, RecordMeant

(* An operation on a whole group begins with every row of it that is there. *)
LEMMA OnEntryMeant ==
    ASSUME Inv, Meaning, NEW r \in Request, NEW e \in Entry, OnEntry(r, e)
    PROVE  Meaning'
<1>1. PICK op \in OnRow :
        /\ Exists(e)
        /\ op = "repost" => row[e].kind = "expense"
        /\ Begin(r, [NoTx EXCEPT
             !.pc = "lock", !.op = op, !.on = e,
             !.todo = IF \/ op = "status"
                         \/ op \in {"update", "repost"} /\ row[e].kind = "expense"
                      THEN {e} ELSE {x \in GroupOf(e) : Exists(x)}])
  BY DEF OnEntry, OnRow
<1>2. PICK todo : todo = IF \/ op = "status"
                            \/ op \in {"update", "repost"} /\ row[e].kind = "expense"
                         THEN {e} ELSE {x \in GroupOf(e) : Exists(x)}
  OBVIOUS
<1>3. PICK t : t = [NoTx EXCEPT !.pc = "lock", !.op = op, !.on = e, !.todo = todo]
  OBVIOUS
<1>4. t.pc = "lock" /\ t.op = op /\ t.on = e /\ t.todo = todo /\ t.held = {}
  BY <1>3 DEF NoTx
<1>5. Whole(t, row)
  BY <1>1, <1>2, <1>4 DEF Whole, Wide, Exists
<1>6. Meant(t, row)
  BY <1>4, <1>5 DEF Meant, Outcome, Dues, OnRow
<1>7. \A x \in t.todo \cup t.held : Exists(x)
  BY <1>1, <1>2, <1>4
<1>. QED
  BY <1>1, <1>2, <1>3, <1>4, <1>6, <1>7, BeginMeant DEF OnRow

(* The sweep begins with rows that are there. *)
LEMMA SweepMeant ==
    ASSUME Inv, Meaning, NEW r \in Request, MarkOverdue(r)
    PROVE  Meaning'
<1>1. PICK todo \in SUBSET {e \in Entry : Exists(e)} :
        Begin(r, [NoTx EXCEPT !.pc = "mark", !.op = "sweep", !.todo = todo])
  BY DEF MarkOverdue
<1>2. PICK t : t = [NoTx EXCEPT !.pc = "mark", !.op = "sweep", !.todo = todo]
  OBVIOUS
<1>3. t.pc = "mark" /\ t.op = "sweep" /\ t.todo = todo /\ t.held = {}
  BY <1>2 DEF NoTx
<1>4. Meant(t, row) /\ \A e \in t.todo \cup t.held : Exists(e)
  BY <1>1, <1>3 DEF Meant, Outcome, Whole, Wide, Dues
<1>. QED
  BY <1>1, <1>2, <1>3, <1>4, BeginMeant

(* A change of a total limit is about no row. *)
LEMMA ChangeLimitMeant ==
    ASSUME Inv, Meaning, NEW r \in Request, NEW c \in Card, ChangeLimit(r, c)
    PROVE  Meaning'
<1>1. PICK new \in 1..MaxLimit :
        Begin(r, [NoTx EXCEPT !.pc = "load", !.op = "limit", !.on = c, !.newLimit = new])
  BY DEF ChangeLimit
<1>2. PICK t : t = [NoTx EXCEPT !.pc = "load", !.op = "limit", !.on = c, !.newLimit = new]
  OBVIOUS
<1>3. t.pc = "load" /\ t.op = "limit" /\ t.todo = {} /\ t.held = {}
  BY <1>2 DEF NoTx
<1>4. Meant(t, row)
  BY <1>3 DEF Meant, Outcome, Whole, Wide, Dues
<1>. QED
  BY <1>1, <1>2, <1>3, <1>4, BeginMeant

(* A payment begins with at most what remains, an undoing with what stands. *)
LEMMA PayMeant ==
    ASSUME Inv, Meaning, NEW r \in Request, NEW c \in Card, Pay(r, c) \/ Undo(r, c)
    PROVE  Meaning'
<1>1. PICK op, y, dir :
        /\ op \in {"pay", "undo"}
        /\ Paying(r, op, c, y, dir)
        /\ op = "pay" => y.amount <= Remaining(c) /\ (y.full <=> y.amount = Remaining(c))
  <2>1. CASE Pay(r, c)
    <3>1. PICK account \in Account, amount \in 1..MaxPayment :
            /\ amount <= Remaining(c)
            /\ Paying(r, "pay", c, [account |-> account, amount |-> amount,
                                    full |-> amount = Remaining(c)], 1)
      BY <2>1 DEF Pay
    <3>2. PICK y : y = [account |-> account, amount |-> amount, full |-> amount = Remaining(c)]
      OBVIOUS
    <3>3. y.amount = amount /\ (y.full <=> amount = Remaining(c))
      BY <3>2
    <3>. QED
      BY <3>1, <3>2, <3>3
  <2>2. CASE Undo(r, c)
    BY <2>2 DEF Undo
  <2>. QED
    BY <2>1, <2>2
<1>2. PICK pots, delta :
        Begin(r, [NoTx EXCEPT !.pc = "move", !.op = op, !.on = c, !.pay = y,
                              !.pots = pots, !.delta = delta])
  BY <1>1 DEF Paying
<1>3. PICK t : t = [NoTx EXCEPT !.pc = "move", !.op = op, !.on = c, !.pay = y,
                                !.pots = pots, !.delta = delta]
  OBVIOUS
<1>4. t.pc = "move" /\ t.op = op /\ t.on = c /\ t.pay = y /\ t.todo = {} /\ t.held = {}
  BY <1>3 DEF NoTx
<1>5. Meant(t, row)
  BY <1>1, <1>4, OfTables DEF Meant, Outcome, Leaving, Whole, Wide, Dues, OnRow
<1>. QED
  BY <1>1, <1>2, <1>3, <1>4, <1>5, BeginMeant

-----------------------------------------------------------------------------
(* Requests that go on. *)

(* A request that goes on with its operation.                              *)
LEMMA GoesOnMeant ==
    ASSUME Inv, Meaning, NEW r \in Request, NEW t, tx' = [tx EXCEPT ![r] = t], row' = row,
           Meant(t, row), t.op = tx[r].op,
           t.op = "create" => t.held = tx[r].held /\ t.todo = {},
           \A e \in t.todo \cup t.held : e \in tx[r].todo \cup tx[r].held \/ Exists(e)
    PROVE  Meaning'
<1>1. ASSUME t.op = "create", NEW q \in Request \ {r}
      PROVE  t.held \cap (tx[q].todo \cup tx[q].held) = {}
  BY <1>1 DEF Meaning, Unseen
<1>. QED
  BY <1>1, RecordMeant

(* A row that is passed over is not there. *)
LEMMA LockRowMeant ==
    ASSUME Inv, Meaning, NEW r \in Request, NEW e \in Entry, LockRow(r, e)
    PROVE  Meaning'
<1>1. PICK u \in Tx : u = tx[r] /\ u.pc = "lock" /\ e \in u.todo /\ u.op \in OnRow /\ Whole(u, row)
  BY StageOp DEF LockRow, Meaning, Meant
<1>2. PICK t : t = [u EXCEPT !.todo = u.todo \ {e},
                             !.held = IF Exists(e) THEN u.held \cup {e} ELSE u.held,
                             !.pc = IF u.todo = {e} THEN "decide" ELSE "lock"]
  OBVIOUS
<1>3. tx' = [tx EXCEPT ![r] = t] /\ row' = row
  BY <1>1, <1>2 DEF LockRow, Inv
<1>4. /\ t.pc \in {"lock", "decide"} /\ t.op = u.op /\ t.on = u.on /\ t.todo = u.todo \ {e}
      /\ t.held = (IF Exists(e) THEN u.held \cup {e} ELSE u.held)
  BY <1>1, <1>2 DEF Tx
<1>5. Whole(t, row)
  BY <1>1, <1>4 DEF Whole, Wide, Exists
<1>6. Meant(t, row)
  BY <1>1, <1>4, <1>5 DEF Meant, Outcome, Dues, OnRow
<1>7. \A x \in t.todo \cup t.held : x \in u.todo \cup u.held
  BY <1>1, <1>4
<1>. QED
  BY <1>1, <1>3, <1>4, <1>6, <1>7, GoesOnMeant DEF OnRow

(* A decision leaves what its operation says. *)
LEMMA DecideMeant ==
    ASSUME Inv, Meaning, NEW r \in Request, NEW op \in OnRow, Deciding(r, op),
           NEW new, NEW delta, Decide(r, new, delta),
           Leaving(op, tx[r].on, tx[r].held, row, new)
    PROVE  Meaning'
<1>1. PICK u \in Tx : /\ u = tx[r] /\ u.pc = "decide" /\ u.op = op /\ Whole(u, row)
                      /\ u.held \subseteq Entry
  BY StageOp DEF Deciding, Meaning, Meant, Tx
<1>2. PICK N : N = [e \in Entry |-> IF e \in u.held THEN new[e] ELSE Absent]
  OBVIOUS
<1>3. PICK pots, pc : tx' = [tx EXCEPT ![r].after = N, ![r].delta = delta, ![r].pots = pots,
                                       ![r].pc = pc]
  BY <1>1, <1>2 DEF Decide
<1>4. PICK t : t = [u EXCEPT !.after = N, !.delta = delta, !.pots = pots, !.pc = pc]
  OBVIOUS
<1>5. tx' = [tx EXCEPT ![r] = t] /\ row' = row
  BY <1>1, <1>3, <1>4 DEF Decide, Inv
<1>6. /\ t.op = op /\ t.on = u.on /\ t.todo = u.todo /\ t.held = u.held /\ t.after = N
  BY <1>1, <1>4 DEF Tx
<1>7. Leaving(op, t.on, t.held, row, N)
  <2>1. \A e \in u.held : N[e] = new[e]
    BY <1>1, <1>2
  <2>. QED
    BY <1>1, <1>6, <2>1, LeavingSame
<1>8. Whole(t, row)
  BY <1>1, <1>6 DEF Whole, Wide
<1>9. Meant(t, row)
  BY <1>6, <1>7, <1>8 DEF Meant, Outcome, Dues, OnRow
<1>. QED
  BY <1>1, <1>5, <1>6, <1>9, GoesOnMeant DEF OnRow

(* Each operation on an entry decides what it means. *)
LEMMA ChangeStatusMeant ==
    ASSUME Inv, Meaning, NEW r \in Request, ChangeStatus(r)
    PROVE  Meaning'
<1>1. PICK d, H : d = tx[r].on /\ H = tx[r].held /\ d \in H /\ Deciding(r, "status")
  BY DEF ChangeStatus, Deciding
<1>2. PICK to, delta :
        /\ to \in AllowedTransitions[row[d].status]
        /\ row[d].pot \in Card => /\ "SETTLED" \notin {row[d].status, to}
                                  /\ row[d].status = "FORECAST" => ~row[d].closed
        /\ Decide(r, [row EXCEPT ![d].status = to], delta)
  BY <1>1 DEF ChangeStatus
<1>3. PICK new : new = [row EXCEPT ![d].status = to]
  OBVIOUS
<1>4. \A e \in H : e \in Entry /\ row[e] \in Row
  BY <1>1, HeldRows DEF OnRow
<1>5. row \in RowTable
  BY DEF Inv, Types
<1>6. \A e \in H : new[e] = IF e = d THEN [row[e] EXCEPT !.status = to] ELSE row[e]
  BY <1>3, <1>4, <1>5 DEF RowTable
<1>7. Restated(d, H, row, new)
  BY <1>2, <1>6 DEF Restated
<1>8. Leaving("status", d, H, row, new)
  BY <1>1, <1>7 DEF Leaving
<1>. QED
  BY <1>1, <1>2, <1>3, <1>8, DecideMeant DEF OnRow

(* An expense alone takes its new amount. *)
LEMMA UpdateExpenseMeant ==
    ASSUME Inv, Meaning, NEW r \in Request, UpdateExpense(r)
    PROVE  Meaning'
<1>1. PICK d, H : d = tx[r].on /\ H = tx[r].held /\ d \in H /\ Deciding(r, "update")
  BY DEF UpdateExpense, Deciding
<1>2. PICK amount, delta :
        amount \in Amount /\ Decide(r, [row EXCEPT ![d].amount = amount], delta)
  BY <1>1 DEF UpdateExpense
<1>3. PICK new : new = [row EXCEPT ![d].amount = amount]
  OBVIOUS
<1>4. \A e \in H : e \in Entry /\ row[e] \in Row
  BY <1>1, HeldRows DEF OnRow
<1>5. row \in RowTable
  BY DEF Inv, Types
<1>6. \A e \in H : new[e] = IF e = d THEN [row[e] EXCEPT !.amount = amount] ELSE row[e]
  BY <1>3, <1>4, <1>5 DEF RowTable
<1>7. Amended(d, H, row, new)
  BY <1>1, <1>2, <1>6 DEF Amended, UpdateExpense
<1>8. Leaving("update", d, H, row, new)
  BY <1>1, <1>7 DEF Leaving
<1>. QED
  BY <1>1, <1>2, <1>3, <1>8, DecideMeant DEF OnRow

(* An earning takes its new amount, and its group the new account. *)
LEMMA UpdateEarningMeant ==
    ASSUME Inv, Meaning, NEW r \in Request, UpdateEarning(r)
    PROVE  Meaning'
<1>1. PICK d, H : d = tx[r].on /\ H = tx[r].held /\ d \in H /\ Deciding(r, "update")
  BY DEF UpdateEarning, Deciding
<1>2. PICK amount \in Amount, a \in Account, given \in BOOLEAN :
        /\ ~given => a = row[d].pot
        /\ Decide(r, [e \in H |->
                        IF e = d THEN [row[e] EXCEPT !.amount = amount, !.pot = a]
                        ELSE IF given /\ row[e].status # "SETTLED"
                        THEN [row[e] EXCEPT !.pot = a] ELSE row[e]], Zero)
  BY <1>1 DEF UpdateEarning
<1>3. PICK new : new = [e \in H |->
                     IF e = d THEN [row[e] EXCEPT !.amount = amount, !.pot = a]
                     ELSE IF given /\ row[e].status # "SETTLED"
                     THEN [row[e] EXCEPT !.pot = a] ELSE row[e]]
  OBVIOUS
<1>5. PICK T : T = IF given THEN H ELSE {d}
  OBVIOUS
<1>6. \A e \in H : new[e] = IF e = d THEN [row[e] EXCEPT !.amount = amount, !.pot = a]
                            ELSE IF e \in T /\ row[e].status # "SETTLED"
                            THEN [row[e] EXCEPT !.pot = a] ELSE row[e]
  BY <1>3, <1>5
<1>7. Reassigned(d, H, row, new)
  <2>1. row[d].kind = "earning" /\ row[d].status # "SETTLED"
    BY <1>1 DEF UpdateEarning
  <2>2. Taken(d, H, row, new, amount, a, T)
    <3>1. (T = {d} \/ T = H) /\ (a # row[d].pot => T = H)
      BY <1>2, <1>5
    <3>. QED
      BY <1>6, <3>1 DEF Taken
  <2>. QED
    BY <2>1, <2>2 DEF Reassigned
<1>8. Leaving("update", d, H, row, new)
  BY <1>1, <1>7 DEF Leaving
<1>9. Decide(r, new, Zero)
  BY <1>2, <1>3
<1>. QED
  BY <1>1, <1>8, <1>9, DecideMeant DEF OnRow

(* An expense posted anew is in the open window. *)
LEMMA RepostExpenseMeant ==
    ASSUME Inv, Meaning, NEW r \in Request, RepostExpense(r)
    PROVE  Meaning'
<1>1. PICK d, H : d = tx[r].on /\ H = tx[r].held /\ d \in H /\ Deciding(r, "repost")
  BY DEF RepostExpense, Deciding
<1>2. PICK new : new = [row EXCEPT ![d].closed = FALSE]
  OBVIOUS
<1>3. Decide(r, new, Zero) /\ row[d].pot \in Card
  BY <1>1, <1>2 DEF RepostExpense
<1>4. \A e \in H : e \in Entry /\ row[e] \in Row
  BY <1>1, HeldRows DEF OnRow
<1>5. row \in RowTable
  BY DEF Inv, Types
<1>6. \A e \in H : new[e] = IF e = d THEN [row[e] EXCEPT !.closed = FALSE] ELSE row[e]
  BY <1>2, <1>4, <1>5 DEF RowTable
<1>7. Leaving("repost", d, H, row, new)
  BY <1>1, <1>3, <1>6 DEF Leaving, Reposted
<1>. QED
  BY <1>1, <1>3, <1>7, DecideMeant DEF OnRow

(* The rows of the group not at the destination move there. *)
LEMMA ChangePaymentMethodMeant ==
    ASSUME Inv, Meaning, NEW r \in Request, ChangePaymentMethod(r)
    PROVE  Meaning'
<1>1. PICK d, H : d = tx[r].on /\ H = tx[r].held /\ d \in H /\ Deciding(r, "method")
  BY DEF ChangePaymentMethod, Deciding
<1>2. PICK U : U = Loose(r) /\ U = Unsettled(row, H)
  BY <1>1 DEF Loose, Unsettled
<1>3. row[d].kind = "expense" /\ d \in U
  BY <1>1, <1>2 DEF ChangePaymentMethod
<1>4. PICK dest, delta :
        /\ dest \in Pot \ {row[d].pot}
        /\ Decide(r, [e \in H |->
                        IF e \notin {x \in U : row[x].pot # dest} THEN row[e]
                        ELSE IF dest \in Card THEN OnCard(row[e], dest)
                        ELSE [row[e] EXCEPT !.pot = dest, !.closed = FALSE]], delta)
  BY <1>1, <1>2 DEF ChangePaymentMethod
<1>5. PICK new : new = [e \in H |->
                     IF e \notin {x \in U : row[x].pot # dest} THEN row[e]
                     ELSE IF dest \in Card THEN OnCard(row[e], dest)
                     ELSE [row[e] EXCEPT !.pot = dest, !.closed = FALSE]]
  OBVIOUS
<1>6. \A e \in H : new[e] = IF e \notin U \/ row[e].pot = dest THEN row[e]
                            ELSE IF dest \in Card THEN OnCard(row[e], dest)
                            ELSE [row[e] EXCEPT !.pot = dest, !.closed = FALSE]
  BY <1>5
<1>7. Relocated(d, H, row, new)
  BY <1>2, <1>3, <1>4, <1>6 DEF Relocated
<1>8. Leaving("method", d, H, row, new)
  BY <1>1, <1>7 DEF Leaving
<1>. QED
  BY <1>1, <1>4, <1>5, <1>8, DecideMeant DEF OnRow

(* The unsettled rows of the group go. *)
LEMMA DeleteMeant ==
    ASSUME Inv, Meaning, NEW r \in Request, Delete(r)
    PROVE  Meaning'
<1>1. PICK d, H : d = tx[r].on /\ H = tx[r].held /\ d \in H /\ Deciding(r, "delete")
  BY DEF Delete, Deciding
<1>2. PICK U : U = Loose(r) /\ U = Unsettled(row, H)
  BY <1>1 DEF Loose, Unsettled
<1>3. PICK delta : d \in U /\ Decide(r, [e \in H |-> IF e \in U THEN Absent ELSE row[e]], delta)
  BY <1>1, <1>2 DEF Delete
<1>5. PICK new : new = [e \in H |-> IF e \in U THEN Absent ELSE row[e]]
  OBVIOUS
<1>6. \A e \in H : new[e] = IF e \in U THEN Absent ELSE row[e]
  BY <1>5
<1>7. Deleted(d, H, row, new)
  BY <1>2, <1>3, <1>6 DEF Deleted
<1>8. Leaving("delete", d, H, row, new)
  BY <1>1, <1>7 DEF Leaving
<1>. QED
  BY <1>1, <1>3, <1>5, <1>8, DecideMeant DEF OnRow

(* All the closed rows of a card that are not settled wait for a payment. *)
LEMMA ClosedWait ==
    ASSUME NEW R \in RowTable, Fits(R), NEW t, t.op = "pay", t.on \in Card,
           NEW e \in ClosedIn(R, t.on), R[e].status # "SETTLED"
    PROVE  R[e] # Absent /\ Looks(t, R[e])
<1>1. /\ e \in Entry /\ R[e] # Absent /\ R[e].pot = t.on /\ R[e].closed
      /\ R[e].status # "FORECAST" /\ R[e] \in Row
  BY DEF ClosedIn, IsClosed, RowTable
<1>2. R[e].status # "OVERDUE"
  BY <1>1 DEF Fits
<1>3. R[e].status \in Status
  BY <1>1 DEF Row
<1>. QED
  BY <1>1, <1>2, <1>3 DEF Looks, Status

(* A payment that marks passes over no closed row that is not settled. *)
LEMMA MarkRowMeant ==
    ASSUME Inv, Meaning, NEW r \in Request, NEW e \in Entry, MarkRow(r, e)
    PROVE  Meaning'
<1>1. PICK u \in Tx : /\ u = tx[r] /\ u.pc = "mark" /\ u.op \in Marking /\ e \in u.todo
                      /\ Dues(u, row) /\ Sound(u, row, value, limit, payment)
  BY StageOp DEF MarkRow, Meaning, Meant
<1>2. PICK hit : hit = (row[e] # Absent /\ Looks(u, row[e]))
  OBVIOUS
<1>3. PICK y, pc :
        /\ pc \in {"mark", "commit"} /\ row' = row
        /\ tx' = [tx EXCEPT ![r].todo = @ \ {e},
                            ![r].held = IF hit THEN @ \cup {e} ELSE @,
                            ![r].after[e] = y,
                            ![r].pc = pc]
  <2>1. hit = (Exists(e) /\ Matches(r, row[e]))
    BY <1>1, <1>2, OfTables DEF Exists
  <2>2. PICK y : y = IF hit THEN Marked(r, row[e]) ELSE Absent
    OBVIOUS
  <2>3. PICK pc \in {"mark", "commit"} : pc = IF tx[r].todo = {e} THEN "commit" ELSE "mark"
    OBVIOUS
  <2>4. /\ row' = row
        /\ tx' = [tx EXCEPT ![r].todo = @ \ {e},
                            ![r].held = IF hit THEN @ \cup {e} ELSE @,
                            ![r].after[e] = y,
                            ![r].pc = pc]
    BY <2>1, <2>2, <2>3 DEF MarkRow
  <2>. QED
    BY <2>4
<1>4. PICK t : t = [u EXCEPT !.todo = u.todo \ {e},
                             !.held = IF hit THEN u.held \cup {e} ELSE u.held,
                             !.after = [u.after EXCEPT ![e] = y],
                             !.pc = pc]
  OBVIOUS
<1>5. tx' = [tx EXCEPT ![r] = t]
  <2>1. tx \in [Request -> Tx]
    BY DEF Inv
  <2>. QED
    BY <1>1, <1>3, <1>4, <2>1 DEF Tx
<1>6. /\ t.pc = pc /\ t.op = u.op /\ t.on = u.on /\ t.todo = u.todo \ {e} /\ t.pay = u.pay
      /\ t.held = (IF hit THEN u.held \cup {e} ELSE u.held)
  BY <1>1, <1>4 DEF Tx
<1>7. Dues(t, row)
  <2>. SUFFICES ASSUME u.op = "pay", u.pay.full,
                       NEW x \in ClosedIn(row, u.on), row[x].status # "SETTLED"
                PROVE  x \in t.todo \cup t.held
    BY <1>1, <1>6 DEF Dues
  <2>1. x \in u.todo \cup u.held
    BY <1>1 DEF Dues
  <2>2. row[x] # Absent /\ Looks(u, row[x])
    <3>1. row \in RowTable /\ Fits(row) /\ u.on \in Card
      BY <1>1 DEF Inv, Types, Sound, Shape
    <3>. QED
      BY <3>1, ClosedWait
  <2>3. CASE x = e
    BY <1>2, <1>6, <2>2, <2>3
  <2>4. CASE x # e
    BY <1>6, <2>1, <2>4
  <2>. QED
    BY <2>3, <2>4
<1>8. Meant(t, row)
  BY <1>1, <1>6, <1>7 DEF Meant, Outcome, Leaving, Whole, Wide, OnRow, Marking
<1>9. \A x \in t.todo \cup t.held : x \in u.todo \cup u.held
  BY <1>1, <1>6
<1>. QED
  BY <1>1, <1>3, <1>5, <1>6, <1>8, <1>9, GoesOnMeant DEF Marking

(* A payment that leaves nothing looks for all the closed rows. *)
LEMMA ApplyDeltaMeant ==
    ASSUME Inv, Meaning, NEW r \in Request, NEW p \in Pot, ApplyDelta(r, p)
    PROVE  Meaning'
<1>1. PICK u \in Tx :
        /\ u = tx[r] /\ Sound(u, row, value, limit, payment) /\ Meant(u, row)
        /\ u.pc = "move" /\ u.op \in OnRow \cup {"create", "pay", "undo"}
  BY StageOp DEF ApplyDelta, Meaning
<1>2. PICK todo : todo = IF u.pots = {p} THEN Found(r) ELSE {}
  OBVIOUS
<1>3. PICK amount, pc :
        /\ row' = row
        /\ pc = IF u.pots # {p} THEN "move" ELSE IF todo = {} THEN "commit" ELSE "mark"
        /\ tx' = [tx EXCEPT ![r].draft[p] = amount, ![r].wrote = @ \cup {p}, ![r].pots = @ \ {p},
                            ![r].todo = todo, ![r].pc = pc]
  BY <1>1, <1>2 DEF ApplyDelta, Moved
<1>4. PICK t : t = [u EXCEPT !.draft = [u.draft EXCEPT ![p] = amount], !.wrote = u.wrote \cup {p},
                             !.pots = u.pots \ {p}, !.todo = todo, !.pc = pc]
  OBVIOUS
<1>5. tx' = [tx EXCEPT ![r] = t]
  <2>1. tx \in [Request -> Tx]
    BY DEF Inv
  <2>. QED
    BY <1>1, <1>3, <1>4, <2>1 DEF Tx
<1>6. /\ t.pc = pc /\ t.op = u.op /\ t.on = u.on /\ t.todo = todo /\ t.pay = u.pay
      /\ t.held = u.held /\ t.after = u.after
  BY <1>1, <1>4 DEF Tx
<1>7. u.todo = {} /\ (u.op \in {"pay", "undo"} => u.held = {})
  BY <1>1 DEF Sound, Ascending, Shape
<1>8. \A x \in todo : Exists(x)
  BY <1>2 DEF Found
<1>9. u.op \notin {"pay", "undo"} => todo = {}
  BY <1>1, <1>2 DEF Found
<1>10. Outcome(t, row)
  <2>1. Leaving(u.op, u.on, u.held, row, u.after)
    BY <1>1 DEF Meant, Outcome
  <2>. QED
    BY <1>6, <2>1 DEF Outcome
<1>11. Whole(t, row)
  <2>1. CASE u.op \in {"pay", "undo"}
    BY <1>6, <2>1 DEF Whole, Wide
  <2>2. CASE u.op \notin {"pay", "undo"}
    BY <1>1, <1>6, <1>7, <1>9, <2>2 DEF Meant, Whole, Wide
  <2>. QED
    BY <2>1, <2>2
<1>12. Dues(t, row)
  <2>. SUFFICES ASSUME u.op = "pay" PROVE Dues(t, row)
    BY <1>6 DEF Dues
  <2>1. /\ u.pay.amount <= LeftIn(row, u.on)
        /\ u.pay.full <=> u.pay.amount = LeftIn(row, u.on)
    BY <1>1 DEF Meant, Dues
  <2>2. ASSUME pc \in {"mark", "commit"}, u.pay.full,
               NEW x \in ClosedIn(row, u.on), row[x].status # "SETTLED"
        PROVE  x \in todo
    <3>1. todo = Found(r)
      BY <1>2, <1>3, <2>2
    <3>2. row[x] # Absent /\ Looks(u, row[x]) /\ x \in Entry
      <4>1. row \in RowTable /\ Fits(row) /\ u.on \in Card
        BY <1>1 DEF Inv, Types, Sound, Shape
      <4>. QED
        BY <2>2, <4>1, ClosedWait DEF ClosedIn
    <3>. QED
      BY <1>1, <2>2, <3>1, <3>2, OfTables DEF Found, Exists
  <2>. QED
    BY <1>6, <2>1, <2>2 DEF Dues
<1>13. Meant(t, row)
  BY <1>10, <1>11, <1>12 DEF Meant
<1>. QED
  BY <1>1, <1>3, <1>5, <1>6, <1>7, <1>8, <1>9, <1>13, GoesOnMeant

(* A change of a limit, and what is given up, is about no row. *)
LEMMA LimitMeant ==
    ASSUME Inv, Meaning, NEW r \in Request, LoadForUpdate(r) \/ WriteLimit(r) \/ Abort(r)
    PROVE  Meaning'
<1>1. CASE Abort(r)
  <2>1. tx' = [tx EXCEPT ![r] = NoTx] /\ row' = row
    BY <1>1 DEF Abort
  <2>. QED
    BY <2>1, NoTxMeant, NoTxFacts, RecordMeant
<1>2. CASE LoadForUpdate(r) \/ WriteLimit(r)
  <2>1. PICK u \in Tx : u = tx[r] /\ u.op = "limit" /\ u.todo = {} /\ u.held = {}
    BY <1>2, StageOp DEF LoadForUpdate, WriteLimit, Sound, Shape
  <2>2. PICK t : /\ tx' = [tx EXCEPT ![r] = t] /\ row' = row
                 /\ t.op = u.op /\ t.todo = u.todo /\ t.held = u.held
    <3>0. tx \in [Request -> Tx]
      BY DEF Inv
    <3>1. CASE LoadForUpdate(r)
      <4>1. PICK amount : tx' = [tx EXCEPT ![r].draft[tx[r].on] = amount, ![r].pc = "write"] /\ row' = row
        BY <3>1 DEF LoadForUpdate
      <4>2. PICK t : t = [u EXCEPT !.draft = [u.draft EXCEPT ![u.on] = amount], !.pc = "write"]
        OBVIOUS
      <4>3. tx' = [tx EXCEPT ![r] = t]
        BY <2>1, <3>0, <4>1, <4>2 DEF Tx
      <4>4. t.op = u.op /\ t.todo = u.todo /\ t.held = u.held
        BY <2>1, <4>2 DEF Tx
      <4>. QED
        BY <4>1, <4>3, <4>4
    <3>2. CASE WriteLimit(r)
      <4>2. PICK t : t = [u EXCEPT !.wrote = {u.on}, !.pc = "commit"]
        OBVIOUS
      <4>3. tx' = [tx EXCEPT ![r] = t] /\ row' = row
        BY <2>1, <3>0, <3>2, <4>2 DEF WriteLimit, Tx
      <4>4. t.op = u.op /\ t.todo = u.todo /\ t.held = u.held
        BY <2>1, <4>2 DEF Tx
      <4>. QED
        BY <4>3, <4>4
    <3>. QED
      BY <1>2, <3>1, <3>2
  <2>3. Meant(t, row)
    BY <2>1, <2>2 DEF Meant, Outcome, Leaving, Whole, Wide, Dues, OnRow
  <2>. QED
    BY <2>1, <2>2, <2>3, GoesOnMeant
<1>. QED
  BY <1>1, <1>2

-----------------------------------------------------------------------------
(* Requests that end. *)

(* The closed rows of a card are the same ones after a commit. *)
LEMMA ClosedSame ==
    ASSUME NEW t, t.op # "repost", NEW R, NEW N, \A e \in Entry : Carried(t, R[e], N[e]),
           NEW c \in Card
    PROVE  ClosedIn(N, c) = ClosedIn(R, c)
<1>1. \A e \in Entry : e \in ClosedIn(N, c) <=> e \in ClosedIn(R, c)
  BY DEF ClosedIn, Carried
<1>2. ClosedIn(N, c) \subseteq Entry /\ ClosedIn(R, c) \subseteq Entry
  BY DEF ClosedIn
<1>. QED
  BY <1>1, <1>2

(* What another request means stays so when t commits. *)
LEMMA OthersMeant ==
    ASSUME ~Overlap, NEW t, NEW R \in RowTable, NEW V, NEW L, NEW P \in PaymentTable,
           NEW N, NEW W, NEW M, NEW Q,
           CommitsTo(t, R, V, L, P, N, W, M, Q), Sound(t, R, V, L, P), Fits(R),
           NEW u \in Tx, Sound(u, R, V, L, P), Apart(t, u), Unseen(t, u), Meant(u, R)
    PROVE  Meant(u, N)
<1>1. \A e \in Entry : Carried(t, R[e], N[e])
  BY RowsCarried
<1>2. \A e \in u.held : N[e] = R[e]
  BY DEF CommitsTo, Apart, Tx
<1>3. Outcome(u, N)
  <2>. SUFFICES ASSUME u.pc \in {"move", "commit"}
                PROVE  Leaving(u.op, u.on, u.held, N, u.after)
    BY DEF Outcome
  <2>1. Leaving(u.op, u.on, u.held, R, u.after)
    BY DEF Meant, Outcome
  <2>. QED
    BY <1>2, <2>1, LeavingSame
<1>4. Whole(u, N)
  <2>. SUFFICES ASSUME Wide(u, N), u.on \in u.todo \cup u.held,
                       NEW e \in GroupOf(u.on), N[e] # Absent
                PROVE  e \in u.todo \cup u.held
    BY DEF Whole
  <2>1. u.on \in Entry /\ u.op \in OnRow
    BY DEF Wide, OnRow, Sound, Shape
  <2>2. e \in Entry /\ GroupOf(u.on) \in Group /\ u.on \in GroupOf(u.on)
    BY <2>1, Groups
  <2>3. ASSUME NEW x \in Entry, N[x] # Absent, R[x] = Absent
        PROVE  t.op = "create" /\ x \in t.held /\ t.held \in Group
    <3>1. x \in t.held
      BY <2>3 DEF CommitsTo
    <3>2. R[x] \notin Row
      BY <2>3, AbsentNotRow
    <3>. QED
      BY <3>1, <3>2 DEF Sound, Holds, Shape
  <2>4. R[u.on] = Absent => N[u.on] = Absent
    BY <2>1, <2>3 DEF Unseen
  <2>5. Wide(u, R)
    BY <1>1, <2>1, <2>4 DEF Wide, Carried
  <2>6. CASE R[e] # Absent
    BY <2>5, <2>6 DEF Meant, Whole
  <2>7. CASE R[e] = Absent
    <3>1. t.op = "create" /\ e \in t.held /\ t.held \in Group
      BY <2>2, <2>3, <2>7
    <3>2. GroupOf(e) = t.held /\ GroupOf(e) = GroupOf(u.on)
      BY <2>2, <3>1, Groups
    <3>3. u.on \in t.held
      BY <2>2, <3>2
    <3>. QED
      BY <3>1, <3>3 DEF Unseen
  <2>. QED
    BY <2>6, <2>7
<1>5. Dues(u, N)
  <2>. SUFFICES ASSUME u.op = "pay" PROVE Dues(u, N)
    BY DEF Dues
  <2>1. u.on \in Card /\ t.op # "repost" /\ ~(t.op = "undo" /\ t.on = u.on)
    BY DEF Sound, Shape, Apart
  <2>2. ClosedIn(N, u.on) = ClosedIn(R, u.on) /\ LeftIn(N, u.on) = LeftIn(R, u.on)
    BY <1>1, <2>1, ClosedSame, LeftSame
  <2>3. ASSUME NEW e \in ClosedIn(R, u.on), N[e].status # "SETTLED"
        PROVE  R[e].status # "SETTLED"
    BY <1>1, <2>1, <2>3 DEF ClosedIn, Carried
  <2>. QED
    BY <2>2, <2>3 DEF Dues, Meant
<1>. QED
  BY <1>3, <1>4, <1>5 DEF Meant

(* A commit leaves what the others mean as it was. *)
LEMMA CommitMeant ==
    ASSUME ~Overlap, Inv, Meaning, NEW r \in Request, Commit(r)
    PROVE  Meaning'
<1>1. PICK R, V, L, P : R = row /\ V = value /\ L = limit /\ P = payment
  OBVIOUS
<1>2. PICK N, W, M, Q : N = row' /\ W = value' /\ M = limit' /\ Q = payment'
  OBVIOUS
<1>3. PICK t : t = tx[r]
  OBVIOUS
<1>4. /\ R \in RowTable /\ P \in PaymentTable /\ Fits(R)
      /\ \A q \in Request : tx[q] \in Tx /\ Sound(tx[q], R, V, L, P) /\ Meant(tx[q], R)
      /\ \A p, q \in Request : p # q => Apart(tx[p], tx[q]) /\ Unseen(tx[p], tx[q])
  BY <1>1 DEF Inv, Types, Meaning
<1>5. CommitsTo(t, R, V, L, P, N, W, M, Q) /\ Sound(t, R, V, L, P)
  <2>1. t \in Tx /\ Sound(t, R, V, L, P)
    BY <1>3, <1>4
  <2>2. t.pc = "commit" /\ N = [e \in Entry |-> IF e \in t.held THEN t.after[e] ELSE R[e]]
    BY <1>1, <1>2, <1>3 DEF Commit
  <2>3. W = [p \in Pot |-> IF p \in t.wrote THEN t.draft[p] ELSE V[p]]
    BY <1>1, <1>2, <1>3 DEF Commit
  <2>4. M = IF t.op = "limit" THEN [L EXCEPT ![t.on] = t.newLimit] ELSE L
    BY <1>1, <1>2, <1>3 DEF Commit
  <2>5. Q = CASE t.op = "pay"  -> [P EXCEPT ![t.on] = t.pay]
              [] t.op = "undo" -> [P EXCEPT ![t.on] = NoPayment]
              [] OTHER -> P
    BY <1>1, <1>2, <1>3 DEF Commit
  <2>. QED
    BY <2>1, <2>2, <2>3, <2>4, <2>5 DEF CommitsTo
<1>6. \A q \in Request : tx'[q] = IF q = r THEN NoTx ELSE tx[q]
  BY DEF Commit, Inv
<1>7. ASSUME NEW q \in Request PROVE Meant(tx'[q], N)
  <2>1. CASE q = r
    BY <1>6, <2>1, NoTxMeant
  <2>2. CASE q # r
    <3>1. PICK u \in Tx : /\ u = tx[q] /\ Sound(u, R, V, L, P) /\ Meant(u, R)
                          /\ Apart(t, u) /\ Unseen(t, u)
      BY <1>3, <1>4, <2>2
    <3>2. Meant(u, N)
      BY <1>4, <1>5, <3>1, OthersMeant
    <3>. QED
      BY <1>6, <2>2, <3>1, <3>2
  <2>. QED
    BY <2>1, <2>2
<1>8. ASSUME NEW p \in Request, NEW q \in Request, p # q PROVE Unseen(tx'[p], tx'[q])
  <2>1. CASE p # r /\ q # r
    BY <1>4, <1>6, <1>8, <2>1
  <2>2. CASE p = r \/ q = r
    BY <1>6, <2>2, NoTxMeant
  <2>. QED
    BY <2>1, <2>2
<1>. QED
  BY <1>2, <1>7, <1>8 DEF Meaning

(* Every step keeps what the requests in progress mean.                    *)
LEMMA NextMeant == ~Overlap /\ Inv /\ Meaning /\ [Next]_vars => Meaning'
<1>. SUFFICES ASSUME ~Overlap, Inv, Meaning, [Next]_vars PROVE Meaning'
  OBVIOUS
<1>1. ASSUME NEW r \in Request, Arrive(r) PROVE Meaning'
  BY <1>1, CreateMeant, SweepMeant, OnEntryMeant, PayMeant, ChangeLimitMeant DEF Arrive
<1>2. ASSUME NEW r \in Request, Step(r) PROVE Meaning'
  BY <1>2, LockRowMeant, MarkRowMeant, ChangeStatusMeant, UpdateExpenseMeant,
     RepostExpenseMeant, UpdateEarningMeant, ChangePaymentMethodMeant, DeleteMeant, ApplyDeltaMeant, LimitMeant,
     CommitMeant
  DEF Step
<1>3. ASSUME NEW r \in Request, Abort(r) PROVE Meaning'
  BY <1>3, LimitMeant
<1>4. ASSUME NEW c \in Card, Close(c) PROVE Meaning'
  <2>1. \A q \in Request : tx[q] = NoTx
    BY <1>4, IdleTx DEF Close, Active
  <2>2. tx' = tx
    BY <1>4 DEF Close
  <2>. QED
    BY <2>1, <2>2, NoTxMeant DEF Meaning
<1>5. CASE UNCHANGED vars
  BY <1>5 DEF vars, Meaning
<1>. QED
  BY <1>1, <1>2, <1>3, <1>4, <1>5 DEF Next

(* At the start nothing is meant. *)
LEMMA InitMeant == Init => Meaning
  BY NoTxMeant DEF Init, Meaning

-----------------------------------------------------------------------------
(* The money of the book. *)
WorthIn(x, p) ==
    IF x = Absent \/ x.pot # p THEN 0
    ELSE IF p \in Card THEN (IF x.status = "FORECAST" THEN 0 ELSE -x.amount)
    ELSE IF x.status # "SETTLED" THEN 0
    ELSE IF x.kind = "earning" THEN x.amount ELSE -x.amount

PaidOffIn(P, c, p) ==
    IF P[c] = NoPayment THEN 0
    ELSE IF p = c THEN P[c].amount
    ELSE IF p = P[c].account THEN -P[c].amount ELSE 0

MoneyIn(R, P) ==
    [p \in Pot |-> SumOf(Entry, [e \in Entry |-> WorthIn(R[e], p)])
                     + SumOf(Card, [c \in Card |-> PaidOffIn(P, c, p)])]
NetIn(V, L) == [p \in Pot |-> IF p \in Card THEN V[p] - L[p] ELSE V[p]]

(* What a row is worth is what it counts for in the flows. *)
LEMMA WorthFlows ==
    ASSUME NEW x \in Row \cup {Absent}, NEW p \in Pot
    PROVE  WorthIn(x, p) = Weight(x, p, "in") - Weight(x, p, "out")
<1>1. CASE x = Absent
  BY <1>1 DEF WorthIn, Weight
<1>2. CASE x # Absent
  <2>1. /\ x.amount \in Int /\ x.kind \in {"expense", "earning"}
        /\ p \in Account <=> p \notin Card
    BY <1>2, Sizes, Pots DEF Row, Amount, Pot
  <2>2. CASE x.pot # p
    BY <1>2, <2>2 DEF WorthIn, Weight
  <2>3. CASE x.pot = p /\ p \in Card
    BY <1>2, <2>1, <2>3 DEF WorthIn, Weight, Counts
  <2>4. CASE x.pot = p /\ p \notin Card
    BY <1>2, <2>1, <2>4 DEF WorthIn, Weight, Counts
  <2>. QED
    BY <2>2, <2>3, <2>4
<1>. QED
  BY <1>1, <1>2

(* The entries of an account or card are worth what flowed there. *)
LEMMA EntriesWorth ==
    ASSUME NEW R \in RowTable, NEW p \in Pot
    PROVE  SumOf(Entry, [e \in Entry |-> WorthIn(R[e], p)])
             = Flow(Entry, R, p, "in") - Flow(Entry, R, p, "out")
<1>. DEFINE A == [e \in Entry |-> Weight(R[e], p, "in")]
            B == [e \in Entry |-> Weight(R[e], p, "out")]
            C == [e \in Entry |-> WorthIn(R[e], p)]
<1>1. \A e \in Entry : A[e] \in 0..MaxAmount /\ B[e] \in 0..MaxAmount /\ C[e] = A[e] - B[e]
  BY WeightType, WorthFlows DEF RowTable
<1>2. IsFiniteSet(Entry) /\ MaxAmount \in Nat
  BY Pots, Sizes
<1>. HIDE DEF A, B, C
<1>3. SumOf(Entry, C) = Total(Entry, A, MaxAmount) - Total(Entry, B, MaxAmount)
  BY <1>1, <1>2, SumOfTotals
<1>. QED
  BY <1>3 DEF Flow, Sum, A, B, C

(* What was paid from an account, or of a card. *)
LEMMA PaidWorth ==
    ASSUME NEW P \in PaymentTable, NEW p \in Pot
    PROVE  SumOf(Card, [c \in Card |-> PaidOffIn(P, c, p)])
             = IF p \in Card THEN P[p].amount ELSE -PaidIn(P, p)
<1>. DEFINE C == [c \in Card |-> PaidOffIn(P, c, p)]
            Z == [c \in Card |-> 0]
<1>0. \A c \in Card : /\ P[c] \in Payment \cup {NoPayment}
                      /\ P[c].amount \in 0..MaxPayment /\ P[c].amount \in Int
                      /\ P[c] # NoPayment => P[c].account \in Account
                      /\ P[c] = NoPayment => P[c].amount = 0
  BY Payments DEF PaymentTable, NoPayment
<1>1. Total(Card, Z, MaxPayment) = 0
  BY Payments, TotalZero
<1>2. CASE p \in Card
  <2>. DEFINE A == [c \in Card |-> IF c = p THEN P[p].amount ELSE 0]
  <2>1. p \notin Account
    BY <1>2, Pots
  <2>2. \A c \in Card : A[c] \in 0..MaxPayment /\ Z[c] \in 0..MaxPayment /\ C[c] = A[c] - Z[c]
    BY <1>0, <1>2, <2>1, Payments DEF PaidOffIn
  <2>3. A[p] = P[p].amount /\ A[p] \in 0..MaxPayment /\ A[p] \in Int
    BY <1>0, <1>2
  <2>4. \A c \in Card \ {p} : A[c] = 0
    OBVIOUS
  <2>. HIDE DEF A, Z, C
  <2>5. SumOf(Card, C) = Total(Card, A, MaxPayment) - Total(Card, Z, MaxPayment)
    BY <2>2, Pots, Payments, SumOfTotals
  <2>6. Total(Card, A, MaxPayment) = Total(Card \ {p}, A, MaxPayment) + A[p]
    BY <1>2, <2>3, Pots, Payments, TotalSplit
  <2>7. Total(Card \ {p}, A, MaxPayment) = 0
    BY <2>4, Payments, TotalZero
  <2>. QED
    BY <1>1, <1>2, <2>3, <2>5, <2>6, <2>7 DEF C
<1>3. CASE p \notin Card
  <2>1. \A c \in Card : /\ Z[c] \in 0..MaxPayment /\ PaidOn(P, p)[c] \in 0..MaxPayment
                        /\ C[c] = Z[c] - PaidOn(P, p)[c]
    BY <1>0, <1>3, Payments DEF PaidOffIn, PaidOn, PaidBy
  <2>. HIDE DEF Z, C
  <2>2. SumOf(Card, C) = Total(Card, Z, MaxPayment) - Total(Card, PaidOn(P, p), MaxPayment)
    BY <2>1, Pots, Payments, SumOfTotals
  <2>3. Total(Card, PaidOn(P, p), MaxPayment) \in Int
    <3>1. Total(Card, PaidOn(P, p), MaxPayment) \in Nat
      BY Pots, Payments, TotalType
    <3>. QED
      BY <3>1
  <2>. QED
    BY <1>1, <1>3, <2>2, <2>3 DEF C, PaidIn
<1>. QED
  BY <1>2, <1>3

(* Balances, and what is spent of the cards, are the money of the book.    *)
LEMMA NetIsMoney ==
    ASSUME ~Overlap, NEW R, NEW V, NEW L, NEW P, Types(R, V, L, P), Kept(R, V, L, P)
    PROVE  NetIn(V, L) = MoneyIn(R, P)
<1>. SUFFICES ASSUME NEW p \in Pot
              PROVE  (IF p \in Card THEN V[p] - L[p] ELSE V[p])
                       = SumOf(Entry, [e \in Entry |-> WorthIn(R[e], p)])
                           + SumOf(Card, [c \in Card |-> PaidOffIn(P, c, p)])
  BY DEF NetIn, MoneyIn
<1>1. PICK in \in Int, out \in Int :
        in = Flow(Entry, R, p, "in") /\ out = Flow(Entry, R, p, "out")
  BY FlowType
<1>2. SumOf(Entry, [e \in Entry |-> WorthIn(R[e], p)]) = in - out
  BY <1>1, EntriesWorth DEF Types
<1>3. V[p] = Base(L, P, p) + in - out
  BY <1>1, Pots DEF Kept, Balanced, Pot
<1>4. CASE p \in Card
  <2>1. SumOf(Card, [c \in Card |-> PaidOffIn(P, c, p)]) = P[p].amount
    BY <1>4, PaidWorth DEF Types
  <2>2. L[p] \in Int /\ P[p].amount \in Int
    BY <1>4, Sizes, Payments DEF Types, PaymentTable
  <2>. QED
    BY <1>2, <1>3, <1>4, <2>1, <2>2 DEF Base
<1>5. CASE p \notin Card
  <2>1. SumOf(Card, [c \in Card |-> PaidOffIn(P, c, p)]) = -PaidIn(P, p)
    BY <1>5, PaidWorth DEF Types
  <2>2. PaidIn(P, p) \in Int
    <3>1. PaidIn(P, p) \in Nat
      BY Pots, Payments, TotalType DEF PaidIn
    <3>. QED
      BY <3>1
  <2>. QED
    BY <1>2, <1>3, <1>5, <2>1, <2>2 DEF Base
<1>. QED
  BY <1>4, <1>5

(* A card owes of closed rows what the book says. *)
LEMMA RemainingOf ==
    ASSUME NEW R \in RowTable, NEW c
    PROVE  SumOf(ClosedIn(R, c), AmountsIn(R)) = LeftIn(R, c)
<1>. DEFINE S == ClosedIn(R, c)
            A == AmountsIn(R)
            Z == [e \in Entry |-> 0]
<1>1. S \in SUBSET Entry /\ IsFiniteSet(S)
  BY SumType DEF ClosedIn
<1>2. \A e \in S : A[e] \in 0..MaxAmount /\ Z[e] \in 0..MaxAmount /\ A[e] = A[e] - Z[e]
  BY Sizes DEF AmountsIn, ClosedIn, RowTable, Row, Amount
<1>3. Total(S, Z, MaxAmount) = 0
  BY <1>1, Sizes, TotalZero
<1>. HIDE DEF A, S, Z
<1>4. SumOf(S, A) = Total(S, A, MaxAmount) - Total(S, Z, MaxAmount)
  BY <1>1, <1>2, Sizes, SumOfTotals
<1>5. Total(S, A, MaxAmount) \in Nat
  BY <1>1, Sizes, TotalType
<1>. QED
  BY <1>3, <1>4, <1>5 DEF LeftIn, Sum, S, A

-----------------------------------------------------------------------------
(* Commits are steps of the book. *)

(* The book counts and sums as the entries do. *)
LEMMA BookSums ==
    /\ \A g : Book!Cardinality(g) = Cardinality(g)
    /\ \A S, f : Book!SumOf(S, f) = SumOf(S, f)
<1>1. \A g : Book!Cardinality(g) = Cardinality(g)
  BY DEF Book!Cardinality, Cardinality
<1>2. \A S, f : Book!SumOf(S, f) = SumOf(S, f)
  BY DEF Book!SumOf, SumOf, Book!SumFunctionOnSet, SumFunctionOnSet, Book!FoldFunctionOnSet,
         FoldFunctionOnSet, Book!MapThenFoldSet, MapThenFoldSet
<1>. QED
  BY <1>1, <1>2

(* No two parts of a split differ by a cent for each of them. *)
LEMMA SplitParts ==
    ASSUME NEW g \in Group
    PROVE  Split(g) \subseteq Book!Parts(g)
<1>. SUFFICES ASSUME NEW a \in Split(g) PROVE a \in Book!Parts(g)
  OBVIOUS
<1>1. PICK first \in g, part \in Amount :
        /\ \A e \in g \ {first} : a[e] = part
        /\ a[first] - part \in 0..Cardinality(g) - 1
  BY DEF Split
<1>2. a \in [g -> Amount]
  BY DEF Split
<1>3. Cardinality(g) \in Nat
  BY Groups, SumType, FS_CardinalityType
<1>4. part \in Int /\ \A e \in g : a[e] \in Int
  BY <1>2, Sizes DEF Amount
<1>5. PICK n \in Int : n = Cardinality(g)
  BY <1>3
<1>6. ASSUME NEW d \in g, NEW e \in g PROVE a[d] - a[e] < n
  <2>1. PICK x, y : x = a[d] /\ y = a[e] /\ x \in Int /\ y \in Int
    BY <1>4
  <2>2. PICK f \in Int : f = a[first] /\ f - part \in 0..n - 1
    BY <1>1, <1>4, <1>5
  <2>3. x \in {part, f} /\ y \in {part, f}
    BY <1>1, <2>1, <2>2
  <2>4. x - y < n
    BY <1>4, <2>1, <2>2, <2>3
  <2>. QED
    BY <2>1, <2>4
<1>. QED
  BY <1>2, <1>5, <1>6, BookSums DEF Book!Parts

(* What a request that commits has done. *)
LEMMA Ending ==
    ASSUME Inv, Meaning, NEW r \in Request, Commit(r)
    PROVE  /\ tx[r] \in Tx /\ tx[r].pc = "commit" /\ tx[r].todo = {} /\ tx[r].held \subseteq Entry
           /\ tx[r].op \in OnRow \cup Marking \cup {"create", "limit"}
           /\ Sound(tx[r], row, value, limit, payment)
           /\ Leaving(tx[r].op, tx[r].on, tx[r].held, row, tx[r].after)
           /\ Whole(tx[r], row) /\ Dues(tx[r], row)
           /\ row' = [e \in Entry |-> IF e \in tx[r].held THEN tx[r].after[e] ELSE row[e]]
           /\ tx[r].op \notin {"pay", "undo"} => payment' = payment
           /\ tx[r].op = "pay" => payment' = [payment EXCEPT ![tx[r].on] = tx[r].pay]
           /\ tx[r].op = "undo" => payment' = [payment EXCEPT ![tx[r].on] = NoPayment]
<1>1. tx[r] \in Tx /\ Sound(tx[r], row, value, limit, payment) /\ tx[r].pc = "commit"
  BY StageOp DEF Commit
<1>2. tx[r].todo = {} /\ tx[r].held \subseteq Entry
  BY <1>1 DEF Sound, Ascending, Tx
<1>3. tx[r].op \in OnRow \cup Marking \cup {"create", "limit"}
  BY <1>1, NoTxFacts DEF Tx, Sound, Shape, OnRow, Marking
<1>4. Meant(tx[r], row)
  BY DEF Meaning
<1>5. row' = [e \in Entry |-> IF e \in tx[r].held THEN tx[r].after[e] ELSE row[e]]
  BY DEF Commit
<1>6. /\ tx[r].op \notin {"pay", "undo"} => payment' = payment
      /\ tx[r].op = "pay" => payment' = [payment EXCEPT ![tx[r].on] = tx[r].pay]
      /\ tx[r].op = "undo" => payment' = [payment EXCEPT ![tx[r].on] = NoPayment]
  BY DEF Commit
<1>. QED
  BY <1>1, <1>2, <1>3, <1>4, <1>5, <1>6 DEF Meant, Outcome

(* The book's own names for what both modules speak of. *)
LEMMA BookNames ==
    /\ Book!Pot = Pot /\ \A e : Book!Exists(e) <=> row[e] # Absent
    /\ \A x : Book!IsClosed(x) <=> IsClosed(x)
    /\ \A e : Book!GroupOf(e) = GroupOf(e)
    /\ \A c : Book!ClosedRows(c) = ClosedIn(row, c)
    /\ Inv => \A c : Book!Remaining(c) = LeftIn(row, c)
<1>1. Book!Pot = Pot
  BY DEF Book!Pot, Pot
<1>2. \A e : Book!Exists(e) <=> row[e] # Absent
  BY DEF Book!Exists
<1>3. \A x : Book!IsClosed(x) <=> IsClosed(x)
  BY DEF Book!IsClosed, IsClosed
<1>4. \A e : Book!GroupOf(e) = GroupOf(e)
  BY DEF Book!GroupOf, GroupOf
<1>5. \A c : Book!ClosedRows(c) = ClosedIn(row, c)
  BY <1>2, <1>3 DEF Book!ClosedRows, ClosedIn
<1>6. ASSUME Inv, NEW c PROVE Book!Remaining(c) = LeftIn(row, c)
  <2>1. Book!Remaining(c) = SumOf(ClosedIn(row, c), AmountsIn(row))
    <3>1. Book!Remaining(c) = Book!SumOf(ClosedIn(row, c), AmountsIn(row))
      BY <1>5 DEF Book!Remaining, Book!Exists, AmountsIn
    <3>. QED
      BY <3>1, BookSums
  <2>. QED
    BY <1>6, <2>1, RemainingOf DEF Inv, Types
<1>. QED
  BY <1>1, <1>2, <1>3, <1>4, <1>5, <1>6

(* What rows become: those that are held become what is left of them. *)
LEMMA Becomes ==
    ASSUME NEW H \in SUBSET Entry, NEW A, NEW S \in SUBSET Entry, NEW N,
           row' = [e \in Entry |-> IF e \in H THEN A[e] ELSE row[e]],
           \A e \in Entry : (IF e \in H THEN A[e] ELSE row[e]) = IF e \in S THEN N[e] ELSE row[e]
    PROVE  Book!Become(S, N)
  BY DEF Book!Become

(* An operation on a whole group holds all the rows that go with it. *)
LEMMA LooseIsHeld ==
    ASSUME NEW d, NEW H, H \subseteq GroupOf(d), \A e \in H : row[e] # Absent,
           \A e \in GroupOf(d) : row[e] # Absent => e \in H
    PROVE  Book!Loose(d) = Unsettled(row, H)
  BY BookNames DEF Book!Loose, Unsettled

(* The commit of a creation enters the parts of one purchase or earning. *)
LEMMA EntersBook ==
    ASSUME Inv, Meaning, NEW r \in Request, Commit(r), tx[r].op = "create"
    PROVE  Book!Change
<1>1. PICK H, A : /\ H = tx[r].held /\ A = tx[r].after /\ Entered(H, A) /\ H \in SUBSET Entry
                  /\ H \in Group /\ \A e \in H : row[e] = Absent
                  /\ row' = [e \in Entry |-> IF e \in H THEN A[e] ELSE row[e]]
  <2>1. PICK t : t = tx[r]
    OBVIOUS
  <2>2. /\ t.op = "create" /\ Shape(t) /\ Holds(t, row) /\ Entered(t.held, t.after)
        /\ t.held \subseteq Entry
        /\ row' = [e \in Entry |-> IF e \in t.held THEN t.after[e] ELSE row[e]]
    BY <2>1, Ending DEF Leaving, Sound
  <2>3. t.held \in Group /\ \A e \in t.held : row[e] = Absent
    BY <2>2 DEF Shape, Holds
  <2>. QED
    BY <2>1, <2>2, <2>3
<1>2. PICK kind \in {"expense", "earning"}, status \in {"FORECAST", "OPEN", "VERIFYING"},
           p \in Pot : \E amounts \in Split(H) :
        /\ kind = "earning" => p \in Account
        /\ \A e \in H : A[e] = [kind |-> kind, status |-> status, amount |-> amounts[e],
                                pot |-> p, closed |-> FALSE]
  BY <1>1 DEF Entered
<1>3. PICK amounts \in Split(H) :
        /\ kind = "earning" => p \in Account
        /\ \A e \in H : A[e] = [kind |-> kind, status |-> status, amount |-> amounts[e],
                                pot |-> p, closed |-> FALSE]
  BY <1>2
<1>4. PICK N : N = [e \in H |-> [kind |-> kind, status |-> status, amount |-> amounts[e],
                                pot |-> p, closed |-> FALSE]]
  OBVIOUS
<1>5. Book!Become(H, N)
  <2>1. \A e \in H : A[e] = N[e]
    BY <1>3, <1>4
  <2>. QED
    BY <1>1, <2>1, Becomes
<1>6. payment' = payment /\ amounts \in Book!Parts(H)
  BY <1>1, Ending, SplitParts
<1>7. Book!Enter(H, kind, status, p)
  BY <1>1, <1>3, <1>4, <1>5, <1>6, BookNames DEF Book!Enter
<1>. QED
  BY <1>1, <1>7, BookNames DEF Book!Change

(* The commit of a change of status is one of the transitions. *)
LEMMA RestatesBook ==
    ASSUME Inv, Meaning, NEW r \in Request, Commit(r), tx[r].op = "status"
    PROVE  Book!Change
<1>1. PICK d, H, A : /\ d = tx[r].on /\ H = tx[r].held /\ A = tx[r].after
                     /\ d \in H /\ Restated(d, H, row, A) /\ H \in SUBSET Entry
                     /\ \A e \in H : row[e] \in Row
                     /\ row' = [e \in Entry |-> IF e \in H THEN A[e] ELSE row[e]]
                     /\ payment' = payment
  BY Ending DEF Leaving, OnRow, Sound, Holds
<1>2. PICK to \in AllowedTransitions[row[d].status] :
        /\ row[d].pot \in Card => /\ "SETTLED" \notin {row[d].status, to}
                                  /\ row[d].status = "FORECAST" => ~row[d].closed
        /\ \A e \in H : A[e] = IF e = d THEN [row[e] EXCEPT !.status = to] ELSE row[e]
  BY <1>1 DEF Restated
<1>3. row' = [row EXCEPT ![d].status = to]
  <2>1. row \in RowTable
    BY DEF Inv, Types
  <2>. QED
    BY <1>1, <1>2, <2>1 DEF RowTable
<1>4. <<row[d].status, to>> \in Book!Transitions /\ to \in {"OPEN", "VERIFYING", "SETTLED"}
  <2>1. row[d].status \in Status
    BY <1>1 DEF Row
  <2>. QED
    BY <1>2, <2>1 DEF Book!Transitions, AllowedTransitions, Status
<1>5. Book!Restate(d, to)
  BY <1>1, <1>2, <1>3, <1>4, BookNames, AbsentNotRow DEF Book!Restate
<1>. QED
  BY <1>1, <1>4, <1>5 DEF Book!Change

(* What an operation on an entry has done when it commits. *)
LEMMA EntryEnding ==
    ASSUME Inv, Meaning, NEW r \in Request, Commit(r), tx[r].op \in OnRow,
           NEW d, NEW H, NEW A, d = tx[r].on, H = tx[r].held, A = tx[r].after
    PROVE  /\ H \in SUBSET Entry /\ d \in H /\ H \subseteq GroupOf(d)
           /\ \A e \in H : row[e] \in Row /\ row[e] # Absent
           /\ Leaving(tx[r].op, d, H, row, A)
           /\ Wide(tx[r], row) => Book!Loose(d) = Unsettled(row, H)
           /\ row' = [e \in Entry |-> IF e \in H THEN A[e] ELSE row[e]]
           /\ payment' = payment
<1>1. PICK t : t = tx[r]
  OBVIOUS
<1>2. /\ t.op \in OnRow /\ t.todo = {} /\ t.held \subseteq Entry
      /\ Shape(t) /\ Holds(t, row) /\ Whole(t, row) /\ Leaving(t.op, d, H, row, A)
      /\ d = t.on /\ H = t.held
  BY <1>1, Ending DEF Sound
<1>3. d \in H /\ H \subseteq GroupOf(d)
  BY <1>2 DEF Leaving, Shape
<1>4. \A e \in H : row[e] \in Row /\ row[e] # Absent
  BY <1>2, AbsentNotRow DEF Holds, OnRow
<1>5. ASSUME Wide(t, row) PROVE Book!Loose(d) = Unsettled(row, H)
  <2>1. \A e \in GroupOf(d) : row[e] # Absent => e \in H
    BY <1>2, <1>3, <1>5 DEF Whole
  <2>. QED
    BY <1>3, <1>4, <2>1, LooseIsHeld
<1>6. /\ row' = [e \in Entry |-> IF e \in H THEN A[e] ELSE row[e]]
      /\ payment' = payment
  BY Ending DEF OnRow
<1>. QED
  BY <1>1, <1>2, <1>3, <1>4, <1>5, <1>6

(* The commit of a change of an expense changes the amount of that row. *)
LEMMA AmendsBook ==
    ASSUME Inv, NEW H \in SUBSET Entry, NEW d \in H, NEW A, \A e \in H : row[e] \in Row,
           Amended(d, H, row, A), payment' = payment,
           row' = [e \in Entry |-> IF e \in H THEN A[e] ELSE row[e]]
    PROVE  Book!Change
<1>1. PICK new \in Amount : \A e \in H : A[e] = IF e = d THEN [row[e] EXCEPT !.amount = new] ELSE row[e]
  BY DEF Amended
<1>2. row' = [row EXCEPT ![d].amount = new]
  BY <1>1 DEF Inv, Types, RowTable
<1>3. Book!Amend(d, new)
  BY <1>2, BookNames, AbsentNotRow DEF Book!Amend, Amended
<1>. QED
  BY <1>3 DEF Book!Change

(* The commit of a change of an earning takes its whole group along. *)
LEMMA ReassignsBook ==
    ASSUME Inv, NEW H \in SUBSET Entry, NEW d \in H, NEW A, \A e \in H : row[e] \in Row,
           H \subseteq GroupOf(d), Book!Loose(d) = Unsettled(row, H),
           Reassigned(d, H, row, A), payment' = payment,
           row' = [e \in Entry |-> IF e \in H THEN A[e] ELSE row[e]]
    PROVE  Book!Change
<1>0. PICK amount \in Amount, a \in Account : \E T : Taken(d, H, row, A, amount, a, T)
  BY DEF Reassigned
<1>1. PICK T :
        /\ T = {d} \/ T = H
        /\ a # row[d].pot => T = H
        /\ \A e \in H :
             A[e] = IF e = d THEN [row[e] EXCEPT !.amount = amount, !.pot = a]
                    ELSE IF e \in T /\ row[e].status # "SETTLED" THEN [row[e] EXCEPT !.pot = a]
                    ELSE row[e]
  BY <1>0 DEF Taken
<1>2. PICK S : S = IF T = H THEN Book!Loose(d) ELSE {d}
  OBVIOUS
<1>3. PICK N : N = [x \in Entry |-> [row[x] EXCEPT !.pot = a, !.amount = IF x = d THEN amount ELSE @]]
  OBVIOUS
<1>4. \A e \in H : ~IsClosed(row[e])
  <2>. SUFFICES ASSUME NEW e \in H PROVE row[e].pot \notin Card
    BY DEF IsClosed
  <2>1. row[e].kind = row[d].kind
    <3>1. GroupOf(d) \in Group
      BY Groups
    <3>. QED
      BY <3>1, AbsentNotRow DEF Inv, OneKind
  <2>2. row[e].kind = "earning"
    BY <2>1 DEF Reassigned
  <2>. QED
    BY <2>2, AbsentNotRow DEF Inv, Fits
<1>5. Unsettled(row, H) = {e \in H : row[e].status # "SETTLED"}
  BY <1>4 DEF Unsettled
<1>6. d \in S /\ S \subseteq H
  <2>1. row[d].status # "SETTLED"
    BY DEF Reassigned
  <2>. QED
    BY <1>2, <1>5, <2>1
<1>7. ASSUME NEW e \in H PROVE A[e] = IF e \in S THEN N[e] ELSE row[e]
  <2>1. N[e] = [row[e] EXCEPT !.pot = a, !.amount = IF e = d THEN amount ELSE row[e].amount]
    BY <1>3
  <2>2. CASE e = d
    BY <1>1, <1>6, <2>1, <2>2 DEF Row
  <2>3. CASE e # d /\ e \in T /\ row[e].status # "SETTLED"
    <3>1. PICK x \in Row : x = row[e]
      OBVIOUS
    <3>2. [x EXCEPT !.pot = a, !.amount = x.amount] = [x EXCEPT !.pot = a]
      BY DEF Row
    <3>3. e \in S
      <4>1. T = H
        BY <1>1, <2>3
      <4>. QED
        BY <1>2, <1>5, <2>3, <4>1
    <3>. QED
      BY <1>1, <2>1, <2>3, <3>1, <3>2, <3>3
  <2>4. CASE e # d /\ ~(e \in T /\ row[e].status # "SETTLED")
    <3>1. e \notin S
      <4>1. CASE T # H
        BY <1>2, <2>4, <4>1
      <4>2. CASE T = H
        BY <1>2, <1>5, <2>4, <4>2
      <4>. QED
        BY <4>1, <4>2
    <3>. QED
      BY <1>1, <2>4, <3>1
  <2>. QED
    BY <2>2, <2>3, <2>4
<1>8. Book!Become(S, N)
  BY <1>6, <1>7, Becomes
<1>9. Book!Reassign(d, amount, a)
  <2>1. S \in {{d}, Book!Loose(d)} /\ (a # row[d].pot => S = Book!Loose(d))
    BY <1>1, <1>2
  <2>. QED
    BY <1>3, <1>8, <2>1, BookNames, AbsentNotRow DEF Book!Reassign, Reassigned
<1>. QED
  BY <1>9 DEF Book!Change

(* The commit of a reposting takes that row to the open statement. *)
LEMMA RepostsBook ==
    ASSUME Inv, NEW H \in SUBSET Entry, NEW d \in H, NEW A, \A e \in H : row[e] \in Row,
           Reposted(d, H, row, A), payment' = payment,
           row' = [e \in Entry |-> IF e \in H THEN A[e] ELSE row[e]]
    PROVE  Book!Change
<1>1. row' = [row EXCEPT ![d].closed = FALSE]
  BY DEF Inv, Types, RowTable, Reposted
<1>2. Book!Repost(d)
  BY <1>1, BookNames, AbsentNotRow DEF Book!Repost, Reposted
<1>. QED
  BY <1>2 DEF Book!Change

(* The commit of a change of payment method moves the whole group. *)
LEMMA MovesBook ==
    ASSUME Inv, NEW H \in SUBSET Entry, NEW d \in H, NEW A, \A e \in H : row[e] \in Row,
           Book!Loose(d) = Unsettled(row, H),
           Relocated(d, H, row, A), payment' = payment,
           row' = [e \in Entry |-> IF e \in H THEN A[e] ELSE row[e]]
    PROVE  Book!Change
<1>1. PICK dest \in Pot \ {row[d].pot} :
        \A e \in H :
            A[e] = IF e \notin Unsettled(row, H) \/ row[e].pot = dest THEN row[e]
                   ELSE IF dest \in Card THEN OnCard(row[e], dest)
                   ELSE [row[e] EXCEPT !.pot = dest, !.closed = FALSE]
  BY DEF Relocated
<1>2. PICK S : S = {e \in Book!Loose(d) : row[e].pot # dest}
  OBVIOUS
<1>3. PICK N : N = [x \in Entry |-> Book!At(row[x], dest)]
  OBVIOUS
<1>4. S \subseteq H
  BY <1>2 DEF Unsettled
<1>5. ASSUME NEW e \in H PROVE A[e] = IF e \in S THEN N[e] ELSE row[e]
  <2>1. N[e] = Book!At(row[e], dest)
    BY <1>3
  <2>2. CASE e \notin S
    BY <1>1, <1>2, <2>2
  <2>3. CASE e \in S /\ dest \in Card
    BY <1>1, <1>2, <2>1, <2>3 DEF Book!At, OnCard, Row
  <2>4. CASE e \in S /\ dest \notin Card
    <3>1. PICK x \in Row : x = row[e]
      OBVIOUS
    <3>2. Book!At(x, dest) = [x EXCEPT !.pot = dest, !.closed = FALSE, !.status = x.status]
      BY <2>4 DEF Book!At
    <3>3. [x EXCEPT !.pot = dest, !.closed = FALSE, !.status = x.status]
            = [x EXCEPT !.pot = dest, !.closed = FALSE]
      BY DEF Row
    <3>. QED
      BY <1>1, <1>2, <2>1, <2>4, <3>1, <3>2, <3>3
  <2>. QED
    BY <2>2, <2>3, <2>4
<1>6. Book!Become(S, N)
  BY <1>4, <1>5, Becomes
<1>7. Book!Move(d, dest)
  BY <1>1, <1>2, <1>3, <1>6 DEF Book!Move, Relocated
<1>. QED
  BY <1>7, BookNames DEF Book!Change

(* The commit of a deletion removes the whole group. *)
LEMMA RemovesBook ==
    ASSUME NEW H \in SUBSET Entry, NEW d \in H, NEW A,
           Book!Loose(d) = Unsettled(row, H),
           Deleted(d, H, row, A), payment' = payment,
           row' = [e \in Entry |-> IF e \in H THEN A[e] ELSE row[e]]
    PROVE  Book!Change
<1>1. PICK S, N : S = Book!Loose(d) /\ N = [x \in Entry |-> Absent] /\ S \subseteq H
  BY DEF Unsettled
<1>2. \A e \in H : A[e] = IF e \in S THEN N[e] ELSE row[e]
  BY <1>1 DEF Deleted
<1>3. Book!Become(S, N)
  BY <1>1, <1>2, Becomes
<1>4. Book!Remove(d)
  BY <1>1, <1>3 DEF Book!Remove, Deleted
<1>. QED
  BY <1>4 DEF Book!Change

(* What a request that marks rows has done when it commits. *)
LEMMA MarkEnding ==
    ASSUME Inv, Meaning, NEW r \in Request, Commit(r), tx[r].op \in Marking,
           NEW t, t = tx[r]
    PROVE  /\ t.held \in SUBSET Entry /\ t.todo = {} /\ t.pc = "commit"
           /\ \A e \in t.held : /\ row[e] \in Row /\ row[e] # Absent
                                /\ Looks(t, row[e]) /\ t.after[e] = Leaves(t, row[e])
           /\ Shape(t) /\ Marks(t, row, payment) /\ Dues(t, row)
           /\ row' = [e \in Entry |-> IF e \in t.held THEN t.after[e] ELSE row[e]]
<1>1. /\ t.op \in Marking /\ t.todo = {} /\ t.pc = "commit" /\ t.held \subseteq Entry
      /\ Shape(t) /\ Holds(t, row) /\ Marks(t, row, payment) /\ Dues(t, row)
      /\ row' = [e \in Entry |-> IF e \in t.held THEN t.after[e] ELSE row[e]]
  BY Ending DEF Sound
<1>2. \A e \in t.held : row[e] \in Row /\ row[e] # Absent
  BY <1>1, AbsentNotRow DEF Holds, Marking
<1>3. \A e \in t.held : Looks(t, row[e]) /\ t.after[e] = Leaves(t, row[e])
  BY <1>1 DEF Marks
<1>. QED
  BY <1>1, <1>2, <1>3

(* The commit of a payment settles the closed rows, all or none of them. *)
LEMMA PaysBook ==
    ASSUME Inv, Meaning, NEW r \in Request, Commit(r), tx[r].op = "pay"
    PROVE  Book!Change
<1>1. PICK t : t = tx[r]
  OBVIOUS
<1>2. /\ t.held \in SUBSET Entry /\ t.todo = {} /\ t.pc = "commit" /\ t.op = "pay"
      /\ \A e \in t.held : /\ row[e] \in Row /\ row[e] # Absent
                           /\ Looks(t, row[e]) /\ t.after[e] = Leaves(t, row[e])
      /\ Shape(t) /\ Marks(t, row, payment) /\ Dues(t, row)
      /\ row' = [e \in Entry |-> IF e \in t.held THEN t.after[e] ELSE row[e]]
      /\ payment' = [payment EXCEPT ![t.on] = t.pay]
  BY <1>1, MarkEnding, Ending DEF Marking
<1>3. PICK c \in Card, a \in Account, m \in 1..MaxPayment, f \in BOOLEAN :
        /\ c = t.on /\ t.pay = [account |-> a, amount |-> m, full |-> f]
        /\ t.pay.amount = m /\ (t.pay.full <=> f)
  <2>1. t.on \in Card /\ t.pay \in Payment
    BY <1>2 DEF Shape
  <2>. QED
    BY <2>1 DEF Payment
<1>4. /\ payment[c] = NoPayment /\ m <= LeftIn(row, c)
      /\ f = (m = Book!Remaining(c))
      /\ ~f => t.held = {}
  BY <1>2, <1>3, BookNames DEF Marks, Dues
<1>5. m \in 1..Book!Remaining(c)
  <2>1. LeftIn(row, c) \in Nat
    BY SumType DEF LeftIn, ClosedIn
  <2>. QED
    BY <1>3, <1>4, <2>1, BookNames
<1>6. PICK S \in SUBSET Entry : S = IF m = Book!Remaining(c) THEN Book!ClosedRows(c) ELSE {}
  BY BookNames DEF ClosedIn
<1>7. PICK N : N = [e \in Entry |-> [row[e] EXCEPT !.status = "SETTLED"]]
  OBVIOUS
<1>8. t.held \subseteq S
  <2>1. t.held \subseteq ClosedIn(row, c)
    BY <1>2, <1>3 DEF Looks, ClosedIn, IsClosed
  <2>. QED
    BY <1>4, <1>6, <2>1, BookNames
<1>9. ASSUME NEW e \in S \ t.held PROVE N[e] = row[e]
  <2>1. f /\ e \in ClosedIn(row, c)
    BY <1>4, <1>6, BookNames
  <2>2. row[e].status = "SETTLED"
    BY <1>2, <1>3, <2>1 DEF Dues
  <2>3. row[e] \in Row
    BY <2>1 DEF Inv, Types, RowTable, ClosedIn
  <2>4. [row[e] EXCEPT !.status = "SETTLED"] = row[e]
    BY <2>2, <2>3 DEF Row
  <2>. QED
    BY <1>7, <2>4
<1>10. Book!Become(S, N)
  <2>1. \A e \in t.held : t.after[e] = N[e]
    BY <1>2, <1>7 DEF Leaves
  <2>. QED
    BY <1>2, <1>8, <1>9, <2>1, Becomes
<1>11. Book!Pay(c, a, m)
  BY <1>2, <1>3, <1>4, <1>6, <1>7, <1>10 DEF Book!Pay
<1>. QED
  BY <1>5, <1>11 DEF Book!Change

(* The commit of an undoing puts back all that the payment settled. *)
LEMMA UndoesBook ==
    ASSUME Inv, Meaning, NEW r \in Request, Commit(r), tx[r].op = "undo"
    PROVE  Book!Change
<1>1. PICK t : t = tx[r]
  OBVIOUS
<1>2. /\ t.held \in SUBSET Entry /\ t.todo = {} /\ t.pc = "commit" /\ t.op = "undo"
      /\ \A e \in t.held : /\ row[e] \in Row /\ row[e] # Absent
                           /\ Looks(t, row[e]) /\ t.after[e] = Leaves(t, row[e])
      /\ Shape(t) /\ Marks(t, row, payment)
      /\ row' = [e \in Entry |-> IF e \in t.held THEN t.after[e] ELSE row[e]]
      /\ payment' = [payment EXCEPT ![t.on] = NoPayment]
  BY <1>1, MarkEnding, Ending DEF Marking
<1>3. PICK c \in Card : c = t.on /\ payment[c] # NoPayment
  <2>1. t.on \in Card /\ t.pay \in Payment /\ payment[t.on] = t.pay
    BY <1>2 DEF Shape, Marks
  <2>2. t.pay.amount >= 1 /\ NoPayment.amount = 0
    BY <2>1 DEF Payment, NoPayment
  <2>. QED
    BY <2>1, <2>2
<1>4. payment[c] = t.pay /\ t.held = (IF t.pay.full THEN SettledIn(row, c) ELSE {})
  <2>1. /\ payment[c] = t.pay /\ (~t.pay.full => t.held = {})
        /\ t.pay.full => SettledIn(row, c) \subseteq t.held
    BY <1>2, <1>3 DEF Marks
  <2>2. t.held \subseteq SettledIn(row, c)
    BY <1>2, <1>3 DEF Looks, SettledIn
  <2>. QED
    BY <2>1, <2>2
<1>5. PICK N : N = [e \in Entry |-> [row[e] EXCEPT !.status = "OPEN"]]
  OBVIOUS
<1>6. \A e \in t.held : t.after[e] = N[e]
  BY <1>2, <1>5 DEF Leaves
<1>7. Book!Become(t.held, N)
  BY <1>2, <1>6, Becomes
<1>8. t.held = {e \in Entry : /\ payment[c].full /\ Book!Exists(e) /\ row[e].pot = c
                             /\ row[e].closed /\ row[e].status = "SETTLED"}
  BY <1>4 DEF SettledIn, Book!Exists
<1>9. Book!Undo(c)
  BY <1>2, <1>3, <1>5, <1>7, <1>8 DEF Book!Undo
<1>. QED
  BY <1>9 DEF Book!Change

(* The commit of the sweep leaves overdue what was open on accounts. *)
LEMMA SweepsBook ==
    ASSUME Inv, Meaning, NEW r \in Request, Commit(r), tx[r].op = "sweep"
    PROVE  Book!Change
<1>1. PICK t : t = tx[r]
  OBVIOUS
<1>2. /\ t.held \in SUBSET Entry /\ t.op = "sweep"
      /\ \A e \in t.held : /\ row[e] \in Row /\ row[e] # Absent
                           /\ Looks(t, row[e]) /\ t.after[e] = Leaves(t, row[e])
      /\ row' = [e \in Entry |-> IF e \in t.held THEN t.after[e] ELSE row[e]]
      /\ payment' = payment
  BY <1>1, MarkEnding, Ending DEF Marking
<1>3. PICK N : N = [e \in Entry |-> [row[e] EXCEPT !.status = "OVERDUE"]]
  OBVIOUS
<1>4. \A e \in t.held : t.after[e] = N[e]
  BY <1>2, <1>3 DEF Leaves
<1>5. Book!Become(t.held, N)
  BY <1>2, <1>4, Becomes
<1>6. \A e \in t.held : row[e].pot \in Account /\ row[e].status = "OPEN"
  BY <1>2 DEF Looks, Overdue
<1>7. Book!FallOverdue(t.held)
  BY <1>2, <1>3, <1>5, <1>6, BookNames DEF Book!FallOverdue
<1>. QED
  BY <1>2, <1>7 DEF Book!Change

(* A commit that leaves anything changed is a change of the book. *)
LEMMA CommitsBook ==
    ASSUME Inv, Meaning, NEW r \in Request, Commit(r)
    PROVE  Book!Change \/ UNCHANGED <<row, payment>>
<1>1. PICK t : t = tx[r]
  OBVIOUS
<1>2. t.op \in OnRow \cup Marking \cup {"create", "limit"}
  BY <1>1, Ending
<1>3. CASE t.op \in OnRow
  <2>1. PICK d, H, A : d = t.on /\ H = t.held /\ A = t.after
    OBVIOUS
  <2>2. /\ H \in SUBSET Entry /\ d \in H /\ H \subseteq GroupOf(d)
        /\ \A e \in H : row[e] \in Row /\ row[e] # Absent
        /\ Leaving(t.op, d, H, row, A)
        /\ Wide(t, row) => Book!Loose(d) = Unsettled(row, H)
        /\ row' = [e \in Entry |-> IF e \in H THEN A[e] ELSE row[e]]
        /\ payment' = payment
    BY <1>1, <1>3, <2>1, EntryEnding
  <2>3. CASE t.op = "status"
    BY <1>1, <2>3, RestatesBook
  <2>4. CASE t.op = "update" /\ Amended(d, H, row, A)
    BY <2>2, <2>4, AmendsBook
  <2>5. CASE t.op = "update" /\ Reassigned(d, H, row, A)
    <3>1. Wide(t, row)
      BY <2>1, <2>2, <2>5 DEF Wide, Reassigned
    <3>. QED
      BY <2>2, <2>5, <3>1, ReassignsBook
  <2>6. CASE t.op = "method"
    BY <2>2, <2>6, MovesBook DEF Wide, Leaving
  <2>7. CASE t.op = "delete"
    BY <2>2, <2>7, RemovesBook DEF Wide, Leaving
  <2>8. CASE t.op = "repost"
    BY <2>2, <2>8, RepostsBook DEF Leaving
  <2>. QED
    BY <1>3, <2>2, <2>3, <2>4, <2>5, <2>6, <2>7, <2>8 DEF OnRow, Leaving
<1>4. CASE t.op = "create"
  BY <1>1, <1>4, EntersBook
<1>5. CASE t.op \in Marking
  BY <1>1, <1>5, PaysBook, UndoesBook, SweepsBook DEF Marking
<1>6. CASE t.op = "limit"
  <2>1. /\ t.held = {} /\ payment' = payment
        /\ row' = [e \in Entry |-> IF e \in t.held THEN t.after[e] ELSE row[e]]
    <3>1. Shape(t) /\ payment' = payment
      BY <1>1, <1>6, Ending DEF Sound
    <3>2. row' = [e \in Entry |-> IF e \in t.held THEN t.after[e] ELSE row[e]]
      BY <1>1, Ending
    <3>. QED
      BY <1>6, <3>1, <3>2 DEF Shape
  <2>2. row \in [Entry -> Row \cup {Absent}]
    BY DEF Inv, Types, RowTable
  <2>3. row' = row
    BY <2>1, <2>2
  <2>. QED
    BY <2>1, <2>3
<1>. QED
  BY <1>2, <1>3, <1>4, <1>5, <1>6

(* The end of a cycle is one of the book. *)
LEMMA ClosesBook ==
    ASSUME NEW c \in Card, Close(c)
    PROVE  Book!Change
<1>1. PICK S \in SUBSET Entry :
        /\ \A e \in S : row[e] # Absent /\ row[e].pot = c
        /\ row' = [e \in Entry |-> IF e \in S THEN [row[e] EXCEPT !.closed = TRUE] ELSE row[e]]
  BY DEF Close, Exists
<1>2. PICK N : N = [e \in Entry |-> [row[e] EXCEPT !.closed = TRUE]]
  OBVIOUS
<1>3. Book!Become(S, N)
  BY <1>1, <1>2 DEF Book!Become
<1>4. Book!Close(c, S)
  BY <1>1, <1>2, <1>3, BookNames DEF Book!Close, Close
<1>. QED
  BY <1>4 DEF Book!Change

(* Every step is one of the book, or leaves entries and payments alone.    *)
LEMMA StepsBook ==
    ASSUME Inv, Meaning, [Next]_vars
    PROVE  Book!Change \/ UNCHANGED <<row, payment>>
<1>1. ASSUME NEW r \in Request, Arrive(r) \/ Abort(r) \/ Step(r), ~Commit(r)
      PROVE  UNCHANGED <<row, payment>>
  BY <1>1, OnlyCommits
<1>2. CASE UNCHANGED vars
  BY <1>2 DEF vars
<1>. QED
  BY <1>1, <1>2, CommitsBook, ClosesBook DEF Next

(* The money of the book is the money of its tables. *)
LEMMA BookMoney == Book!Money = MoneyIn(row, payment)
<1>1. ASSUME NEW p \in Pot
      PROVE  /\ [e \in Entry |-> Book!Worth(row[e], p)] = [e \in Entry |-> WorthIn(row[e], p)]
             /\ [c \in Card |-> Book!PaidOff(c, p)] = [c \in Card |-> PaidOffIn(payment, c, p)]
  BY DEF Book!Worth, WorthIn, Book!PaidOff, PaidOffIn
<1>2. Book!Pot = Pot
  BY BookNames
<1>. QED
  BY <1>1, <1>2, BookSums DEF Book!Money, MoneyIn

(* At every moment the balances and limits are the money of the book. *)
Net       == [p \in Pot |-> IF p \in Card THEN value[p] - limit[p] ELSE value[p]]
MoneyKept == Net = Book!Money

(* The money of the book follows from the inductive invariant.             *)
LEMMA NetNow == ~Overlap /\ Inv => MoneyKept
<1>. SUFFICES ASSUME ~Overlap, Inv PROVE MoneyKept
  OBVIOUS
<1>1. NetIn(value, limit) = MoneyIn(row, payment)
  BY NetIsMoney DEF Inv
<1>. QED
  BY <1>1, BookMoney DEF NetIn, MoneyKept, Net

(* The requests implement the book, for any number of entries, groups,     *)
(* accounts, cards and requests, if nothing runs beside a change of limit  *)
(* and no expense is posted anew beside a payment: every commit is one     *)
(* change of the book, to a whole group or statement as it is then, and    *)
(* moves exactly the money that goes with it.                              *)
THEOREM Implementation == ASSUME ~Overlap PROVE Spec => ImplementsBook
<1>1. Init => Book!Init
  <2>. SUFFICES ASSUME Init PROVE Book!Init
    OBVIOUS
  <2>1. \A p \in Pot : (IF p \in Card THEN value[p] - limit[p] ELSE value[p]) = 0
    BY Sizes DEF Init
  <2>. QED
    BY <2>1, BookNames DEF Init, Book!Init
<1>2. Meaning /\ Inv /\ MoneyKept /\ MoneyKept' /\ [Next]_vars => [Book!Next]_<<row, payment, Net>>
  <2>. SUFFICES ASSUME Meaning, Inv, MoneyKept, MoneyKept', [Next]_vars
                PROVE  Book!Next \/ UNCHANGED <<row, payment, Net>>
    OBVIOUS
  <2>1. CASE UNCHANGED <<row, payment>>
    <3>1. Book!Money' = Book!Money
      BY <2>1 DEF Book!Money, Book!Worth, Book!PaidOff
    <3>. QED
      BY <2>1, <3>1 DEF MoneyKept
  <2>2. CASE <<row, payment>>' # <<row, payment>>
    BY <2>2, StepsBook DEF MoneyKept, Net, Book!Next
  <2>. QED
    BY <2>1, <2>2
<1>. QED
  BY <1>1, <1>2, NetNow, InitMeant, NextMeant, Invariance, PTL DEF Spec, ImplementsBook, Book!Spec, Net
=============================================================================
