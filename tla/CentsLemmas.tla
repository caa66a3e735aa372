----------------------------- MODULE CentsLemmas -----------------------------
(* How a sum of cents changes when its rows do. *)
EXTENDS Cents, Integers, FiniteSetTheorems, WellFoundedInduction, TLAPS

(* A sum over finitely many rows is a natural number. *)
LEMMA TotalType ==
    ASSUME NEW S, IsFiniteSet(S), NEW A, NEW max \in Nat
    PROVE  IsFiniteSet(CentsOf(S, A, max)) /\ Total(S, A, max) \in Nat
<1>0. IsFiniteSet(1..max)
  BY FS_Interval
<1>1. IsFiniteSet(S \X (1..max))
  BY <1>0, FS_Product
<1>2. CentsOf(S, A, max) \in SUBSET (S \X (1..max))
  BY DEF CentsOf
<1>3. IsFiniteSet(CentsOf(S, A, max))
  BY <1>1, <1>2, FS_Subset
<1>. QED
  BY <1>3, FS_CardinalityType DEF Total

(* The sum over no rows is zero. *)
LEMMA TotalEmpty ==
    ASSUME NEW A, NEW max \in Nat
    PROVE  Total({}, A, max) = 0
<1>1. CentsOf({}, A, max) = {}
  BY DEF CentsOf
<1>. QED
  BY <1>1, FS_EmptySet DEF Total

(* Rows that are worth nothing. *)
LEMMA TotalZero ==
    ASSUME NEW S, NEW A, NEW max \in Nat, \A x \in S : A[x] = 0
    PROVE  Total(S, A, max) = 0
<1>1. CentsOf(S, A, max) = {}
  BY DEF CentsOf
<1>. QED
  BY <1>1, FS_EmptySet DEF Total

(* A sum depends only on the amounts of its own rows. *)
LEMMA TotalSame ==
    ASSUME NEW S, NEW A, NEW B, NEW max, \A x \in S : A[x] = B[x]
    PROVE  Total(S, A, max) = Total(S, B, max)
<1>1. CentsOf(S, A, max) = CentsOf(S, B, max)
  BY DEF CentsOf
<1>. QED
  BY <1>1 DEF Total

(* There are n numbers from 1 to n. *)
LEMMA UpTo ==
    \A n \in Nat : IsFiniteSet(1..n) /\ Cardinality(1..n) = n
<1>. SUFFICES ASSUME NEW n \in Nat
              PROVE  IsFiniteSet(1..n) /\ Cardinality(1..n) = n
  OBVIOUS
<1>1. 1 \in Int /\ n \in Int
  OBVIOUS
<1>2. IsFiniteSet(1..n)
  BY <1>1, FS_Interval
<1>3. Cardinality(1..n) = IF 1 > n THEN 0 ELSE n - 1 + 1
  BY <1>1, FS_Interval
<1>. QED
  BY <1>2, <1>3

(* A new row adds its amount. *)
LEMMA TotalAdd ==
    ASSUME NEW S, IsFiniteSet(S), NEW A, NEW max \in Nat,
           NEW x, x \notin S, A[x] \in 0..max
    PROVE  Total(S \cup {x}, A, max) = Total(S, A, max) + A[x]
<1>. DEFINE X == {x} \X (1..A[x])
<1>1. CentsOf(S \cup {x}, A, max) = CentsOf(S, A, max) \cup X
  <2>1. ASSUME NEW p \in CentsOf(S \cup {x}, A, max)
        PROVE  p \in CentsOf(S, A, max) \cup X
    BY <2>1 DEF CentsOf
  <2>2. ASSUME NEW p \in CentsOf(S, A, max) \cup X
        PROVE  p \in CentsOf(S \cup {x}, A, max)
    BY <2>2 DEF CentsOf
  <2>. QED
    BY <2>1, <2>2
<1>2. CentsOf(S, A, max) \cap X = {}
  BY DEF CentsOf
<1>3. IsFiniteSet({x}) /\ Cardinality({x}) = 1
  BY FS_Singleton
<1>4. IsFiniteSet(1..A[x]) /\ Cardinality(1..A[x]) = A[x]
  <2>1. A[x] \in Nat
    OBVIOUS
  <2>. QED
    BY <2>1, UpTo
<1>5. IsFiniteSet(X) /\ Cardinality(X) = A[x]
  <2>1. IsFiniteSet(X) /\ Cardinality(X) = Cardinality({x}) * Cardinality(1..A[x])
    BY <1>3, <1>4, FS_Product
  <2>. QED
    BY <2>1, <1>3, <1>4
<1>6. IsFiniteSet(CentsOf(S, A, max)) /\ Total(S, A, max) \in Nat
  BY TotalType
<1>7. Cardinality(CentsOf(S, A, max) \cup X) =
        Cardinality(CentsOf(S, A, max)) + Cardinality(X) - Cardinality({})
  BY <1>2, <1>5, <1>6, FS_Union
<1>8. Cardinality({}) = 0
  BY FS_EmptySet
<1>9. A[x] \in Nat
  OBVIOUS
<1>. HIDE DEF X
<1>10. Total(S \cup {x}, A, max) = Cardinality(CentsOf(S, A, max)) + A[x]
  <2>1. Total(S \cup {x}, A, max) = Cardinality(CentsOf(S, A, max) \cup X)
    BY <1>1 DEF Total
  <2>2. Cardinality(CentsOf(S, A, max)) \in Nat
    BY <1>6 DEF Total
  <2>. QED
    BY <2>1, <2>2, <1>5, <1>7, <1>8, <1>9
<1>. QED
  BY <1>10 DEF Total

(* A row that leaves takes its amount away. *)
LEMMA TotalRemove ==
    ASSUME NEW S, IsFiniteSet(S), NEW A, NEW max \in Nat,
           NEW x \in S, A[x] \in 0..max
    PROVE  Total(S \ {x}, A, max) = Total(S, A, max) - A[x]
<1>1. IsFiniteSet(S \ {x})
  BY FS_RemoveElement
<1>2. (S \ {x}) \cup {x} = S
  OBVIOUS
<1>3. Total(S, A, max) = Total(S \ {x}, A, max) + A[x]
  BY <1>1, <1>2, TotalAdd
<1>. QED
  BY <1>1, <1>3, TotalType

(* A sum is the sum over the other rows, plus the row's own amount if it   *)
(* is one of the summed rows.                                              *)
LEMMA TotalSplit ==
    ASSUME NEW S, IsFiniteSet(S), NEW A, NEW max \in Nat, NEW x, A[x] \in 0..max
    PROVE  /\ Total(S \ {x}, A, max) \in Nat
           /\ Total(S, A, max) = Total(S \ {x}, A, max) + (IF x \in S THEN A[x] ELSE 0)
<1>1. IsFiniteSet(S \ {x})
  BY FS_RemoveElement
<1>2. Total(S \ {x}, A, max) \in Nat
  BY <1>1, TotalType
<1>3. CASE x \in S
  <2>1. (S \ {x}) \cup {x} = S
    BY <1>3
  <2>2. Total(S, A, max) = Total(S \ {x}, A, max) + A[x]
    BY <1>1, <2>1, TotalAdd
  <2>. QED
    BY <1>2, <1>3, <2>2
<1>4. CASE x \notin S
  <2>1. S \ {x} = S
    BY <1>4
  <2>2. Total(S, A, max) = Total(S \ {x}, A, max) + 0
    BY <1>2, <2>1
  <2>. QED
    BY <1>2, <1>4, <2>2
<1>. QED
  BY <1>3, <1>4

(* The rows of two sets that share none are summed apart.                  *)
LEMMA TotalUnion ==
    ASSUME NEW S, IsFiniteSet(S), NEW T, IsFiniteSet(T), S \cap T = {},
           NEW A, NEW max \in Nat
    PROVE  Total(S \cup T, A, max) = Total(S, A, max) + Total(T, A, max)
<1>. DEFINE CS == CentsOf(S, A, max)
            CT == CentsOf(T, A, max)
<1>1. CentsOf(S \cup T, A, max) = CS \cup CT
  BY DEF CentsOf
<1>2. CS \cap CT = {}
  BY DEF CentsOf
<1>3. IsFiniteSet(CS) /\ IsFiniteSet(CT) /\ Cardinality(CS) \in Nat /\ Cardinality(CT) \in Nat
  BY TotalType DEF Total
<1>4. Total(S, A, max) = Cardinality(CS) /\ Total(T, A, max) = Cardinality(CT)
      /\ Total(S \cup T, A, max) = Cardinality(CS \cup CT)
  BY <1>1 DEF Total
<1>. HIDE DEF CS, CT
<1>5. Cardinality(CS \cup CT) = Cardinality(CS) + Cardinality(CT) - Cardinality({})
  BY <1>2, <1>3, FS_Union
<1>6. Cardinality({}) = 0
  BY FS_EmptySet
<1>. QED
  BY <1>3, <1>4, <1>5, <1>6


(* The sum of some of the rows is the sum over all of them of what counts. *)
LEMMA TotalFilter ==
    ASSUME NEW S, NEW T \in SUBSET S, NEW A, NEW B, NEW max \in Nat,
           \A x \in S : B[x] = IF x \in T THEN A[x] ELSE 0
    PROVE  Total(T, A, max) = Total(S, B, max)
<1>1. CentsOf(T, A, max) \subseteq CentsOf(S, B, max)
  BY DEF CentsOf
<1>2. ASSUME NEW p \in CentsOf(S, B, max)
      PROVE  p \in CentsOf(T, A, max)
  <2>1. p \in S \X (1..max) /\ p[2] <= B[p[1]]
    BY <1>2 DEF CentsOf
  <2>2. p[1] \in T
    BY <2>1
  <2>. QED
    BY <2>1, <2>2 DEF CentsOf
<1>3. CentsOf(T, A, max) = CentsOf(S, B, max)
  BY <1>1, <1>2
<1>. QED
  BY <1>3 DEF Total

(* The rows of a subset are summed apart. *)
LEMMA TotalApart ==
    ASSUME NEW S, IsFiniteSet(S), NEW T \in SUBSET S, NEW A, NEW max \in Nat
    PROVE  Total(S, A, max) = Total(S \ T, A, max) + Total(T, A, max)
<1>1. IsFiniteSet(T) /\ IsFiniteSet(S \ T)
  BY FS_Subset
<1>2. (S \ T) \cup T = S /\ (S \ T) \cap T = {}
  OBVIOUS
<1>. QED
  BY <1>1, <1>2, TotalUnion

-----------------------------------------------------------------------------
(* Sums of amounts that may be negative.  They are folds: the recursion is *)
(* justified, and the order of the rows shown not to matter, by taking a   *)
(* smallest set of rows for which it would fail.                           *)

(* Every subset is in Q if a subset is whenever those with one element     *)
(* less are.                                                               *)
LEMMA SubsetInduction ==
    ASSUME NEW D, IsFiniteSet(D), NEW Q,
           \A T \in SUBSET D : (\A x \in T : T \ {x} \in Q) => T \in Q
    PROVE  \A T \in SUBSET D : T \in Q
<1>. SUFFICES ASSUME NEW T0 \in SUBSET D, T0 \notin Q PROVE FALSE
  OBVIOUS
<1>. DEFINE B == {n \in Nat : \E T \in SUBSET D : Cardinality(T) = n /\ T \notin Q}
            R == OpToRel(<, Nat)
<1>0. \A T \in SUBSET D : IsFiniteSet(T) /\ Cardinality(T) \in Nat
  BY FS_Subset, FS_CardinalityType
<1>1. B \subseteq Nat /\ B # {}
  BY <1>0
<1>2. PICK n \in B : \A m \in B : ~(<<m, n>> \in R)
  <2>1. IsWellFoundedOn(R, Nat)
    BY NatLessThanWellFounded
  <2>. HIDE DEF B, R
  <2>. QED
    BY <1>1, <2>1, WFMin
<1>3. \A m \in B : ~(m < n)
  BY <1>2 DEF OpToRel
<1>4. PICK T \in SUBSET D : Cardinality(T) = n /\ T \notin Q
  OBVIOUS
<1>5. ASSUME NEW x \in T PROVE T \ {x} \in Q
  <2>1. Cardinality(T \ {x}) = Cardinality(T) - 1
    BY <1>0, FS_RemoveElement
  <2>2. Cardinality(T \ {x}) \in Nat /\ Cardinality(T) \in Nat /\ T \ {x} \in SUBSET D
    BY <1>0
  <2>3. Cardinality(T \ {x}) < n
    BY <1>4, <2>1, <2>2
  <2>. QED
    BY <1>3, <2>2, <2>3
<1>. QED
  BY <1>4, <1>5

(* The row a fold takes first, and one turn of it.                         *)
First(s)      == CHOOSE x \in s : TRUE
Turn(g, s, A) == IF s = {} THEN 0 ELSE A[First(s)] + g[s \ {First(s)}]
Folding(g, S, A) == g = [s \in SUBSET S |-> Turn(g, s, A)]

(* The sum is what some folding of the rows yields.                        *)
LEMMA SumUnfolds ==
    ASSUME NEW S, NEW A
    PROVE  SumOf(S, A) = (CHOOSE g : Folding(g, S, A))[S]
  BY DEF SumOf, SumFunctionOnSet, FoldFunctionOnSet, MapThenFoldSet, Folding, Turn, First

(* Finitely many rows have a folding.                                      *)
LEMMA FoldingExists ==
    ASSUME NEW S, IsFiniteSet(S), NEW A
    PROVE  \E g : Folding(g, S, A)
<1>. DEFINE Small(n) == {s \in SUBSET S : Cardinality(s) <= n}
            Good(n)  == \E g : \A s \in Small(n) : g[s] = Turn(g, s, A)
            N == Cardinality(S)
            Q == {T \in SUBSET S : Good(Cardinality(T))}
<1>1. \A s \in SUBSET S : IsFiniteSet(s) /\ Cardinality(s) \in Nat /\ Cardinality(s) <= N
  BY FS_Subset, FS_CardinalityType
<1>2. Good(0)
  <2>1. ASSUME NEW s \in Small(0) PROVE s = {}
    <3>1. IsFiniteSet(s) /\ Cardinality(s) \in Nat /\ Cardinality(s) <= 0
      BY <1>1
    <3>. QED
      BY <3>1, FS_EmptySet
  <2>2. \A s \in Small(0) : [s1 \in {{}} |-> 0][s] = Turn([s1 \in {{}} |-> 0], s, A)
    BY <2>1 DEF Turn
  <2>. QED
    BY <2>2
<1>3. ASSUME NEW T \in SUBSET S, \A x \in T : T \ {x} \in Q
      PROVE  T \in Q
  <2>0. CASE T = {}
    BY <1>2, <2>0, FS_EmptySet
  <2>1. CASE T # {}
    <3>1. PICK x \in T : T \ {x} \in Q
      BY <1>3, <2>1
    <3>2. PICK n \in Nat : n = Cardinality(T \ {x})
      BY <1>1
    <3>3. Cardinality(T) = n + 1
      BY <1>1, <3>2, FS_RemoveElement
    <3>4. Good(n)
      BY <3>1, <3>2
    <3>5. PICK g : \A s \in Small(n) : g[s] = Turn(g, s, A)
      BY <3>4
    <3>. DEFINE h == [s \in SUBSET S |-> Turn(g, s, A)]
    <3>6. ASSUME NEW s \in Small(n + 1) PROVE h[s] = Turn(h, s, A)
      <4>1. CASE s = {}
        BY <4>1 DEF Turn
      <4>2. CASE s # {}
        <5>1. First(s) \in s
          BY <4>2 DEF First
        <5>2. PICK u : u = s \ {First(s)}
          OBVIOUS
        <5>3. Cardinality(u) = Cardinality(s) - 1
          BY <1>1, <5>1, <5>2, FS_RemoveElement
        <5>4. u \in SUBSET S /\ Cardinality(u) <= n
          BY <1>1, <5>2, <5>3
        <5>5. h[u] = g[u]
          BY <3>5, <5>4
        <5>. QED
          BY <4>2, <5>2, <5>5 DEF Turn
      <4>. QED
        BY <4>1, <4>2
    <3>7. Good(n + 1)
      BY <3>6
    <3>. QED
      BY <3>3, <3>7
  <2>. QED
    BY <2>0, <2>1
<1>4. \A T \in SUBSET S : T \in Q
  <2>. HIDE DEF Q
  <2>. QED
    BY <1>3, SubsetInduction
<1>5. PICK g : \A s \in Small(N) : g[s] = Turn(g, s, A)
  BY <1>4
<1>6. Small(N) = SUBSET S
  BY <1>1
<1>. DEFINE k == [s \in SUBSET S |-> g[s]]
<1>7. ASSUME NEW s \in SUBSET S PROVE k[s] = Turn(k, s, A)
  BY <1>5, <1>6 DEF Turn
<1>8. k = [s \in SUBSET S |-> Turn(k, s, A)]
  BY <1>7
<1>. QED
  BY <1>8 DEF Folding

(* Two foldings agree on the rows they share.                              *)
LEMMA FoldingsAgree ==
    ASSUME NEW S, NEW T, IsFiniteSet(S), NEW A, NEW g, NEW h,
           Folding(g, S, A), Folding(h, T, A), T \subseteq S
    PROVE  g[T] = h[T]
<1>. DEFINE Q == {U \in SUBSET T : g[U] = h[U]}
<1>1. IsFiniteSet(T)
  BY FS_Subset
<1>2. \A U \in SUBSET T : g[U] = Turn(g, U, A) /\ h[U] = Turn(h, U, A)
  BY DEF Folding
<1>3. ASSUME NEW U \in SUBSET T, \A x \in U : U \ {x} \in Q PROVE U \in Q
  <2>1. CASE U = {}
    BY <1>2, <2>1 DEF Turn
  <2>2. CASE U # {}
    <3>1. First(U) \in U
      BY <2>2 DEF First
    <3>2. g[U \ {First(U)}] = h[U \ {First(U)}]
      BY <1>3, <3>1
    <3>. QED
      BY <1>2, <2>2, <3>2 DEF Turn
  <2>. QED
    BY <2>1, <2>2
<1>4. \A U \in SUBSET T : U \in Q
  <2>. HIDE DEF Q
  <2>. QED
    BY <1>1, <1>3, SubsetInduction
<1>. QED
  BY <1>4

(* The sum over no rows is zero, and over others it begins with some row.  *)
LEMMA SumTurns ==
    ASSUME NEW S, IsFiniteSet(S), NEW A
    PROVE  /\ S = {} => SumOf(S, A) = 0
           /\ S # {} => /\ First(S) \in S
                        /\ SumOf(S, A) = A[First(S)] + SumOf(S \ {First(S)}, A)
<1>1. PICK g : Folding(g, S, A) /\ SumOf(S, A) = g[S]
  <2>1. \E g : Folding(g, S, A)
    BY FoldingExists
  <2>2. PICK g : g = CHOOSE h : Folding(h, S, A)
    OBVIOUS
  <2>3. Folding(g, S, A)
    BY <2>1, <2>2
  <2>4. SumOf(S, A) = g[S]
    BY <2>2, SumUnfolds
  <2>. QED
    BY <2>3, <2>4
<1>2. g[S] = Turn(g, S, A)
  BY <1>1 DEF Folding
<1>3. CASE S = {}
  BY <1>1, <1>2, <1>3 DEF Turn
<1>4. CASE S # {}
  <2>1. First(S) \in S
    BY <1>4 DEF First
  <2>2. PICK T : T = S \ {First(S)}
    OBVIOUS
  <2>3. T \subseteq S /\ IsFiniteSet(T)
    BY <2>2, FS_Subset
  <2>4. PICK h : Folding(h, T, A) /\ SumOf(T, A) = h[T]
    <3>1. \E h : Folding(h, T, A)
      BY <2>3, FoldingExists
    <3>2. PICK h : h = CHOOSE k : Folding(k, T, A)
      OBVIOUS
    <3>3. Folding(h, T, A)
      BY <3>1, <3>2
    <3>4. SumOf(T, A) = h[T]
      BY <3>2, SumUnfolds
    <3>. QED
      BY <3>3, <3>4
  <2>5. g[T] = h[T]
    BY <1>1, <2>3, <2>4, FoldingsAgree
  <2>. QED
    BY <1>1, <1>2, <1>4, <2>1, <2>2, <2>4, <2>5 DEF Turn
<1>. QED
  BY <1>3, <1>4

(* A sum of integers is an integer.                                        *)
LEMMA SumOfType ==
    ASSUME NEW S, IsFiniteSet(S), NEW A, \A x \in S : A[x] \in Int
    PROVE  SumOf(S, A) \in Int
<1>. DEFINE Q == {T \in SUBSET S : SumOf(T, A) \in Int}
<1>1. ASSUME NEW T \in SUBSET S, \A x \in T : T \ {x} \in Q PROVE T \in Q
  <2>1. IsFiniteSet(T)
    BY FS_Subset
  <2>2. CASE T = {}
    BY <2>1, <2>2, SumTurns
  <2>3. CASE T # {}
    <3>1. First(T) \in T /\ SumOf(T, A) = A[First(T)] + SumOf(T \ {First(T)}, A)
      BY <2>1, <2>3, SumTurns
    <3>. QED
      BY <1>1, <3>1
  <2>. QED
    BY <2>2, <2>3
<1>2. \A T \in SUBSET S : T \in Q
  <2>. HIDE DEF Q
  <2>. QED
    BY <1>1, SubsetInduction
<1>. QED
  BY <1>2

(* Any row may be taken out: the order of the rows does not matter.        *)
LEMMA SumOfTake ==
    ASSUME NEW S, IsFiniteSet(S), NEW A, \A x \in S : A[x] \in Int, NEW x \in S
    PROVE  SumOf(S, A) = A[x] + SumOf(S \ {x}, A)
<1>. DEFINE Q == {T \in SUBSET S : \A y \in T : SumOf(T, A) = A[y] + SumOf(T \ {y}, A)}
<1>1. ASSUME NEW T \in SUBSET S, \A y \in T : T \ {y} \in Q PROVE T \in Q
  <2>. SUFFICES ASSUME NEW y \in T PROVE SumOf(T, A) = A[y] + SumOf(T \ {y}, A)
    OBVIOUS
  <2>1. IsFiniteSet(T)
    BY FS_Subset
  <2>2. PICK f : f = First(T)
    OBVIOUS
  <2>3. f \in T /\ SumOf(T, A) = A[f] + SumOf(T \ {f}, A)
    BY <2>1, <2>2, SumTurns
  <2>4. CASE y = f
    BY <2>3, <2>4
  <2>5. CASE y # f
    <3>1. SumOf(T \ {f}, A) = A[y] + SumOf((T \ {f}) \ {y}, A)
      BY <1>1, <2>3, <2>5
    <3>2. SumOf(T \ {y}, A) = A[f] + SumOf((T \ {y}) \ {f}, A)
      BY <1>1, <2>3, <2>5
    <3>3. (T \ {f}) \ {y} = (T \ {y}) \ {f}
      OBVIOUS
    <3>4. SumOf((T \ {y}) \ {f}, A) \in Int
      <4>1. IsFiniteSet((T \ {y}) \ {f})
        BY <2>1, FS_Subset
      <4>. QED
        BY <4>1, SumOfType
    <3>5. PICK a, b, m \in Int :
            a = A[f] /\ b = A[y] /\ m = SumOf((T \ {y}) \ {f}, A)
      BY <2>3, <3>4
    <3>6. SumOf(T, A) = a + (b + m) /\ SumOf(T \ {y}, A) = a + m
      BY <2>3, <3>1, <3>2, <3>3, <3>5
    <3>7. a + (b + m) = b + (a + m)
      OBVIOUS
    <3>. QED
      BY <3>5, <3>6, <3>7
  <2>. QED
    BY <2>4, <2>5
<1>2. \A T \in SUBSET S : T \in Q
  <2>. HIDE DEF Q
  <2>. QED
    BY <1>1, SubsetInduction
<1>. QED
  BY <1>2

(* The sum of one row.                                                     *)
LEMMA SumOfOne ==
    ASSUME NEW A, NEW x, A[x] \in Int
    PROVE  SumOf({x}, A) = A[x]
<1>1. IsFiniteSet({x}) /\ {x} \ {x} = {}
  BY FS_Singleton
<1>2. SumOf({x}, A) = A[x] + SumOf({x} \ {x}, A)
  BY <1>1, SumOfTake
<1>3. SumOf({x} \ {x}, A) = 0
  BY <1>1, SumTurns, FS_EmptySet
<1>. QED
  BY <1>2, <1>3

(* What is earned and what is spent are summed together or apart.          *)
LEMMA SumOfTotals ==
    ASSUME NEW S, IsFiniteSet(S), NEW max \in Nat, NEW A, NEW B, NEW C,
           \A x \in S : A[x] \in 0..max /\ B[x] \in 0..max /\ C[x] = A[x] - B[x]
    PROVE  SumOf(S, C) = Total(S, A, max) - Total(S, B, max)
<1>. DEFINE Q == {T \in SUBSET S : SumOf(T, C) = Total(T, A, max) - Total(T, B, max)}
<1>1. ASSUME NEW T \in SUBSET S, \A x \in T : T \ {x} \in Q PROVE T \in Q
  <2>1. IsFiniteSet(T)
    BY FS_Subset
  <2>2. CASE T = {}
    <3>1. SumOf(T, C) = 0 /\ Total(T, A, max) = 0 /\ Total(T, B, max) = 0
      BY <2>1, <2>2, SumTurns, TotalEmpty
    <3>. QED
      BY <3>1
  <2>3. CASE T # {}
    <3>1. PICK x \in T : TRUE
      BY <2>3
    <3>2. /\ A[x] \in 0..max /\ B[x] \in 0..max /\ C[x] = A[x] - B[x]
          /\ \A y \in T : C[y] \in Int
      OBVIOUS
    <3>3. SumOf(T, C) = C[x] + SumOf(T \ {x}, C)
      BY <2>1, <3>2, SumOfTake
    <3>4. SumOf(T \ {x}, C) = Total(T \ {x}, A, max) - Total(T \ {x}, B, max)
      BY <1>1
    <3>5. /\ Total(T, A, max) = Total(T \ {x}, A, max) + A[x]
          /\ Total(T, B, max) = Total(T \ {x}, B, max) + B[x]
          /\ Total(T \ {x}, A, max) \in Nat /\ Total(T \ {x}, B, max) \in Nat
      BY <2>1, <3>2, TotalSplit
    <3>6. SumOf(T, C) = Total(T, A, max) - Total(T, B, max)
      BY <3>2, <3>3, <3>4, <3>5
    <3>. QED
      BY <3>6
  <2>. QED
    BY <2>2, <2>3
<1>2. \A T \in SUBSET S : T \in Q
  <2>. HIDE DEF Q
  <2>. QED
    BY <1>1, SubsetInduction
<1>. QED
  BY <1>2
=============================================================================
