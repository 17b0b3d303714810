----------------------------- MODULE DataLemmas -----------------------------
(***************************************************************************)
(* What the proofs of the other modules need of sequences, sorted orders   *)
(* and sums.  A sum is a recursive function: that it satisfies its own     *)
(* equation at all takes an induction, which is done by the least          *)
(* counterexample.                                                         *)
(***************************************************************************)
EXTENDS SumSort, SequenceTheorems, FiniteSetTheorems, WellFoundedInduction, TLAPS

\* A function on 1..n is a sequence of length n.
LEMMA FunctionIsSeq ==
    ASSUME NEW S, NEW n \in Nat, NEW f \in [1..n -> S] PROVE f \in Seq(S) /\ Len(f) = n
<1>1. f \in Seq(S)
  BY SeqDef
<1>2. DOMAIN f = 1..n
  OBVIOUS
<1> QED
  BY <1>1, <1>2, LenProperties

\* Every set of numbers that is not empty has a least element.
LEMMA LeastNumber == ASSUME NEW T \in SUBSET Nat, T # {} PROVE \E k \in T : \A m \in T : k <= m
<1> DEFINE F == {0..k : k \in T}
<1>1. IsWellFoundedOn(StrictSubsetOrdering(Nat), FiniteSubsetsOf(Nat))
  BY FS_StrictSubsetOrderingWellFounded
<1>2. F \subseteq FiniteSubsetsOf(Nat)
  <2> SUFFICES ASSUME NEW k \in T PROVE 0..k \in FiniteSubsetsOf(Nat)
    OBVIOUS
  <2>1. 0 \in Int /\ k \in Int /\ 0..k \subseteq Nat
    OBVIOUS
  <2>2. IsFiniteSet(0..k)
    BY <2>1, FS_Interval
  <2> QED
    BY <2>1, <2>2 DEF FiniteSubsetsOf
<1>3. F # {}
  OBVIOUS
<1>4. PICK x \in F : \A y \in F : ~(<<y, x>> \in StrictSubsetOrdering(Nat))
  <2> HIDE DEF F
  <2> QED
    BY <1>1, <1>2, <1>3, WFMin
<1>5. PICK k \in T : x = 0..k
  OBVIOUS
<1>6. ASSUME NEW m \in T PROVE k <= m
  <2> SUFFICES ASSUME m < k PROVE FALSE
    OBVIOUS
  <2>1. 0..m \in F
    OBVIOUS
  <2>2. 0..m \subseteq 0..k /\ k \in 0..k /\ k \notin 0..m /\ 0..k \subseteq Nat
    OBVIOUS
  <2>3. 0..m # 0..k /\ 0..m \in SUBSET Nat /\ 0..k \in SUBSET Nat
    BY <2>2
  <2>4. <<0..m, 0..k>> \in StrictSubsetOrdering(Nat)
    BY <2>2, <2>3 DEF StrictSubsetOrdering
  <2> QED
    BY <2>1, <2>4, <1>4, <1>5
<1> QED
  BY <1>6

\* sum holds the sums of the first 0, 1, ... k elements of s.
SumsTo(sum, s, k) ==
    /\ sum \in [0..k -> Nat]
    /\ \A n \in 0..k : sum[n] = IF n = 0 THEN 0 ELSE sum[n - 1] + s[n]

\* The partial sums exist.
LEMMA SumsExist ==
    ASSUME NEW s \in Seq(Nat), NEW k \in 0..Len(s) PROVE \E sum : SumsTo(sum, s, k)
<1> DEFINE T == {j \in 0..Len(s) : ~\E sum : SumsTo(sum, s, j)}
<1> SUFFICES ASSUME T # {} PROVE FALSE
  OBVIOUS
<1>1. PICK j \in T : \A m \in T : j <= m
  <2>1. T \in SUBSET Nat
    OBVIOUS
  <2> HIDE DEF T
  <2> QED
    BY <2>1, LeastNumber
<1>2. j \in 0..Len(s) /\ Len(s) \in Nat /\ ~\E sum : SumsTo(sum, s, j)
  BY <1>1
<1>3. j # 0
  <2>1. SumsTo([n \in 0..0 |-> 0], s, 0)
    BY DEF SumsTo
  <2> QED
    BY <1>2, <2>1
<1>4. PICK sum : SumsTo(sum, s, j - 1)
  <2>1. j - 1 \in 0..Len(s) /\ ~(j <= j - 1)
    BY <1>2, <1>3
  <2> QED
    BY <1>1, <2>1
<1> DEFINE more == [n \in 0..j |-> IF n = j THEN sum[j - 1] + s[j] ELSE sum[n]]
<1>5. SumsTo(more, s, j)
  <2>1. j \in 1..Len(s) /\ s[j] \in Nat /\ j - 1 \in 0..(j - 1)
    BY <1>2, <1>3
  <2>2. sum \in [0..(j - 1) -> Nat] /\ \A n \in 0..(j - 1) : sum[n] = IF n = 0 THEN 0 ELSE sum[n - 1] + s[n]
    BY <1>4 DEF SumsTo
  <2>3. more \in [0..j -> Nat]
    <3> SUFFICES ASSUME NEW n \in 0..j PROVE (IF n = j THEN sum[j - 1] + s[j] ELSE sum[n]) \in Nat
      OBVIOUS
    <3> QED
      BY <2>1, <2>2
  <2>4. ASSUME NEW n \in 0..j PROVE more[n] = IF n = 0 THEN 0 ELSE more[n - 1] + s[n]
    <3>1. CASE n = j
      <4>1. more[n] = sum[j - 1] + s[j] /\ more[j - 1] = sum[j - 1]
        BY <2>1, <3>1
      <4> HIDE DEF more
      <4> QED
        BY <1>3, <3>1, <4>1
    <3>2. CASE n # j
      <4>1. n \in 0..(j - 1) /\ (n # 0 => n - 1 \in 0..j /\ n - 1 # j)
        BY <2>1, <3>2
      <4>2. more[n] = sum[n] /\ (n # 0 => more[n - 1] = sum[n - 1])
        BY <3>2, <4>1
      <4> HIDE DEF more
      <4> QED
        BY <2>2, <4>1, <4>2
    <3> QED
      BY <3>1, <3>2
  <2> HIDE DEF more
  <2> QED
    BY <2>3, <2>4 DEF SumsTo
<1> HIDE DEF more
<1> QED
  BY <1>2, <1>5

\* The sums of two sequences agree as far as the sequences do.
LEMMA SumsAgree ==
    ASSUME NEW s \in Seq(Nat), NEW r \in Seq(Nat), NEW k \in 0..Len(s), NEW l \in 0..Len(r), k <= l,
           \A n \in 1..k : s[n] = r[n],
           NEW f, SumsTo(f, s, k), NEW g, SumsTo(g, r, l)
    PROVE  f[k] = g[k]
<1> DEFINE T == {j \in 0..k : f[j] # g[j]}
<1> SUFFICES ASSUME T # {} PROVE FALSE
  OBVIOUS
<1>1. PICK j \in T : \A m \in T : j <= m
  <2>1. T \in SUBSET Nat
    OBVIOUS
  <2> HIDE DEF T
  <2> QED
    BY <2>1, LeastNumber
<1>2. j \in 0..k /\ j \in 0..l /\ f[j] # g[j]
  BY <1>1
<1>3. f[j] = (IF j = 0 THEN 0 ELSE f[j - 1] + s[j]) /\ g[j] = IF j = 0 THEN 0 ELSE g[j - 1] + r[j]
  BY <1>2 DEF SumsTo
<1>4. j # 0
  BY <1>2, <1>3
<1>5. j - 1 \in 0..k /\ ~(j <= j - 1) /\ j \in 1..k
  BY <1>2, <1>4
<1>6. f[j - 1] = g[j - 1]
  BY <1>1, <1>5
<1> QED
  BY <1>2, <1>3, <1>4, <1>5, <1>6

\* Total is the last of the partial sums.
LEMMA TotalIsLast ==
    ASSUME NEW s \in Seq(Nat)
    PROVE  \E sum : SumsTo(sum, s, Len(s)) /\ Total(s) = sum[Len(s)]
<1> DEFINE Sum == CHOOSE sum : sum = [n \in 0..Len(s) |-> IF n = 0 THEN 0 ELSE sum[n - 1] + s[n]]
<1>1. PICK f : SumsTo(f, s, Len(s))
  BY SumsExist
<1>2. f = [n \in 0..Len(s) |-> IF n = 0 THEN 0 ELSE f[n - 1] + s[n]]
  BY <1>1 DEF SumsTo
<1>3. Sum = [n \in 0..Len(s) |-> IF n = 0 THEN 0 ELSE Sum[n - 1] + s[n]]
  BY <1>2
<1>4. Sum = f
  <2> HIDE DEF Sum
  <2> DEFINE T == {j \in 0..Len(s) : Sum[j] # f[j]}
  <2>1. ASSUME T # {} PROVE FALSE
    <3>1. PICK j \in T : \A m \in T : j <= m
      <4>1. T \in SUBSET Nat
        OBVIOUS
      <4> HIDE DEF T
      <4> QED
        BY <2>1, <4>1, LeastNumber
    <3>2. j \in 0..Len(s) /\ Sum[j] # f[j]
      BY <3>1
    <3>3. Sum[j] = (IF j = 0 THEN 0 ELSE Sum[j - 1] + s[j]) /\ f[j] = IF j = 0 THEN 0 ELSE f[j - 1] + s[j]
      BY <1>2, <1>3, <3>2
    <3>4. j # 0
      BY <3>2, <3>3
    <3>5. j - 1 \in 0..Len(s) /\ ~(j <= j - 1)
      BY <3>2, <3>4
    <3>6. Sum[j - 1] = f[j - 1]
      BY <3>1, <3>5
    <3> QED
      BY <3>2, <3>3, <3>4, <3>6
  <2>2. \A j \in 0..Len(s) : Sum[j] = f[j]
    BY <2>1
  <2> QED
    BY <1>2, <1>3, <2>2
<1>5. Total(s) = Sum[Len(s)]
  BY DEF Total
<1> HIDE DEF Sum
<1> QED
  BY <1>1, <1>4, <1>5

\* The sum of no numbers is zero.
LEMMA TotalEmpty == Total(<<>>) = 0
<1>1. <<>> \in Seq(Nat) /\ Len(<<>>) = 0
  BY EmptySeq
<1>2. PICK f : SumsTo(f, <<>>, 0) /\ Total(<<>>) = f[0]
  BY <1>1, TotalIsLast
<1> QED
  BY <1>2 DEF SumsTo

\* Sums are numbers, and a number appended is added.
LEMMA TotalAppend ==
    ASSUME NEW s \in Seq(Nat), NEW x \in Nat
    PROVE  Total(s) \in Nat /\ Total(Append(s, x)) = Total(s) + x
<1> DEFINE r == Append(s, x)
<1>1. /\ r \in Seq(Nat) /\ Len(s) \in Nat /\ Len(r) = Len(s) + 1 /\ r[Len(s) + 1] = x
      /\ \A n \in 1..Len(s) : s[n] = r[n]
  OBVIOUS
<1> HIDE DEF r
<1>2. PICK f : SumsTo(f, s, Len(s)) /\ Total(s) = f[Len(s)]
  BY TotalIsLast
<1>3. PICK g : SumsTo(g, r, Len(s) + 1) /\ Total(r) = g[Len(s) + 1]
  BY <1>1, TotalIsLast
<1>4. f[Len(s)] = g[Len(s)]
  <2>1. Len(s) \in 0..Len(s) /\ Len(s) + 1 \in 0..Len(r) /\ Len(s) <= Len(s) + 1
    BY <1>1
  <2> QED
    BY <1>1, <1>2, <1>3, <2>1, SumsAgree, SMTT(30)
<1>5. f[Len(s)] \in Nat /\ g[Len(s) + 1] = g[Len(s)] + x
  <2>1. f[Len(s)] \in Nat
    BY <1>1, <1>2 DEF SumsTo
  <2>2. Len(s) + 1 \in 0..(Len(s) + 1) /\ Len(s) + 1 # 0 /\ Len(s) + 1 - 1 = Len(s)
    BY <1>1
  <2>3. g[Len(s) + 1] = g[Len(s)] + r[Len(s) + 1]
    BY <1>3, <2>2 DEF SumsTo
  <2> QED
    BY <1>1, <2>1, <2>3
<1> QED
  BY <1>2, <1>3, <1>4, <1>5 DEF r

-----------------------------------------------------------------------------
(* Sorting. *)

\* R orders the numbers 1..n.
OrdersTo(n, R) ==
    /\ \A i \in 1..n : <<i, i>> \notin R
    /\ \A i, j, k \in 1..n : <<i, j>> \in R /\ <<j, k>> \in R => <<i, k>> \in R
    /\ \A i, j \in 1..n : i # j => <<i, j>> \in R \/ <<j, i>> \in R

\* As many numbers precede the k-th as its place says, so that the sorted order
\* has every number once and follows R.
LEMMA SortedFacts ==
    ASSUME NEW n \in Nat, NEW R, OrdersTo(n, R)
    PROVE  /\ Sorted(n, R) \in [1..n -> 1..n]
           /\ \A a, b \in 1..n : a < b => <<Sorted(n, R)[a], Sorted(n, R)[b]>> \in R
           /\ \A i \in 1..n : \E a \in 1..n : Sorted(n, R)[a] = i
<1> DEFINE Before(i) == {j \in 1..n : <<j, i>> \in R}
           count == [i \in 1..n |-> Cardinality(Before(i))]
<1>1. IsFiniteSet(1..n) /\ Cardinality(1..n) = n
  BY FS_Interval
<1>2. ASSUME NEW i \in 1..n PROVE IsFiniteSet(Before(i)) /\ Cardinality(Before(i)) \in 0..(n - 1)
  <2>1. Before(i) \subseteq 1..n /\ i \notin Before(i)
    BY DEF OrdersTo
  <2> HIDE DEF Before
  <2>2. IsFiniteSet(Before(i)) /\ Cardinality(Before(i)) \in Nat
    BY <1>1, <2>1, FS_Subset, FS_CardinalityType
  <2>3. Cardinality(Before(i)) <= n /\ (Cardinality(Before(i)) = n => Before(i) = 1..n)
    BY <1>1, <2>1, FS_Subset
  <2> QED
    BY <2>1, <2>2, <2>3
<1>3. ASSUME NEW i \in 1..n, NEW j \in 1..n, <<i, j>> \in R
      PROVE  /\ Cardinality(Before(i)) < Cardinality(Before(j))
             /\ Cardinality(Before(i)) # Cardinality(Before(j))
  <2>1. Before(i) \subseteq Before(j) /\ i \in Before(j) /\ i \notin Before(i)
    BY <1>3 DEF OrdersTo
  <2>2. IsFiniteSet(Before(j)) /\ Cardinality(Before(i)) \in Nat /\ Cardinality(Before(j)) \in Nat
    BY <1>2
  <2> HIDE DEF Before
  <2>3. Cardinality(Before(i)) <= Cardinality(Before(j)) /\ Cardinality(Before(i)) # Cardinality(Before(j))
    BY <2>1, <2>2, FS_Subset
  <2> QED
    BY <2>2, <2>3
<1>4. count \in Injection(1..n, 0..(n - 1))
  <2>1. count \in [1..n -> 0..(n - 1)]
    BY <1>2
  <2>2. ASSUME NEW i \in 1..n, NEW j \in 1..n, count[i] = count[j] PROVE i = j
    <3>1. count[i] = Cardinality(Before(i)) /\ count[j] = Cardinality(Before(j))
      OBVIOUS
    <3> HIDE DEF Before, count
    <3> QED
      BY <1>3, <2>2, <3>1 DEF OrdersTo
  <2> HIDE DEF count
  <2> QED
    BY <2>1, <2>2 DEF Injection, IsInjective
<1>5. count \in Surjection(1..n, 0..(n - 1))
  <2>1. IsFiniteSet(0..(n - 1)) /\ Cardinality(0..(n - 1)) = n
    BY FS_Interval
  <2> HIDE DEF count
  <2> QED
    BY <1>1, <1>4, <2>1, FS_Injection
<1>6. ASSUME NEW k \in 1..n PROVE \E i \in 1..n : Cardinality(Before(i)) = k - 1
  <2>1. k - 1 \in 0..(n - 1)
    OBVIOUS
  <2>2. PICK i \in 1..n : count[i] = k - 1
    <3> HIDE DEF count
    <3> QED
      BY <1>5, <2>1 DEF Surjection
  <2> QED
    BY <2>2
<1>7. ASSUME NEW k \in 1..n
      PROVE  Sorted(n, R)[k] \in 1..n /\ Cardinality(Before(Sorted(n, R)[k])) = k - 1
  BY <1>6 DEF Sorted
<1>8. Sorted(n, R) \in [1..n -> 1..n]
  BY <1>7 DEF Sorted
<1> HIDE DEF Before, count
<1>9. ASSUME NEW a \in 1..n, NEW b \in 1..n, a < b PROVE <<Sorted(n, R)[a], Sorted(n, R)[b]>> \in R
  <2>1. /\ Sorted(n, R)[a] \in 1..n /\ Cardinality(Before(Sorted(n, R)[a])) = a - 1
        /\ Sorted(n, R)[b] \in 1..n /\ Cardinality(Before(Sorted(n, R)[b])) = b - 1
    BY <1>7
  <2>2. ~(b - 1 < a - 1) /\ a - 1 # b - 1
    BY <1>9
  <2>3. Sorted(n, R)[a] # Sorted(n, R)[b] /\ <<Sorted(n, R)[b], Sorted(n, R)[a]>> \notin R
    BY <1>3, <2>1, <2>2
  <2> QED
    BY <2>1, <2>3 DEF OrdersTo
<1>10. ASSUME NEW i \in 1..n PROVE \E a \in 1..n : Sorted(n, R)[a] = i
  <2>1. PICK m \in 0..(n - 1) : m = Cardinality(Before(i))
    BY <1>2
  <2>2. m + 1 \in 1..n /\ m + 1 - 1 = m
    BY <2>1
  <2>3. Sorted(n, R)[m + 1] \in 1..n /\ Cardinality(Before(Sorted(n, R)[m + 1])) = m
    BY <1>7, <2>2
  <2>4. Sorted(n, R)[m + 1] = i
    <3>1. Cardinality(Before(Sorted(n, R)[m + 1])) = Cardinality(Before(i))
      BY <2>1, <2>3
    <3> QED
      BY <1>3, <2>3, <3>1 DEF OrdersTo
  <2> QED
    BY <2>2, <2>4
<1> QED
  BY <1>8, <1>9, <1>10

Increasing(s) == \A m, n \in DOMAIN s : m < n => s[m] < s[n]
Enumerates(s, S) == s \in [1..Cardinality(S) -> S] /\ Increasing(s)

\* A set of numbers up to n can be listed in ascending order (the declarations
\* that code_chunks finds from top to bottom).
LEMMA AscendingFacts ==
    ASSUME NEW n \in Nat, NEW S \in SUBSET (1..n)
    PROVE  /\ Ascending(S) \in Seq(S) /\ Increasing(Ascending(S))
           /\ Ascending(S) = <<>> => S = {}
           /\ Enumerates(Ascending(S), S) /\ Len(Ascending(S)) = Cardinality(S)
<1> DEFINE Upto(m) == S \cap (1..m)
           T == {m \in 0..n : ~\E s : Enumerates(s, Upto(m))}
<1>1. \A m \in 0..n : IsFiniteSet(Upto(m)) /\ Cardinality(Upto(m)) \in Nat
  <2> SUFFICES ASSUME NEW m \in 0..n PROVE IsFiniteSet(Upto(m)) /\ Cardinality(Upto(m)) \in Nat
    OBVIOUS
  <2>1. IsFiniteSet(1..m)
    <3>1. 1 \in Int /\ m \in Int
      OBVIOUS
    <3> QED
      BY <3>1, FS_Interval
  <2>2. IsFiniteSet(Upto(m))
    BY <2>1, FS_Subset
  <2> QED
    BY <2>2, FS_CardinalityType
<1>2. ASSUME T # {} PROVE FALSE
  <2>1. PICK j \in T : \A m \in T : j <= m
    <3>1. T \in SUBSET Nat
      OBVIOUS
    <3> HIDE DEF T
    <3> QED
      BY <1>2, <3>1, LeastNumber
  <2>2. j \in 0..n /\ ~\E s : Enumerates(s, Upto(j))
    BY <2>1
  <2>3. j # 0
    <3> SUFFICES ASSUME j = 0 PROVE FALSE
      OBVIOUS
    <3>1. Upto(0) = {} /\ Cardinality(Upto(0)) = 0
      BY FS_EmptySet
    <3>2. Enumerates([m \in 1..0 |-> 0], Upto(0))
      BY <3>1 DEF Enumerates, Increasing
    <3> QED
      BY <2>2, <3>2
  <2>4. j - 1 \in 0..n /\ ~(j <= j - 1) /\ j \in 1..n
    BY <2>2, <2>3
  <2>5. PICK s : Enumerates(s, Upto(j - 1))
    BY <2>1, <2>4
  <2>6. CASE j \notin S
    <3>1. Upto(j) = Upto(j - 1)
      BY <2>4, <2>6
    <3> QED
      BY <2>2, <2>5, <3>1
  <2>7. CASE j \in S
    <3> DEFINE c == Cardinality(Upto(j - 1))
               more == [m \in 1..(c + 1) |-> IF m = c + 1 THEN j ELSE s[m]]
    <3>1. Upto(j) = Upto(j - 1) \cup {j} /\ j \notin Upto(j - 1)
      BY <2>4, <2>7
    <3>2. c \in Nat /\ Cardinality(Upto(j)) = c + 1
      BY <1>1, <2>4, <3>1, FS_AddElement
    <3>3. s \in [1..c -> Upto(j - 1)] /\ Increasing(s)
      BY <2>5 DEF Enumerates
    <3> HIDE DEF c
    <3>4. more \in [1..(c + 1) -> Upto(j)]
      BY <3>1, <3>2, <3>3
    <3>5. Increasing(more)
      <4> SUFFICES ASSUME NEW m \in 1..(c + 1), NEW l \in 1..(c + 1), m < l PROVE more[m] < more[l]
        BY DEF Increasing
      <4>1. m \in 1..c /\ more[m] = s[m] /\ s[m] \in 1..(j - 1)
        BY <3>2, <3>3
      <4>2. CASE l = c + 1
        BY <2>4, <4>1, <4>2
      <4>3. CASE l # c + 1
        <5>1. l \in 1..c /\ more[l] = s[l]
          BY <3>2, <4>3
        <5> QED
          BY <3>3, <4>1, <5>1 DEF Increasing
      <4> QED
        BY <4>2, <4>3
    <3>6. Enumerates(more, Upto(j))
      BY <3>2, <3>4, <3>5 DEF Enumerates
    <3> QED
      BY <2>2, <3>6
  <2> QED
    BY <2>6, <2>7
<1>3. Upto(n) = S
  OBVIOUS
<1>4. PICK s : Enumerates(s, S)
  BY <1>2, <1>3
<1>5. Enumerates(Ascending(S), S)
  BY <1>4 DEF Ascending, Enumerates, Increasing
<1>6. Cardinality(S) \in Nat /\ IsFiniteSet(S)
  BY <1>1, <1>3
<1>7. Ascending(S) \in Seq(S) /\ Len(Ascending(S)) = Cardinality(S)
  BY <1>5, <1>6, FunctionIsSeq DEF Enumerates
<1>8. ASSUME Ascending(S) = <<>> PROVE S = {}
  <2>1. Cardinality(S) = 0
    BY <1>7, <1>8, EmptySeq
  <2> QED
    BY <1>6, <2>1, FS_EmptySet
<1> QED
  BY <1>5, <1>7, <1>8 DEF Enumerates

\* No number is left out of such a list (the pages that _read_pdf_pages keeps).
LEMMA EnumeratesAll ==
    ASSUME NEW n \in Nat, NEW S \in SUBSET (1..n), NEW s, Enumerates(s, S), NEW k \in S
    PROVE  \E m \in DOMAIN s : s[m] = k
<1> DEFINE c == Cardinality(S)
<1>1. IsFiniteSet(1..n)
  <2>1. 1 \in Int /\ n \in Int
    OBVIOUS
  <2> QED
    BY <2>1, FS_Interval
<1>2. IsFiniteSet(S) /\ c \in Nat
  BY <1>1, FS_Subset, FS_CardinalityType
<1>3. DOMAIN s = 1..c /\ s \in [1..c -> S] /\ Increasing(s)
  BY DEF Enumerates
<1> HIDE DEF c
<1>4. \A a, b \in 1..c : s[a] = s[b] => a = b
  <2> SUFFICES ASSUME NEW a \in 1..c, NEW b \in 1..c, s[a] = s[b], a # b PROVE FALSE
    OBVIOUS
  <2>1. s[a] \in Nat /\ s[b] \in Nat
    <3>1. s[a] \in S /\ s[b] \in S
      BY <1>3
    <3>2. \A x \in S : x \in Nat
      OBVIOUS
    <3> QED
      BY <3>1, <3>2
  <2>2. a < b \/ b < a
    BY <1>2
  <2> QED
    BY <1>3, <2>1, <2>2 DEF Increasing
<1>5. s \in Injection(1..c, S)
  BY <1>3, <1>4 DEF Injection, IsInjective
<1>6. Cardinality(1..c) = c
  <2>1. 1 \in Int /\ c \in Int
    BY <1>2
  <2> QED
    BY <1>2, <2>1, FS_Interval
<1>7. s \in Surjection(1..c, S)
  BY <1>2, <1>5, <1>6, FS_Injection DEF c
<1> QED
  BY <1>3, <1>7 DEF Surjection

\* There is only one way to list numbers in ascending order.
LEMMA AscendingUnique ==
    ASSUME NEW n \in Nat, NEW S \in SUBSET (1..n), NEW t, Enumerates(t, S)
    PROVE  t = Ascending(S)
<1> DEFINE s == Ascending(S)
           c == Cardinality(S)
           T == {j \in 1..c : s[j] # t[j]}
<1>1. IsFiniteSet(1..n)
  <2>1. 1 \in Int /\ n \in Int
    OBVIOUS
  <2> QED
    BY <2>1, FS_Interval
<1>2. c \in Nat
  BY <1>1, FS_Subset, FS_CardinalityType
<1>4. Enumerates(s, S)
  BY AscendingFacts
<1>5. /\ DOMAIN s = 1..c /\ DOMAIN t = 1..c /\ s \in [1..c -> S] /\ t \in [1..c -> S]
      /\ Increasing(s) /\ Increasing(t) /\ \A x \in S : x \in Nat
  <2>1. \A x \in S : x \in Nat
    OBVIOUS
  <2> QED
    BY <1>4, <2>1 DEF Enumerates
<1>6. ASSUME NEW k \in S PROVE (\E m \in 1..c : s[m] = k) /\ \E m \in 1..c : t[m] = k
  <2> HIDE DEF s, c
  <2>1. \E m \in DOMAIN s : s[m] = k
    BY <1>4, EnumeratesAll
  <2>2. \E m \in DOMAIN t : t[m] = k
    BY EnumeratesAll
  <2> QED
    BY <1>5, <2>1, <2>2
<1> HIDE DEF s, c
<1>7. ASSUME T # {} PROVE FALSE
  <2>1. PICK j \in T : \A m \in T : j <= m
    <3>1. T \in SUBSET Nat
      BY <1>2
    <3> HIDE DEF T
    <3> QED
      BY <1>7, <3>1, LeastNumber
  <2>2. j \in 1..c /\ s[j] # t[j] /\ s[j] \in S /\ t[j] \in S /\ s[j] \in Nat /\ t[j] \in Nat
    BY <1>5, <2>1
  <2>3. \A m \in 1..c : m < j => s[m] = t[m]
    BY <1>2, <2>1
  <2>4. ASSUME s[j] < t[j] PROVE FALSE
    <3>1. PICK m \in 1..c : t[m] = s[j]
      BY <1>6, <2>2
    <3>2. m < j
      <4>1. ~(j < m) /\ j # m
        BY <1>5, <2>2, <2>4, <3>1 DEF Increasing
      <4> QED
        BY <1>2, <2>2, <4>1
    <3>3. s[m] = s[j] /\ s[m] < s[j]
      BY <1>5, <2>2, <2>3, <3>1, <3>2 DEF Increasing
    <3> QED
      BY <2>2, <3>3
  <2>5. ASSUME t[j] < s[j] PROVE FALSE
    <3>1. PICK m \in 1..c : s[m] = t[j]
      BY <1>6, <2>2
    <3>2. m < j
      <4>1. ~(j < m) /\ j # m
        BY <1>5, <2>2, <2>5, <3>1 DEF Increasing
      <4> QED
        BY <1>2, <2>2, <4>1
    <3>3. t[m] = t[j] /\ t[m] < t[j]
      BY <1>5, <2>2, <2>3, <3>1, <3>2 DEF Increasing
    <3> QED
      BY <2>2, <3>3
  <2> QED
    BY <2>2, <2>4, <2>5
<1>8. \A j \in 1..c : s[j] = t[j]
  BY <1>7
<1>9. s = t
  <2>1. s = [j \in 1..c |-> s[j]] /\ t = [j \in 1..c |-> t[j]]
    BY <1>5
  <2>2. [j \in 1..c |-> s[j]] = [j \in 1..c |-> t[j]]
    BY <1>8
  <2> QED
    BY <2>1, <2>2
<1> QED
  BY <1>9 DEF s

\* A number above all others comes last in the list.
LEMMA AscendingNext ==
    ASSUME NEW n \in Nat, NEW S \in SUBSET (1..n)
    PROVE  /\ Ascending(S \cup {n + 1}) \in Seq(S \cup {n + 1})
           /\ Len(Ascending(S \cup {n + 1})) = Len(Ascending(S)) + 1
           /\ \A m \in 1..Len(Ascending(S)) : Ascending(S \cup {n + 1})[m] = Ascending(S)[m]
           /\ Ascending(S \cup {n + 1})[Len(Ascending(S)) + 1] = n + 1
<1> DEFINE s == Ascending(S)
           c == Cardinality(S)
           R == S \cup {n + 1}
           t == [m \in 1..(c + 1) |-> IF m = c + 1 THEN n + 1 ELSE s[m]]
<1>1. IsFiniteSet(S) /\ c \in Nat
  <2>1. 1 \in Int /\ n \in Int
    OBVIOUS
  <2>2. IsFiniteSet(1..n)
    BY <2>1, FS_Interval
  <2> QED
    BY <2>2, FS_Subset, FS_CardinalityType
<1>2. s \in Seq(S) /\ Increasing(s) /\ Len(s) = c
  BY AscendingFacts
<1>3. n + 1 \notin S /\ R \in SUBSET (1..(n + 1)) /\ \A x \in S : x \in Nat /\ x < n + 1
  OBVIOUS
<1>4. Cardinality(R) = c + 1
  BY <1>1, <1>3, FS_AddElement
<1> HIDE DEF s, c
<1>5. DOMAIN s = 1..c /\ \A m \in 1..c : s[m] \in S
  BY <1>2
<1>6. t \in [1..(c + 1) -> R]
  <2> SUFFICES ASSUME NEW m \in 1..(c + 1) PROVE (IF m = c + 1 THEN n + 1 ELSE s[m]) \in R
    OBVIOUS
  <2> QED
    BY <1>1, <1>5
<1>7. Increasing(t)
  <2> SUFFICES ASSUME NEW m \in 1..(c + 1), NEW l \in 1..(c + 1), m < l PROVE t[m] < t[l]
    BY DEF Increasing
  <2>1. m \in 1..c /\ t[m] = s[m] /\ s[m] \in S
    BY <1>1, <1>5
  <2>2. CASE l = c + 1
    BY <1>3, <2>1, <2>2
  <2>3. CASE l # c + 1
    <3>1. l \in 1..c /\ t[l] = s[l]
      BY <1>1, <2>3
    <3> QED
      BY <1>2, <1>5, <2>1, <3>1 DEF Increasing
  <2> QED
    BY <2>2, <2>3
<1>8. t[c + 1] = n + 1 /\ \A m \in 1..c : t[m] = s[m]
  BY <1>1
<1> HIDE DEF t, R
<1>9. Enumerates(t, R)
  BY <1>4, <1>6, <1>7 DEF Enumerates
<1>10. t = Ascending(R)
  <2>1. n + 1 \in Nat
    OBVIOUS
  <2> QED
    BY <1>3, <1>9, <2>1, AscendingUnique
<1>11. t \in Seq(R) /\ Len(t) = c + 1
  <2>1. c + 1 \in Nat
    BY <1>1
  <2> QED
    BY <1>6, <2>1, FunctionIsSeq
<1> QED
  BY <1>2, <1>8, <1>10, <1>11 DEF s, R

\* Ascending leaves out none of the numbers.
LEMMA AscendingOnto ==
    ASSUME NEW n \in Nat, NEW S \in SUBSET (1..n)
    PROVE  \A k \in S : \E m \in DOMAIN Ascending(S) : Ascending(S)[m] = k
<1> DEFINE s == Ascending(S)
<1>1. Enumerates(s, S)
  BY AscendingFacts
<1> HIDE DEF s
<1>2. ASSUME NEW k \in S PROVE \E m \in DOMAIN s : s[m] = k
  BY <1>1, EnumeratesAll, SMTT(30)
<1> QED
  BY <1>2 DEF s

\* What is picked from a sequence is of it.
LEMMA PickedFacts ==
    ASSUME NEW E, NEW s \in Seq(E), NEW S \in SUBSET (1..Len(s))
    PROVE  /\ Picked(s, S) \in Seq(E) /\ Len(Picked(s, S)) = Len(Ascending(S))
           /\ \A m \in DOMAIN Picked(s, S) : \E k \in S : Picked(s, S)[m] = s[k]
<1> DEFINE at == Ascending(S)
           n == Len(at)
<1>1. at \in Seq(S)
  BY AscendingFacts, LenProperties
<1>2. n \in Nat /\ DOMAIN at = 1..n /\ \A m \in 1..n : at[m] \in S
  BY <1>1, LenProperties, ElementOfSeq
<1>3. Picked(s, S) = [m \in 1..n |-> s[at[m]]]
  BY <1>2 DEF Picked
<1> HIDE DEF at, n
<1>4. \A m \in 1..n : s[at[m]] \in E
  <2>1. \A k \in 1..Len(s) : s[k] \in E
    BY ElementOfSeq
  <2> QED
    BY <1>2, <2>1
<1>5. Picked(s, S) \in [1..n -> E]
  BY <1>3, <1>4
<1>6. Picked(s, S) \in Seq(E) /\ Len(Picked(s, S)) = n
  BY <1>2, <1>5, FunctionIsSeq
<1> QED
  BY <1>2, <1>3, <1>6 DEF n, at

\* Picking nothing, everything, or everything but the first.
LEMMA PickedNone == ASSUME NEW s PROVE Picked(s, {}) = <<>>
<1>1. Ascending({}) \in Seq({}) /\ Len(Ascending({})) = 0
  <2>1. {} \in SUBSET (1..0) /\ Cardinality({}) = 0
    BY FS_EmptySet
  <2> QED
    BY <2>1, AscendingFacts
<1>2. Ascending({}) = <<>>
  BY <1>1, EmptySeq
<1> QED
  BY <1>2 DEF Picked

LEMMA PickedRest ==
    ASSUME NEW E, NEW s \in Seq(E), NEW j \in Nat, j <= Len(s)
    PROVE  Picked(s, (j + 1)..Len(s)) = [k \in 1..(Len(s) - j) |-> s[k + j]]
<1>1. PICK n \in Nat : n = Len(s)
  BY LenProperties
<1> DEFINE S == (j + 1)..n
           t == [k \in 1..(n - j) |-> k + j]
<1>2. S \in SUBSET (1..n) /\ j <= n
  BY <1>1
<1>3. Cardinality(S) = n - j
  <2>1. j + 1 \in Int /\ n \in Int
    OBVIOUS
  <2>2. Cardinality(S) = IF j + 1 > n THEN 0 ELSE n - (j + 1) + 1
    BY <2>1, FS_Interval
  <2> QED
    BY <1>2, <2>2
<1>4. Enumerates(t, S)
  <2>1. t \in [1..(n - j) -> S] /\ Increasing(t)
    BY <1>2 DEF Increasing
  <2> QED
    BY <1>3, <2>1 DEF Enumerates
<1>5. t = Ascending(S)
  BY <1>2, <1>4, AscendingUnique
<1>6. Picked(s, S) = [k \in DOMAIN t |-> s[t[k]]]
  BY <1>5 DEF Picked
<1> QED
  BY <1>1, <1>2, <1>6

LEMMA PickedAll == ASSUME NEW E, NEW s \in Seq(E) PROVE Picked(s, 1..Len(s)) = s
<1>1. PICK n \in Nat : n = Len(s)
  BY LenProperties
<1>2. s = [k \in 1..n |-> s[k]]
  BY <1>1, LenProperties
<1>3. Picked(s, (0 + 1)..n) = [k \in 1..(n - 0) |-> s[k + 0]]
  BY <1>1, PickedRest
<1>4. (0 + 1)..n = 1..n /\ 1..(n - 0) = 1..n /\ \A k \in 1..n : k + 0 = k
  OBVIOUS
<1> QED
  BY <1>1, <1>2, <1>3, <1>4
=============================================================================
