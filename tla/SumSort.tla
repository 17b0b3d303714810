------------------------------ MODULE SumSort --------------------------------
(* Sums and sorted orders, in a form that proofs can use. *)
EXTENDS Naturals, Sequences, FiniteSets

\* s[1] + ... + s[Len(s)], by partial sums.
Total(s) ==
    LET sum[n \in 0..Len(s)] == IF n = 0 THEN 0 ELSE sum[n - 1] + s[n]
    IN  sum[Len(s)]

\* The numbers 1..n sorted by a strict total order R: the k-th is the one that
\* k - 1 others precede.
Sorted(n, R) ==
    [k \in 1..n |-> CHOOSE i \in 1..n : Cardinality({j \in 1..n : <<j, i>> \in R}) = k - 1]

\* The elements of a finite set of numbers in ascending order.
Ascending(S) ==
    CHOOSE s \in [1..Cardinality(S) -> S] : \A m, n \in DOMAIN s : m < n => s[m] < s[n]

\* The elements of a sequence at some of its positions, in order.
Picked(s, S) == LET at == Ascending(S) IN [n \in DOMAIN at |-> s[at[n]]]
=============================================================================
