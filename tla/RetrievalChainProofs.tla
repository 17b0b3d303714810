------------------------ MODULE RetrievalChainProofs ------------------------
(***************************************************************************)
(* Proofs about Fusion, Selection, ContextPacking and RetrievalChain, for  *)
(* any rankings, weights, minima, limits and budgets: the arithmetic of    *)
(* the fused scores, the fused ranking and the selection from it; then the *)
(* packing alone; then the chain, which is a selection followed by         *)
(* renderings of its results, so that what holds of the two holds of it,   *)
(* and the prompt file, which retraces the context.                        *)
(***************************************************************************)
EXTENDS RetrievalChain, DataLemmas, TLAPS

(* Fractions. *)

\* Products of numbers are numbers, and multiplying keeps their order.
LEMMA TimesKeeps ==
    ASSUME NEW a \in Int, NEW b \in Int, NEW k \in Nat \ {0}
    PROVE  (a <= b <=> a * k <= b * k) /\ (a < b <=> a * k < b * k) /\ a * k \in Int
<1> QED
  OBVIOUS

\* Comparing fractions by their cross products is transitive.
LEMMA FractionOrder ==
    ASSUME NEW f \in Nat, NEW g \in Nat, NEW h \in Nat,
           NEW p \in Nat \ {0}, NEW q \in Nat \ {0}, NEW r \in Nat \ {0},
           f * q >= g * p, g * r >= h * q
    PROVE  /\ f * r >= h * p
           /\ f * q > g * p \/ g * r > h * q => f * r > h * p
<1>1. (f * q) * r >= (g * p) * r /\ (f * q > g * p => (f * q) * r > (g * p) * r)
  BY TimesKeeps
<1>2. (g * r) * p >= (h * q) * p /\ (g * r > h * q => (g * r) * p > (h * q) * p)
  BY TimesKeeps
<1>3. (g * p) * r = (g * r) * p /\ (f * q) * r = (f * r) * q /\ (h * q) * p = (h * p) * q
  OBVIOUS
<1>4. f * r \in Nat /\ h * p \in Nat
  OBVIOUS
<1>5. (f * r) * q >= (h * p) * q /\ (f * q > g * p \/ g * r > h * q => (f * r) * q > (h * p) * q)
  BY <1>1, <1>2, <1>3
<1> QED
  BY <1>4, <1>5, TimesKeeps

\* A sum of two fractions is larger if one part is larger and none smaller.
LEMMA FractionSum ==
    ASSUME NEW a \in Nat, NEW b \in Nat \ {0}, NEW c \in Nat, NEW d \in Nat \ {0},
           NEW e \in Nat, NEW f \in Nat \ {0}, NEW g \in Nat, NEW h \in Nat \ {0},
           a * f >= e * b, c * h >= g * d, a * f > e * b \/ c * h > g * d
    PROVE  (a * d + c * b) * (f * h) > (e * h + g * f) * (b * d)
<1>1. d * h \in Nat \ {0} /\ b * f \in Nat \ {0}
  OBVIOUS
<1>2. (a * f) * (d * h) >= (e * b) * (d * h) /\ (a * f > e * b => (a * f) * (d * h) > (e * b) * (d * h))
  BY <1>1, TimesKeeps
<1>3. (c * h) * (b * f) >= (g * d) * (b * f) /\ (c * h > g * d => (c * h) * (b * f) > (g * d) * (b * f))
  BY <1>1, TimesKeeps
<1>4. (a * d + c * b) * (f * h) = (a * f) * (d * h) + (c * h) * (b * f)
  OBVIOUS
<1>5. (e * h + g * f) * (b * d) = (e * b) * (d * h) + (g * d) * (b * f)
  OBVIOUS
<1> QED
  BY <1>2, <1>3, <1>4, <1>5

\* Rounding to a multiple keeps the order of fractions.
LEMMA RoundingKeeps ==
    ASSUME NEW f \in Nat, NEW g \in Nat, NEW p \in Nat \ {0}, NEW q \in Nat \ {0}, NEW k \in Nat,
           f * q >= g * p
    PROVE  /\ (k * f + 10 * p) \div (20 * p) \in Nat
           /\ (k * f + 10 * p) \div (20 * p) >= (k * g + 10 * q) \div (20 * q)
<1> DEFINE x == (k * f + 10 * p) \div (20 * p)
           y == (k * g + 10 * q) \div (20 * q)
<1>1. ASSUME NEW n \in Nat, NEW m \in Nat \ {0} PROVE n \div m \in Nat /\ (n \div m) * m <= n /\ n < (n \div m + 1) * m
  OBVIOUS
<1>2. /\ k * f + 10 * p \in Nat /\ 20 * p \in Nat \ {0} /\ k * g + 10 * q \in Nat /\ 20 * q \in Nat \ {0}
  OBVIOUS
<1>3. /\ x \in Nat /\ y \in Nat /\ k * f + 10 * p < (x + 1) * (20 * p) /\ y * (20 * q) <= k * g + 10 * q
  BY <1>1, <1>2
<1> HIDE DEF x, y
<1>4. ASSUME x < y PROVE FALSE
  <2>1. (x + 1) * (20 * p) <= y * (20 * p)
    BY <1>3, <1>4, <1>2, TimesKeeps
  <2>2. k * f + 10 * p < y * (20 * p)
    BY <1>2, <1>3, <2>1
  <2>3. (k * f + 10 * p) * q < (y * (20 * p)) * q
    BY <1>2, <1>3, <2>2, TimesKeeps
  <2>4. (y * (20 * q)) * p <= (k * g + 10 * q) * p
    BY <1>2, <1>3, TimesKeeps
  <2>5. (y * (20 * p)) * q = (y * (20 * q)) * p
    BY <1>3
  <2>6. (k * f + 10 * p) * q < (k * g + 10 * q) * p
    BY <1>2, <1>3, <2>3, <2>4, <2>5
  <2>7. (k * f + 10 * p) * q = k * (f * q) + 10 * (p * q) /\ (k * g + 10 * q) * p = k * (g * p) + 10 * (p * q)
    OBVIOUS
  <2>8. k * (f * q) >= k * (g * p)
    OBVIOUS
  <2> QED
    BY <2>6, <2>7, <2>8
<1> QED
  BY <1>3, <1>4 DEF x, y

-----------------------------------------------------------------------------
(* Channels and scores. *)

\* What may be given to the fusion: two rankings without repetitions.
Given(c) == c \in Channels(Items) /\ IsInjective(c.lexical) /\ IsInjective(c.semantic)

\* An active channel is a ranking without repetitions.
LEMMA ChannelFacts ==
    ASSUME NEW c, Given(c)
    PROVE  /\ c.weight \in Nat /\ SemanticWeight(c) \in Nat
           /\ Lexical(c) \in Seq(Items) /\ IsInjective(Lexical(c))
           /\ Semantic(c) \in Seq(Items) /\ IsInjective(Semantic(c))
           /\ Lexical(c) # <<>> => c.weight > 0
           /\ Semantic(c) # <<>> => SemanticWeight(c) > 0
           /\ c.weight = 0 => Lexical(c) = <<>>
           /\ SemanticWeight(c) = 0 => Semantic(c) = <<>>
           /\ c.weight # 0 => Lexical(c) = c.lexical
<1>1. /\ c.weight \in Nat /\ c.lexical \in Seq(Items) /\ c.semantic \in Seq(Items)
      /\ c.option \in SUBSET Nat /\ c.positive \in Nat
      /\ IsInjective(c.lexical) /\ IsInjective(c.semantic)
  BY DEF Given, Channels
<1>2. SemanticWeight(c) \in Nat
  BY <1>1 DEF SemanticWeight
<1>3. <<>> \in Seq(Items) /\ IsInjective(<<>>)
  BY EmptySeq DEF IsInjective
<1>4. ASSUME NEW s, s \in Seq(Items), IsInjective(s), NEW w \in Nat
      PROVE  /\ Active(s, w) \in Seq(Items) /\ IsInjective(Active(s, w))
             /\ Active(s, w) # <<>> => w > 0
             /\ w = 0 => Active(s, w) = <<>>
             /\ w # 0 => Active(s, w) = s
  BY <1>3, <1>4 DEF Active
<1> QED
  BY <1>1, <1>2, <1>4 DEF Lexical, Semantic

\* Position finds the only place of an element.
LEMMA PositionFacts ==
    ASSUME NEW S, NEW s \in Seq(S), IsInjective(s), NEW x
    PROVE  /\ Contains(s, x) <=> x \in ToSet(s)
           /\ Contains(s, x) => Position(s, x) \in 1..Len(s) /\ s[Position(s, x)] = x
           /\ \A i \in 1..Len(s) : Contains(s, s[i]) /\ Position(s, s[i]) = i
<1>1. DOMAIN s = 1..Len(s) /\ Len(s) \in Nat
  OBVIOUS
<1>2. Contains(s, x) <=> x \in ToSet(s)
  BY <1>1 DEF Contains, ToSet
<1>3. ASSUME NEW y, Contains(s, y) PROVE Position(s, y) \in 1..Len(s) /\ s[Position(s, y)] = y
  BY <1>1, <1>3 DEF Contains, Position
<1>4. ASSUME NEW i \in 1..Len(s) PROVE Contains(s, s[i]) /\ Position(s, s[i]) = i
  <2>1. Contains(s, s[i])
    BY DEF Contains
  <2>2. Position(s, s[i]) \in 1..Len(s) /\ s[Position(s, s[i])] = s[i]
    BY <1>3, <2>1
  <2> QED
    BY <1>1, <2>1, <2>2 DEF IsInjective
<1> QED
  BY <1>2, <1>3, <1>4

\* The share of a channel is a fraction.
LEMMA ShareFacts ==
    ASSUME NEW S, NEW s \in Seq(S), IsInjective(s), NEW w \in Nat, NEW x
    PROVE  /\ Share(s, w, x)[1] \in Nat /\ Share(s, w, x)[2] \in Nat \ {0}
           /\ Contains(s, x) => Share(s, w, x) = <<w, RrfK + Position(s, x)>>
           /\ ~Contains(s, x) => Share(s, w, x) = <<0, 1>>
<1>1. Contains(s, x) => Position(s, x) \in 1..Len(s)
  BY PositionFacts
<1>2. Contains(s, x) => RrfK + Position(s, x) \in Nat \ {0}
  BY <1>1, SelectionAssumption
<1> QED
  BY <1>2 DEF Share

\* The fused score is a fraction, and the lexical one a number.
LEMMA ScoreFacts ==
    ASSUME NEW c, Given(c), NEW x
    PROVE  /\ FusedScore(c, x)[1] \in Nat /\ FusedScore(c, x)[2] \in Nat \ {0}
           /\ LexicalScore(c, x) \in Int
<1>1. /\ c.weight \in Nat /\ SemanticWeight(c) \in Nat
      /\ Lexical(c) \in Seq(Items) /\ IsInjective(Lexical(c))
      /\ Semantic(c) \in Seq(Items) /\ IsInjective(Semantic(c))
  BY ChannelFacts
<1> DEFINE l == Share(Lexical(c), c.weight, x)
           s == Share(Semantic(c), SemanticWeight(c), x)
<1>2. l[1] \in Nat /\ l[2] \in Nat \ {0} /\ s[1] \in Nat /\ s[2] \in Nat \ {0}
  BY <1>1, ShareFacts
<1>3. FusedScore(c, x) = <<l[1] * s[2] + s[1] * l[2], l[2] * s[2]>>
  BY DEF FusedScore
<1> HIDE DEF l, s
<1>4. l[1] * s[2] + s[1] * l[2] \in Nat /\ l[2] * s[2] \in Nat \ {0}
  BY <1>2
<1>5. FusedScore(c, x)[1] \in Nat /\ FusedScore(c, x)[2] \in Nat \ {0}
  BY <1>3, <1>4
<1>6. LexicalScore(c, x) \in Int
  <2>1. c.lexical \in Seq(Items) /\ IsInjective(c.lexical) /\ c.positive \in Nat
    BY DEF Given, Channels
  <2>2. Contains(c.lexical, x) => Position(c.lexical, x) \in 1..Len(c.lexical)
    BY <2>1, PositionFacts
  <2>3. Len(c.lexical) \in Nat
    BY <2>1
  <2> QED
    BY <2>2, <2>3 DEF LexicalScore
<1> QED
  BY <1>5, <1>6

-----------------------------------------------------------------------------
(* The keys of the fused dictionary. *)

\* One more entry of the semantic ranking.
Extended(c, s, x) == IF Contains(Lexical(c), x) THEN s ELSE Append(s, x)

\* keys holds the keys after the first 0, 1, ... k entries of the semantic ranking.
KeysTo(keys, c, k) ==
    /\ keys \in [0..k -> Seq(Items)]
    /\ \A n \in 0..k : keys[n] = IF n = 0 THEN Lexical(c) ELSE Extended(c, keys[n - 1], Semantic(c)[n])

\* Every key of the dictionary is a chunk.
LEMMA KeysExist ==
    ASSUME NEW c, Given(c), NEW k \in 0..Len(Semantic(c)) PROVE \E keys : KeysTo(keys, c, k)
<1> DEFINE L == Len(Semantic(c))
           T == {j \in 0..L : ~\E keys : KeysTo(keys, c, j)}
<1> SUFFICES ASSUME T # {} PROVE FALSE
  OBVIOUS
<1>1. Lexical(c) \in Seq(Items) /\ Semantic(c) \in Seq(Items) /\ L \in Nat
  BY ChannelFacts
<1>2. PICK j \in T : \A m \in T : j <= m
  <2>1. T \in SUBSET Nat
    BY <1>1
  <2> HIDE DEF T
  <2> QED
    BY <2>1, LeastNumber
<1>3. j \in 0..L /\ ~\E keys : KeysTo(keys, c, j)
  BY <1>2
<1>4. j # 0
  <2>1. KeysTo([n \in 0..0 |-> Lexical(c)], c, 0)
    BY <1>1 DEF KeysTo
  <2> QED
    BY <1>3, <2>1
<1>5. PICK keys : KeysTo(keys, c, j - 1)
  <2>1. j - 1 \in 0..L /\ ~(j <= j - 1)
    BY <1>1, <1>3, <1>4
  <2> QED
    BY <1>2, <2>1
<1> DEFINE last == Extended(c, keys[j - 1], Semantic(c)[j])
           more == [n \in 0..j |-> IF n = j THEN last ELSE keys[n]]
<1>6. KeysTo(more, c, j)
  <2>1. j \in 1..L /\ Semantic(c)[j] \in Items /\ j - 1 \in 0..(j - 1) /\ j - 1 \in 0..j /\ j - 1 # j
    BY <1>1, <1>3, <1>4
  <2>2. /\ keys \in [0..(j - 1) -> Seq(Items)]
        /\ \A n \in 0..(j - 1) : keys[n] = IF n = 0 THEN Lexical(c) ELSE Extended(c, keys[n - 1], Semantic(c)[n])
    BY <1>5 DEF KeysTo
  <2>3. last \in Seq(Items)
    BY <2>1, <2>2 DEF Extended
  <2> HIDE DEF last
  <2>4. more \in [0..j -> Seq(Items)]
    <3> SUFFICES ASSUME NEW n \in 0..j PROVE (IF n = j THEN last ELSE keys[n]) \in Seq(Items)
      OBVIOUS
    <3> QED
      BY <2>1, <2>2, <2>3
  <2>5. ASSUME NEW n \in 0..j
        PROVE  more[n] = IF n = 0 THEN Lexical(c) ELSE Extended(c, more[n - 1], Semantic(c)[n])
    <3>1. CASE n = j
      <4>1. more[n] = last /\ more[j - 1] = keys[j - 1]
        BY <2>1, <3>1
      <4> HIDE DEF more
      <4> QED
        BY <1>4, <3>1, <4>1 DEF last
    <3>2. CASE n # j
      <4>1. n \in 0..(j - 1) /\ (n # 0 => n - 1 \in 0..j /\ n - 1 # j)
        BY <2>1, <3>2
      <4>2. more[n] = keys[n] /\ (n # 0 => more[n - 1] = keys[n - 1])
        BY <3>2, <4>1
      <4> HIDE DEF more
      <4> QED
        BY <2>2, <4>1, <4>2
    <3> QED
      BY <3>1, <3>2
  <2> HIDE DEF more
  <2> QED
    BY <2>4, <2>5 DEF KeysTo
<1> HIDE DEF more
<1> QED
  BY <1>3, <1>6

\* Candidates is the last of them.
LEMMA CandidatesIsLast ==
    ASSUME NEW c, Given(c)
    PROVE  \E keys : KeysTo(keys, c, Len(Semantic(c))) /\ Candidates(c) = keys[Len(Semantic(c))]
<1> DEFINE L == Len(Semantic(c))
           Keys == CHOOSE keys : keys = [n \in 0..L |->
                     IF n = 0 THEN Lexical(c)
                     ELSE IF Contains(Lexical(c), Semantic(c)[n]) THEN keys[n - 1]
                     ELSE Append(keys[n - 1], Semantic(c)[n])]
<1>1. L \in Nat
  BY ChannelFacts
<1>2. PICK f : KeysTo(f, c, L)
  BY <1>1, KeysExist
<1> HIDE DEF L, Keys
<1>3. f = [n \in 0..L |-> IF n = 0 THEN Lexical(c) ELSE Extended(c, f[n - 1], Semantic(c)[n])]
  <2>1. f \in [0..L -> Seq(Items)]
    BY <1>2 DEF KeysTo
  <2>2. \A n \in 0..L : f[n] = IF n = 0 THEN Lexical(c) ELSE Extended(c, f[n - 1], Semantic(c)[n])
    BY <1>2, ZenonT(60) DEF KeysTo
  <2> QED
    BY <2>1, <2>2
<1>4. Keys = [n \in 0..L |-> IF n = 0 THEN Lexical(c) ELSE Extended(c, Keys[n - 1], Semantic(c)[n])]
  BY <1>3 DEF Extended, Keys
<1>5. Candidates(c) = Keys[L]
  BY DEF Candidates, Keys, L
<1> HIDE DEF Keys
<1>6. KeysTo(Keys, c, L)
  <2> DEFINE T == {j \in 0..L : Keys[j] # f[j]}
  <2>1. ASSUME T # {} PROVE FALSE
    <3>1. PICK j \in T : \A m \in T : j <= m
      <4>1. T \in SUBSET Nat
        BY <1>1
      <4> HIDE DEF T
      <4> QED
        BY <2>1, <4>1, LeastNumber
    <3>2. j \in 0..L /\ Keys[j] # f[j]
      BY <3>1
    <3>3. /\ Keys[j] = IF j = 0 THEN Lexical(c) ELSE Extended(c, Keys[j - 1], Semantic(c)[j])
          /\ f[j] = IF j = 0 THEN Lexical(c) ELSE Extended(c, f[j - 1], Semantic(c)[j])
      BY <1>3, <1>4, <3>2
    <3>4. j # 0
      BY <3>2, <3>3
    <3>5. j - 1 \in 0..L /\ ~(j <= j - 1)
      BY <1>1, <3>2, <3>4
    <3>6. Keys[j - 1] = f[j - 1]
      BY <3>1, <3>5
    <3> QED
      BY <3>2, <3>3, <3>4, <3>6
  <2>2. \A j \in 0..L : Keys[j] = f[j]
    BY <2>1
  <2>3. Keys = f
    BY <1>3, <1>4, <2>2
  <2> QED
    BY <1>2, <2>3
<1> QED
  BY <1>5, <1>6 DEF L

\* Appending an element that is new keeps a sequence free of repetitions.
LEMMA AppendNew ==
    ASSUME NEW S, NEW s \in Seq(S), NEW x \in S
    PROVE  /\ Append(s, x) \in Seq(S) /\ ToSet(Append(s, x)) = ToSet(s) \cup {x}
           /\ IsInjective(s) /\ x \notin ToSet(s) => IsInjective(Append(s, x))
<1> DEFINE r == Append(s, x)
<1>1. /\ r \in Seq(S) /\ DOMAIN s = 1..Len(s) /\ DOMAIN r = 1..(Len(s) + 1) /\ Len(s) \in Nat
      /\ r[Len(s) + 1] = x /\ \A n \in 1..Len(s) : r[n] = s[n]
  OBVIOUS
<1> HIDE DEF r
<1>2. ToSet(r) = ToSet(s) \cup {x}
  <2>1. ToSet(r) \subseteq ToSet(s) \cup {x}
    BY <1>1 DEF ToSet
  <2>2. x \in ToSet(r)
    BY <1>1 DEF ToSet
  <2>3. ToSet(s) \subseteq ToSet(r)
    BY <1>1 DEF ToSet
  <2> QED
    BY <2>1, <2>2, <2>3
<1>3. ASSUME IsInjective(s), x \notin ToSet(s) PROVE IsInjective(r)
  <2> SUFFICES ASSUME NEW a \in DOMAIN r, NEW b \in DOMAIN r, r[a] = r[b] PROVE a = b
    BY DEF IsInjective
  <2>1. \A n \in 1..Len(s) : s[n] # x
    BY <1>1, <1>3 DEF ToSet
  <2>2. \A m, n \in 1..Len(s) : s[m] = s[n] => m = n
    BY <1>1, <1>3 DEF IsInjective
  <2> QED
    BY <1>1, <2>1, <2>2
<1> QED
  BY <1>1, <1>2, <1>3 DEF r

\* What the dictionary holds after n entries of the semantic ranking.
HoldsAfter(c, s, n) ==
    /\ ToSet(s) = ToSet(Lexical(c)) \cup {Semantic(c)[m] : m \in 1..n}
    /\ IsInjective(s)
    /\ Lexical(c) = <<>> => Len(s) = n /\ \A m \in 1..n : s[m] = Semantic(c)[m]

\* _rrf_fuse collects the chunks of both channels, each once.
LEMMA KeysHold ==
    ASSUME NEW c, Given(c), NEW keys, KeysTo(keys, c, Len(Semantic(c))), NEW n \in 0..Len(Semantic(c))
    PROVE  HoldsAfter(c, keys[n], n)
<1> DEFINE L == Len(Semantic(c))
           T == {j \in 0..L : ~HoldsAfter(c, keys[j], j)}
<1> SUFFICES ASSUME T # {} PROVE FALSE
  OBVIOUS
<1>1. /\ Lexical(c) \in Seq(Items) /\ IsInjective(Lexical(c))
      /\ Semantic(c) \in Seq(Items) /\ IsInjective(Semantic(c)) /\ L \in Nat
  BY ChannelFacts
<1>2. PICK j \in T : \A m \in T : j <= m
  <2>1. T \in SUBSET Nat
    BY <1>1
  <2> HIDE DEF T
  <2> QED
    BY <2>1, LeastNumber
<1>3. j \in 0..L /\ ~HoldsAfter(c, keys[j], j)
  BY <1>2
<1>4. /\ keys \in [0..L -> Seq(Items)]
      /\ keys[j] = IF j = 0 THEN Lexical(c) ELSE Extended(c, keys[j - 1], Semantic(c)[j])
  BY <1>3 DEF KeysTo
<1>5. j # 0
  <2>1. {Semantic(c)[m] : m \in 1..0} = {}
    OBVIOUS
  <2>2. Lexical(c) = <<>> => Len(Lexical(c)) = 0
    OBVIOUS
  <2>3. HoldsAfter(c, Lexical(c), 0)
    BY <1>1, <2>1, <2>2 DEF HoldsAfter
  <2> QED
    BY <1>3, <1>4, <2>3
<1>6. j - 1 \in 0..L /\ ~(j <= j - 1) /\ j \in 1..L
  BY <1>1, <1>3, <1>5
<1>7. HoldsAfter(c, keys[j - 1], j - 1)
  BY <1>2, <1>6
<1> DEFINE s == keys[j - 1]
           x == Semantic(c)[j]
<1>8. s \in Seq(Items) /\ x \in Items /\ keys[j] = Extended(c, s, x)
  <2>1. s \in Seq(Items)
    BY <1>4, <1>6, Zenon
  <2>2. x \in Items
    BY <1>1, <1>6
  <2>3. keys[j] = Extended(c, s, x)
    BY <1>4, <1>5, Zenon
  <2> QED
    BY <2>1, <2>2, <2>3
<1>9. {Semantic(c)[m] : m \in 1..j} = {Semantic(c)[m] : m \in 1..(j - 1)} \cup {x}
  BY <1>6
<1>10. /\ ToSet(s) = ToSet(Lexical(c)) \cup {Semantic(c)[m] : m \in 1..(j - 1)}
       /\ IsInjective(s)
       /\ Lexical(c) = <<>> => Len(s) = j - 1 /\ \A m \in 1..(j - 1) : s[m] = Semantic(c)[m]
  BY <1>7 DEF HoldsAfter
<1>11. x \notin {Semantic(c)[m] : m \in 1..(j - 1)}
  <2> SUFFICES ASSUME NEW m \in 1..(j - 1), Semantic(c)[m] = Semantic(c)[j] PROVE FALSE
    OBVIOUS
  <2>1. m \in DOMAIN Semantic(c) /\ j \in DOMAIN Semantic(c) /\ m # j
    BY <1>1, <1>6
  <2> QED
    BY <1>1, <2>1 DEF IsInjective
<1>12. Contains(Lexical(c), x) <=> x \in ToSet(Lexical(c))
  BY <1>1, PositionFacts
<1> HIDE DEF s, x
<1>13. CASE x \in ToSet(Lexical(c))
  <2>1. keys[j] = s
    BY <1>8, <1>12, <1>13 DEF Extended
  <2>2. Lexical(c) # <<>>
    BY <1>13 DEF ToSet
  <2>3. HoldsAfter(c, s, j)
    BY <1>9, <1>10, <1>13, <2>2 DEF HoldsAfter
  <2> QED
    BY <1>3, <2>1, <2>3
<1>14. CASE x \notin ToSet(Lexical(c))
  <2>1. keys[j] = Append(s, x)
    BY <1>8, <1>12, <1>14 DEF Extended
  <2>2. x \notin ToSet(s)
    BY <1>10, <1>11, <1>14
  <2>3. ToSet(Append(s, x)) = ToSet(s) \cup {x} /\ IsInjective(Append(s, x))
    BY <1>8, <1>10, <2>2, AppendNew
  <2>4. ASSUME Lexical(c) = <<>> 
        PROVE  Len(Append(s, x)) = j /\ \A m \in 1..j : Append(s, x)[m] = Semantic(c)[m]
    <3>1. Len(s) = j - 1 /\ \A m \in 1..(j - 1) : s[m] = Semantic(c)[m]
      BY <1>10, <2>4
    <3>2. Len(Append(s, x)) = j /\ Append(s, x)[j] = x /\ \A m \in 1..(j - 1) : Append(s, x)[m] = s[m]
      BY <1>6, <1>8, <3>1
    <3> QED
      BY <1>6, <3>1, <3>2 DEF x
  <2>5. HoldsAfter(c, Append(s, x), j)
    BY <1>9, <1>10, <2>3, <2>4 DEF HoldsAfter
  <2> QED
    BY <1>3, <2>1, <2>5
<1> QED
  BY <1>13, <1>14

\* The candidates of the fusion.
LEMMA CandidatesFacts ==
    ASSUME NEW c, Given(c)
    PROVE  /\ Candidates(c) \in Seq(Items) /\ IsInjective(Candidates(c))
           /\ ToSet(Candidates(c)) = ToSet(Lexical(c)) \cup ToSet(Semantic(c))
           /\ Lexical(c) = <<>> => Candidates(c) = Semantic(c)
           /\ Semantic(c) = <<>> => Candidates(c) = Lexical(c)
<1> DEFINE L == Len(Semantic(c))
<1>1. Semantic(c) \in Seq(Items) /\ L \in Nat /\ L \in 0..L /\ DOMAIN Semantic(c) = 1..L
  BY ChannelFacts
<1>2. PICK keys : KeysTo(keys, c, L) /\ Candidates(c) = keys[L]
  BY CandidatesIsLast
<1>3. HoldsAfter(c, Candidates(c), L)
  BY <1>1, <1>2, KeysHold
<1>4. Candidates(c) \in Seq(Items)
  BY <1>1, <1>2 DEF KeysTo
<1>5. ToSet(Semantic(c)) = {Semantic(c)[m] : m \in 1..L}
  BY <1>1 DEF ToSet
<1>6. Lexical(c) = <<>> => Candidates(c) = Semantic(c)
  <2> SUFFICES ASSUME Lexical(c) = <<>> PROVE Candidates(c) = Semantic(c)
    OBVIOUS
  <2>1. Len(Candidates(c)) = L /\ \A m \in 1..L : Candidates(c)[m] = Semantic(c)[m]
    BY <1>3 DEF HoldsAfter
  <2> QED
    BY <1>1, <1>4, <2>1, SeqEqual
<1>7. Semantic(c) = <<>> => Candidates(c) = Lexical(c)
  <2> SUFFICES ASSUME Semantic(c) = <<>> PROVE Candidates(c) = Lexical(c)
    OBVIOUS
  <2>1. L = 0
    OBVIOUS
  <2>2. keys[0] = Lexical(c)
    BY <1>2, <2>1 DEF KeysTo
  <2> QED
    BY <1>2, <2>1, <2>2
<1> QED
  BY <1>3, <1>4, <1>5, <1>6, <1>7 DEF HoldsAfter

-----------------------------------------------------------------------------
(* The fused ranking. *)

\* Exceeding is a strict order, and so is its complement a weak one.
LEMMA ExceedsFacts ==
    ASSUME NEW c, Given(c), NEW x, NEW y, NEW z
    PROVE  /\ ~Exceeds(FusedScore(c, x), FusedScore(c, x))
           /\ Exceeds(FusedScore(c, x), FusedScore(c, y)) => ~Exceeds(FusedScore(c, y), FusedScore(c, x))
           /\ ~Exceeds(FusedScore(c, y), FusedScore(c, x)) /\ ~Exceeds(FusedScore(c, z), FusedScore(c, y)) =>
                /\ ~Exceeds(FusedScore(c, z), FusedScore(c, x))
                /\ \/ Exceeds(FusedScore(c, x), FusedScore(c, y))
                   \/ Exceeds(FusedScore(c, y), FusedScore(c, z))
                   => Exceeds(FusedScore(c, x), FusedScore(c, z))
<1> DEFINE f == FusedScore(c, x)
           g == FusedScore(c, y)
           h == FusedScore(c, z)
<1>1. /\ f[1] \in Nat /\ f[2] \in Nat \ {0} /\ g[1] \in Nat /\ g[2] \in Nat \ {0}
      /\ h[1] \in Nat /\ h[2] \in Nat \ {0}
  BY ScoreFacts
<1> HIDE DEF f, g, h
<1>2. ~Exceeds(f, f) /\ (Exceeds(f, g) => ~Exceeds(g, f))
  BY <1>1 DEF Exceeds
<1>3. ASSUME ~Exceeds(g, f), ~Exceeds(h, g)
      PROVE  ~Exceeds(h, f) /\ (Exceeds(f, g) \/ Exceeds(g, h) => Exceeds(f, h))
  <2>1. f[1] * g[2] >= g[1] * f[2] /\ g[1] * h[2] >= h[1] * g[2]
    BY <1>1, <1>3 DEF Exceeds
  <2>2. /\ f[1] * h[2] >= h[1] * f[2]
        /\ f[1] * g[2] > g[1] * f[2] \/ g[1] * h[2] > h[1] * g[2] => f[1] * h[2] > h[1] * f[2]
    <3> DEFINE f1 == f[1]
               f2 == f[2]
               g1 == g[1]
               g2 == g[2]
               h1 == h[1]
               h2 == h[2]
    <3>1. /\ f1 \in Nat /\ g1 \in Nat /\ h1 \in Nat
          /\ f2 \in Nat \ {0} /\ g2 \in Nat \ {0} /\ h2 \in Nat \ {0}
          /\ f1 * g2 >= g1 * f2 /\ g1 * h2 >= h1 * g2
      BY <1>1, <2>1
    <3> HIDE DEF f1, f2, g1, g2, h1, h2
    <3>2. f1 * h2 >= h1 * f2 /\ (f1 * g2 > g1 * f2 \/ g1 * h2 > h1 * g2 => f1 * h2 > h1 * f2)
      BY <3>1, FractionOrder
    <3> QED
      BY <3>2 DEF f1, f2, g1, g2, h1, h2
  <2>3. f[1] * h[2] \in Nat /\ h[1] * f[2] \in Nat
    BY <1>1
  <2> QED
    BY <2>2, <2>3 DEF Exceeds
<1> QED
  BY <1>2, <1>3 DEF f, g, h

\* The pairs of candidates in the order of the sort.
AheadPairs(c, s) == {p \in (DOMAIN s) \X (DOMAIN s) : Ahead(c, s, p[1], p[2])}

\* The key of the sort and the stability together order the candidates.
LEMMA AheadOrders ==
    ASSUME NEW c, Given(c), NEW s \in Seq(Items) PROVE OrdersTo(Len(s), AheadPairs(c, s))
<1> DEFINE n == Len(s)
           R == AheadPairs(c, s)
<1>1. \A i, j \in 1..n : <<i, j>> \in R <=> Ahead(c, s, i, j)
  BY DEF AheadPairs
<1>2. ASSUME NEW i \in 1..n PROVE LexicalScore(c, s[i]) \in Int
  BY ScoreFacts
<1>3. ASSUME NEW i \in 1..n PROVE ~Ahead(c, s, i, i)
  BY <1>2, ExceedsFacts DEF Ahead
<1>4. ASSUME NEW i \in 1..n, NEW j \in 1..n, i # j PROVE Ahead(c, s, i, j) \/ Ahead(c, s, j, i)
  <2>1. LexicalScore(c, s[i]) \in Int /\ LexicalScore(c, s[j]) \in Int
    BY <1>2
  <2>2. i < j \/ j < i
    BY <1>4
  <2> QED
    BY <2>1, <2>2 DEF Ahead
<1>5. ASSUME NEW i \in 1..n, NEW j \in 1..n, NEW k \in 1..n, Ahead(c, s, i, j), Ahead(c, s, j, k)
      PROVE  Ahead(c, s, i, k)
  <2> DEFINE Fi == FusedScore(c, s[i])
             Fj == FusedScore(c, s[j])
             Fk == FusedScore(c, s[k])
             Li == LexicalScore(c, s[i])
             Lj == LexicalScore(c, s[j])
             Lk == LexicalScore(c, s[k])
  <2>1. Li \in Int /\ Lj \in Int /\ Lk \in Int
    BY <1>2
  <2>2. /\ Exceeds(Fi, Fj) \/ (~Exceeds(Fj, Fi) /\ (Li > Lj \/ (Li = Lj /\ i < j)))
        /\ Exceeds(Fj, Fk) \/ (~Exceeds(Fk, Fj) /\ (Lj > Lk \/ (Lj = Lk /\ j < k)))
    BY <1>5 DEF Ahead
  <2>3. ~Exceeds(Fj, Fi) /\ ~Exceeds(Fk, Fj)
    BY <2>2, ExceedsFacts
  <2>4. ~Exceeds(Fk, Fi) /\ (Exceeds(Fi, Fj) \/ Exceeds(Fj, Fk) => Exceeds(Fi, Fk))
    BY <2>3, ExceedsFacts
  <2>5. Ahead(c, s, i, k) <=> Exceeds(Fi, Fk) \/ (~Exceeds(Fk, Fi) /\ (Li > Lk \/ (Li = Lk /\ i < k)))
    BY DEF Ahead
  <2> HIDE DEF Fi, Fj, Fk, Li, Lj, Lk
  <2> QED
    BY <2>1, <2>2, <2>4, <2>5
<1> HIDE DEF R
<1> QED
  BY <1>1, <1>3, <1>4, <1>5 DEF OrdersTo, R

\* The fused ranking rearranges the candidates as order says.
Rearranged(order, c, s, n) ==
    /\ order \in [1..n -> 1..n]
    /\ FusedRanking(c) \in Seq(Items) /\ Len(FusedRanking(c)) = n
    /\ \A k \in 1..n : FusedRanking(c)[k] = s[order[k]]
    /\ \A a, b \in 1..n : a < b => Ahead(c, s, order[a], order[b])
    /\ \A i \in 1..n : \E a \in 1..n : order[a] = i

\* The fused ranking has every candidate, in the order of the sort.
LEMMA RankingFacts ==
    ASSUME NEW c, Given(c) PROVE \E order : Rearranged(order, c, Candidates(c), Len(Candidates(c)))
<1> DEFINE s == Candidates(c)
           n == Len(s)
           order == Sorted(n, AheadPairs(c, s))
<1>1. s \in Seq(Items) /\ n \in Nat /\ DOMAIN s = 1..n
  BY CandidatesFacts
<1>2. OrdersTo(n, AheadPairs(c, s))
  BY <1>1, AheadOrders
<1>3. FusedRanking(c) = [k \in DOMAIN s |-> s[order[k]]]
  BY DEF FusedRanking, AheadPairs
<1> HIDE DEF s
<1>4. /\ order \in [1..n -> 1..n]
      /\ \A a, b \in 1..n : a < b => <<order[a], order[b]>> \in AheadPairs(c, s)
      /\ \A i \in 1..n : \E a \in 1..n : order[a] = i
  BY <1>1, <1>2, SortedFacts
<1> HIDE DEF order, n
<1>5. \A a, b \in 1..n : a < b => Ahead(c, s, order[a], order[b])
  BY <1>4 DEF AheadPairs
<1>6. FusedRanking(c) \in [1..n -> Items]
  <2>1. ASSUME NEW k \in 1..n PROVE s[order[k]] \in Items
    <3>1. order[k] \in 1..n
      BY <1>4
    <3> QED
      BY <1>1, <3>1 DEF n
  <2> QED
    BY <1>1, <1>3, <2>1
<1>7. FusedRanking(c) \in Seq(Items) /\ Len(FusedRanking(c)) = n
  BY <1>1, <1>6, FunctionIsSeq
<1>8. \A k \in 1..n : FusedRanking(c)[k] = s[order[k]]
  BY <1>1, <1>3
<1>9. Rearranged(order, c, s, n)
  BY <1>4, <1>5, <1>7, <1>8 DEF Rearranged
<1> QED
  BY <1>9 DEF n, s

\* The ranking holds every chunk of an active channel once.
LEMMA RankingHoldsAll ==
    ASSUME NEW c, Given(c)
    PROVE  /\ FusedRanking(c) \in Seq(Items) /\ IsInjective(FusedRanking(c))
           /\ ToSet(FusedRanking(c)) = ToSet(Lexical(c)) \cup ToSet(Semantic(c))
<1> DEFINE s == Candidates(c)
           n == Len(s)
           r == FusedRanking(c)
<1>1. s \in Seq(Items) /\ n \in Nat /\ DOMAIN s = 1..n /\ IsInjective(s)
  BY CandidatesFacts
<1>2. ToSet(s) = ToSet(Lexical(c)) \cup ToSet(Semantic(c))
  BY CandidatesFacts
<1>0. PICK order : Rearranged(order, c, s, n)
  BY RankingFacts
<1>3. /\ order \in [1..n -> 1..n] /\ r \in Seq(Items) /\ Len(r) = n
      /\ \A k \in 1..n : r[k] = s[order[k]]
      /\ \A a, b \in 1..n : a < b => Ahead(c, s, order[a], order[b])
      /\ \A i \in 1..n : \E a \in 1..n : order[a] = i
  BY <1>0 DEF Rearranged
<1>4. \A i \in 1..n : ~Ahead(c, s, i, i)
  <2>1. \A i \in 1..n : <<i, i>> \notin AheadPairs(c, s)
    BY <1>1, AheadOrders DEF OrdersTo
  <2> QED
    BY <1>1, <2>1 DEF AheadPairs
<1> HIDE DEF s, n, r
<1>5. DOMAIN r = 1..n
  BY <1>3
<1>6. ASSUME NEW a \in 1..n, NEW b \in 1..n, order[a] = order[b] PROVE a = b
  <2>1. order[a] \in 1..n
    BY <1>3
  <2>2. ~(a < b) /\ ~(b < a)
    BY <1>3, <1>4, <1>6, <2>1
  <2> QED
    BY <1>1, <2>2
<1>7. IsInjective(r)
  <2> SUFFICES ASSUME NEW a \in 1..n, NEW b \in 1..n, r[a] = r[b] PROVE a = b
    BY <1>5 DEF IsInjective
  <2>1. s[order[a]] = s[order[b]] /\ order[a] \in 1..n /\ order[b] \in 1..n
    BY <1>3
  <2>2. order[a] = order[b]
    BY <1>1, <2>1 DEF IsInjective
  <2> QED
    BY <1>6, <2>2
<1>8. ToSet(r) = ToSet(s)
  <2>1. ASSUME NEW a \in 1..n PROVE r[a] \in ToSet(s)
    <3>1. r[a] = s[order[a]] /\ order[a] \in DOMAIN s
      BY <1>1, <1>3
    <3> QED
      BY <3>1 DEF ToSet
  <2>2. ASSUME NEW i \in 1..n PROVE s[i] \in ToSet(r)
    <3>1. PICK a \in 1..n : order[a] = i
      BY <1>3
    <3>2. r[a] = s[i] /\ a \in DOMAIN r
      BY <1>3, <1>5, <3>1
    <3> QED
      BY <3>2 DEF ToSet
  <2>3. ToSet(r) \subseteq ToSet(s)
    BY <1>5, <2>1 DEF ToSet
  <2>4. ToSet(s) \subseteq ToSet(r)
    BY <1>1, <2>2 DEF ToSet
  <2> QED
    BY <2>3, <2>4
<1> QED
  BY <1>2, <1>3, <1>7, <1>8 DEF r, s

\* It is in the order of the fused scores, and so of the rounded ones.
LEMMA RankingByScore ==
    ASSUME NEW c, Given(c), NEW a \in 1..Len(FusedRanking(c)), NEW b \in 1..Len(FusedRanking(c)), a < b
    PROVE  /\ ~Exceeds(FusedScore(c, FusedRanking(c)[b]), FusedScore(c, FusedRanking(c)[a]))
           /\ RoundedScore(c, FusedRanking(c)[a]) >= RoundedScore(c, FusedRanking(c)[b])
<1> DEFINE r == FusedRanking(c)
           f == FusedScore(c, r[a])
           g == FusedScore(c, r[b])
<1>1. ~Exceeds(g, f)
  <2>1. PICK order : Rearranged(order, c, Candidates(c), Len(Candidates(c)))
    BY RankingFacts
  <2>2. Ahead(c, Candidates(c), order[a], order[b]) /\ r[a] = Candidates(c)[order[a]] /\ r[b] = Candidates(c)[order[b]]
    BY <2>1 DEF Rearranged
  <2>3. Exceeds(f, g) \/ ~Exceeds(g, f)
    BY <2>2 DEF Ahead
  <2> QED
    BY <2>3, ExceedsFacts
<1>2. f[1] \in Nat /\ f[2] \in Nat \ {0} /\ g[1] \in Nat /\ g[2] \in Nat \ {0}
  BY ScoreFacts
<1>3. /\ RoundedScore(c, r[a]) = (Scale * f[1] + 10 * f[2]) \div (20 * f[2])
      /\ RoundedScore(c, r[b]) = (Scale * g[1] + 10 * g[2]) \div (20 * g[2])
  BY DEF RoundedScore
<1> HIDE DEF f, g
<1> DEFINE f1 == f[1]
           f2 == f[2]
           g1 == g[1]
           g2 == g[2]
<1>4. f1 \in Nat /\ f2 \in Nat \ {0} /\ g1 \in Nat /\ g2 \in Nat \ {0} /\ f1 * g2 >= g1 * f2
  BY <1>1, <1>2 DEF Exceeds
<1>5. /\ RoundedScore(c, r[a]) = (Scale * f1 + 10 * f2) \div (20 * f2)
      /\ RoundedScore(c, r[b]) = (Scale * g1 + 10 * g2) \div (20 * g2)
  BY <1>3
<1> HIDE DEF f1, f2, g1, g2
<1>6. (Scale * f1 + 10 * f2) \div (20 * f2) >= (Scale * g1 + 10 * g2) \div (20 * g2)
  BY <1>4, SelectionAssumption, RoundingKeeps
<1> QED
  BY <1>1, <1>5, <1>6 DEF f, g

\* Rounded scores are numbers.
LEMMA RoundedFacts == ASSUME NEW c, Given(c), NEW x PROVE RoundedScore(c, x) \in Nat
<1> DEFINE f1 == FusedScore(c, x)[1]
           f2 == FusedScore(c, x)[2]
<1>1. f1 \in Nat /\ f2 \in Nat \ {0}
  BY ScoreFacts
<1>2. RoundedScore(c, x) = (Scale * f1 + 10 * f2) \div (20 * f2)
  BY DEF RoundedScore
<1> HIDE DEF f1, f2
<1>3. f1 * f2 >= f1 * f2
  BY <1>1
<1>4. (Scale * f1 + 10 * f2) \div (20 * f2) \in Nat
  BY <1>1, <1>3, SelectionAssumption, RoundingKeeps
<1> QED
  BY <1>2, <1>4

\* Channel s does not prefer b to a.
NoWorse(s, a, b) == Contains(s, b) => Contains(s, a) /\ Position(s, a) < Position(s, b)

\* A channel gives no smaller share to a chunk that it ranks no worse, and a
\* larger one to a chunk that it has found (weight / (RRF_K + rank)).
LEMMA ShareOrder ==
    ASSUME NEW s \in Seq(Items), IsInjective(s), NEW w \in Nat, s # <<>> => w > 0,
           NEW a, NEW b, NoWorse(s, a, b)
    PROVE  /\ Share(s, w, a)[1] * Share(s, w, b)[2] >= Share(s, w, b)[1] * Share(s, w, a)[2]
           /\ Contains(s, a) => Share(s, w, a)[1] * Share(s, w, b)[2] > Share(s, w, b)[1] * Share(s, w, a)[2]
<1> DEFINE pa == RrfK + Position(s, a)
           pb == RrfK + Position(s, b)
<1>1. RrfK \in Nat /\ Len(s) \in Nat
  BY SelectionAssumption
<1>2. /\ Contains(s, a) => Position(s, a) \in 1..Len(s) /\ Share(s, w, a) = <<w, pa>>
      /\ ~Contains(s, a) => Share(s, w, a) = <<0, 1>>
      /\ Contains(s, b) => Position(s, b) \in 1..Len(s) /\ Share(s, w, b) = <<w, pb>>
      /\ ~Contains(s, b) => Share(s, w, b) = <<0, 1>>
  BY PositionFacts, ShareFacts
<1>3. CASE ~Contains(s, a)
  <2>1. ~Contains(s, b)
    BY <1>3 DEF NoWorse
  <2>2. Share(s, w, a) = <<0, 1>> /\ Share(s, w, b) = <<0, 1>>
    BY <1>2, <1>3, <2>1
  <2> QED
    BY <1>3, <2>2
<1>4. CASE Contains(s, a)
  <2>1. s # <<>> /\ w > 0
    BY <1>4 DEF Contains
  <2>2. pa \in Nat /\ pa > 0 /\ Share(s, w, a) = <<w, pa>>
    BY <1>1, <1>2, <1>4
  <2>3. CASE ~Contains(s, b)
    <3>1. Share(s, w, b) = <<0, 1>>
      BY <1>2, <2>3
    <3> HIDE DEF pa
    <3> QED
      BY <2>1, <2>2, <3>1
  <2>4. CASE Contains(s, b)
    <3>1. Share(s, w, b) = <<w, pb>> /\ pb \in Nat /\ pa < pb
      BY <1>1, <1>2, <1>4, <2>4 DEF NoWorse
    <3> HIDE DEF pa, pb
    <3>2. w \in Nat \ {0} /\ w * pb > w * pa /\ w * pb >= w * pa
      <4>1. pa * w < pb * w /\ pa * w = w * pa /\ pb * w = w * pb /\ w * pa \in Nat /\ w * pb \in Nat
        BY <2>1, <2>2, <3>1
      <4> QED
        BY <2>1, <4>1
    <3> QED
      BY <2>2, <3>1, <3>2
  <2> QED
    BY <2>3, <2>4
<1> QED
  BY <1>3, <1>4

\* A chunk that no channel ranks below another has the larger fused score.
LEMMA DominatesExceeds ==
    ASSUME NEW c, Given(c), NEW a, NEW b,
           NoWorse(Lexical(c), a, b), NoWorse(Semantic(c), a, b),
           Contains(Lexical(c), a) \/ Contains(Semantic(c), a)
    PROVE  Exceeds(FusedScore(c, a), FusedScore(c, b))
<1> DEFINE x == Share(Lexical(c), c.weight, a)
           y == Share(Semantic(c), SemanticWeight(c), a)
           u == Share(Lexical(c), c.weight, b)
           v == Share(Semantic(c), SemanticWeight(c), b)
<1>1. /\ c.weight \in Nat /\ SemanticWeight(c) \in Nat
      /\ Lexical(c) \in Seq(Items) /\ IsInjective(Lexical(c))
      /\ Semantic(c) \in Seq(Items) /\ IsInjective(Semantic(c))
      /\ Lexical(c) # <<>> => c.weight > 0
      /\ Semantic(c) # <<>> => SemanticWeight(c) > 0
  BY ChannelFacts
<1>2. /\ x[1] * u[2] >= u[1] * x[2] /\ (Contains(Lexical(c), a) => x[1] * u[2] > u[1] * x[2])
      /\ y[1] * v[2] >= v[1] * y[2] /\ (Contains(Semantic(c), a) => y[1] * v[2] > v[1] * y[2])
  BY <1>1, ShareOrder
<1>3. /\ x[1] \in Nat /\ x[2] \in Nat \ {0} /\ y[1] \in Nat /\ y[2] \in Nat \ {0}
      /\ u[1] \in Nat /\ u[2] \in Nat \ {0} /\ v[1] \in Nat /\ v[2] \in Nat \ {0}
  BY <1>1, ShareFacts
<1>4. /\ FusedScore(c, a) = <<x[1] * y[2] + y[1] * x[2], x[2] * y[2]>>
      /\ FusedScore(c, b) = <<u[1] * v[2] + v[1] * u[2], u[2] * v[2]>>
  BY DEF FusedScore
<1> HIDE DEF x, y, u, v
<1> DEFINE x1 == x[1]
           x2 == x[2]
           y1 == y[1]
           y2 == y[2]
           u1 == u[1]
           u2 == u[2]
           v1 == v[1]
           v2 == v[2]
<1>5. /\ x1 \in Nat /\ y1 \in Nat /\ u1 \in Nat /\ v1 \in Nat
      /\ x2 \in Nat \ {0} /\ y2 \in Nat \ {0} /\ u2 \in Nat \ {0} /\ v2 \in Nat \ {0}
      /\ x1 * u2 >= u1 * x2 /\ y1 * v2 >= v1 * y2
      /\ x1 * u2 > u1 * x2 \/ y1 * v2 > v1 * y2
  BY <1>2, <1>3
<1>6. FusedScore(c, a) = <<x1 * y2 + y1 * x2, x2 * y2>> /\ FusedScore(c, b) = <<u1 * v2 + v1 * u2, u2 * v2>>
  BY <1>4
<1> HIDE DEF x1, x2, y1, y2, u1, u2, v1, v2
<1>7. (x1 * y2 + y1 * x2) * (u2 * v2) > (u1 * v2 + v1 * u2) * (x2 * y2)
  BY <1>5, FractionSum
<1> QED
  BY <1>6, <1>7 DEF Exceeds

\* An increasing function of 1..n onto itself changes nothing.
LEMMA IncreasingIsIdentity ==
    ASSUME NEW n \in Nat, NEW f \in [1..n -> 1..n],
           \A a, b \in 1..n : a < b => f[a] < f[b],
           \A i \in 1..n : \E a \in 1..n : f[a] = i,
           NEW k \in 1..n
    PROVE  f[k] = k
<1> DEFINE T == {j \in 1..n : f[j] # j}
<1> SUFFICES ASSUME T # {} PROVE FALSE
  OBVIOUS
<1>1. PICK j \in T : \A m \in T : j <= m
  <2>1. T \in SUBSET Nat
    OBVIOUS
  <2> HIDE DEF T
  <2> QED
    BY <2>1, LeastNumber
<1>2. j \in 1..n /\ f[j] # j /\ f[j] \in 1..n
  BY <1>1
<1>3. \A m \in 1..n : m < j => f[m] = m
  BY <1>1, <1>2
<1> HIDE DEF T
<1>4. f[j] > j
  <2>1. CASE j = 1
    BY <1>2, <2>1
  <2>2. CASE j # 1
    <3>1. j - 1 \in 1..n /\ j - 1 < j
      BY <1>2, <2>2
    <3>2. f[j - 1] = j - 1 /\ f[j - 1] < f[j]
      BY <1>2, <1>3, <3>1
    <3> QED
      BY <1>2, <3>2
  <2> QED
    BY <2>1, <2>2
<1>5. PICK a \in 1..n : f[a] = j
  BY <1>2
<1>6. a < j \/ a = j \/ j < a
  BY <1>2
<1>7. j < a => f[j] < f[a]
  BY <1>2
<1>8. a # j /\ ~(a < j)
  BY <1>2, <1>3, <1>5
<1>9. f[j] < j
  BY <1>5, <1>6, <1>7, <1>8
<1> QED
  BY <1>2, <1>4, <1>9

\* If every candidate beats the later ones, the sort changes nothing.
LEMMA RankingUnchanged ==
    ASSUME NEW c, Given(c),
           \A i, j \in 1..Len(Candidates(c)) : i < j =>
             Exceeds(FusedScore(c, Candidates(c)[i]), FusedScore(c, Candidates(c)[j]))
    PROVE  FusedRanking(c) = Candidates(c)
<1> DEFINE s == Candidates(c)
           n == Len(s)
           r == FusedRanking(c)
<1>0. PICK order : Rearranged(order, c, s, n)
  BY RankingFacts
<1>1. s \in Seq(Items) /\ n \in Nat /\ DOMAIN s = 1..n
  BY CandidatesFacts
<1>2. /\ order \in [1..n -> 1..n] /\ r \in Seq(Items) /\ Len(r) = n
      /\ \A k \in 1..n : r[k] = s[order[k]]
      /\ \A a, b \in 1..n : a < b => Ahead(c, s, order[a], order[b])
      /\ \A i \in 1..n : \E a \in 1..n : order[a] = i
  BY <1>0 DEF Rearranged
<1>3. ASSUME NEW i \in 1..n, NEW j \in 1..n, Ahead(c, s, i, j) PROVE i < j
  <2>1. OrdersTo(n, AheadPairs(c, s))
    BY <1>1, AheadOrders
  <2>2. i # j
    <3>1. <<i, i>> \notin AheadPairs(c, s) /\ i \in DOMAIN s
      BY <1>1, <2>1 DEF OrdersTo
    <3>2. ~Ahead(c, s, i, i)
      BY <3>1 DEF AheadPairs
    <3> QED
      BY <1>3, <3>2
  <2>3. ~(j < i)
    <3> SUFFICES ASSUME j < i PROVE FALSE
      OBVIOUS
    <3>1. Exceeds(FusedScore(c, s[j]), FusedScore(c, s[i]))
      OBVIOUS
    <3> QED
      BY <1>3, <3>1, ExceedsFacts DEF Ahead
  <2> QED
    BY <2>2, <2>3
<1> HIDE DEF s, n, r
<1>4. \A a, b \in 1..n : a < b => order[a] < order[b]
  BY <1>2, <1>3
<1>5. \A k \in 1..n : order[k] = k
  <2>1. /\ n \in Nat /\ order \in [1..n -> 1..n]
        /\ \A a, b \in 1..n : a < b => order[a] < order[b]
        /\ \A i \in 1..n : \E a \in 1..n : order[a] = i
    BY <1>1, <1>2, <1>4
  <2> QED
    BY <2>1, IncreasingIsIdentity
<1>6. \A k \in 1..n : r[k] = s[k]
  BY <1>2, <1>5
<1>7. r = s
  BY <1>1, <1>2, <1>6, SeqEqual DEF n
<1> QED
  BY <1>7 DEF r, s

\* Only one channel is heard: its ranking is the fused one.
LEMMA OneChannel ==
    ASSUME NEW c, Given(c)
    PROVE  /\ c.weight = 0 => FusedRanking(c) = Semantic(c)
           /\ SemanticWeight(c) = 0 => FusedRanking(c) = Lexical(c)
<1>1. /\ Lexical(c) \in Seq(Items) /\ IsInjective(Lexical(c))
      /\ Semantic(c) \in Seq(Items) /\ IsInjective(Semantic(c))
      /\ c.weight = 0 => Lexical(c) = <<>>
      /\ SemanticWeight(c) = 0 => Semantic(c) = <<>>
  BY ChannelFacts
<1>2. \A x : ~Contains(<<>>, x)
  BY DEF Contains
<1>3. ASSUME NEW s \in Seq(Items), IsInjective(s), NEW i \in 1..Len(s), NEW j \in 1..Len(s), i < j
      PROVE  NoWorse(s, s[i], s[j]) /\ NoWorse(<<>>, s[i], s[j]) /\ Contains(s, s[i])
  <2>1. /\ Contains(s, s[i]) /\ Position(s, s[i]) = i
        /\ Contains(s, s[j]) /\ Position(s, s[j]) = j
    BY <1>3, PositionFacts
  <2> QED
    BY <1>2, <1>3, <2>1 DEF NoWorse
<1>4. ASSUME Lexical(c) = <<>> PROVE FusedRanking(c) = Semantic(c)
  <2>1. Candidates(c) = Semantic(c)
    BY <1>4, CandidatesFacts
  <2>2. ASSUME NEW i \in 1..Len(Semantic(c)), NEW j \in 1..Len(Semantic(c)), i < j
        PROVE  Exceeds(FusedScore(c, Semantic(c)[i]), FusedScore(c, Semantic(c)[j]))
    <3>1. /\ NoWorse(Semantic(c), Semantic(c)[i], Semantic(c)[j])
          /\ NoWorse(Lexical(c), Semantic(c)[i], Semantic(c)[j])
          /\ Contains(Semantic(c), Semantic(c)[i])
      BY <1>1, <1>3, <1>4, <2>2
    <3> QED
      BY <3>1, DominatesExceeds
  <2> QED
    BY <2>1, <2>2, RankingUnchanged
<1>5. ASSUME Semantic(c) = <<>> PROVE FusedRanking(c) = Lexical(c)
  <2>1. Candidates(c) = Lexical(c)
    BY <1>5, CandidatesFacts
  <2>2. ASSUME NEW i \in 1..Len(Lexical(c)), NEW j \in 1..Len(Lexical(c)), i < j
        PROVE  Exceeds(FusedScore(c, Lexical(c)[i]), FusedScore(c, Lexical(c)[j]))
    <3>1. /\ NoWorse(Lexical(c), Lexical(c)[i], Lexical(c)[j])
          /\ NoWorse(Semantic(c), Lexical(c)[i], Lexical(c)[j])
          /\ Contains(Lexical(c), Lexical(c)[i])
      BY <1>1, <1>3, <1>5, <2>2
    <3> QED
      BY <3>1, DominatesExceeds
  <2> QED
    BY <2>1, <2>2, RankingUnchanged
<1> QED
  BY <1>1, <1>4, <1>5

-----------------------------------------------------------------------------
(* What is chosen, as a set of positions of a ranking. *)

OfGroup(rk, C, g) == {i \in C : rk[i].group = g}
OfRepo(rk, C, r) == {i \in OfGroup(rk, C, "project") : rk[i].repo = r}
BlockedBy(rk, C, i) ==
    \/ \E j \in C : NearDup(rk[j], rk[i])
    \/ rk[i].group = "project" /\ Cardinality(OfRepo(rk, C, rk[i].repo)) >= MaxPerRepo
SettledBy(rk, C, i) == i \in C \/ BlockedBy(rk, C, i)

\* The conjuncts of Diversified and CountsInv, for a choice sel from a ranking rk.
DiversifiedAt(rk, sel, k) ==
    /\ Len(sel) <= k /\ Cardinality(ToSet(sel)) = Len(sel)
    /\ \A i, j \in ToSet(sel) : i # j => ~NearDup(rk[i], rk[j])
    /\ \A r \in Repos : Cardinality(OfRepo(rk, ToSet(sel), r)) <= MaxPerRepo
CountsAt(rk, sel, gs, rs) ==
    /\ IsInjective(sel)
    /\ \A g \in Groups : gs[g] = Cardinality(OfGroup(rk, ToSet(sel), g))
    /\ \A r \in Repos : rs[r] = Cardinality(OfRepo(rk, ToSet(sel), r))

\* The state predicates of Selection in these terms,
LEMMA ReadNow ==
    /\ Chosen = ToSet(selected)
    /\ \A g : ChosenOf(g) = OfGroup(ranked, ToSet(selected), g)
    /\ \A r : FromRepo(r) = OfRepo(ranked, ToSet(selected), r)
    /\ \A i : Blocked(i) <=> BlockedBy(ranked, ToSet(selected), i)
    /\ \A i : Settled(i) <=> SettledBy(ranked, ToSet(selected), i)
    /\ Diversified <=> DiversifiedAt(ranked, selected, topK)
    /\ CountsInv <=> CountsAt(ranked, selected, groupSelected, repoSelected)
<1>1. Chosen = ToSet(selected)
  BY DEF Chosen, ToSet
<1>2. \A g : ChosenOf(g) = OfGroup(ranked, ToSet(selected), g)
  BY <1>1 DEF ChosenOf, OfGroup
<1>3. \A r : FromRepo(r) = OfRepo(ranked, ToSet(selected), r)
  BY <1>2 DEF FromRepo, OfRepo
<1>4. \A i : Blocked(i) <=> BlockedBy(ranked, ToSet(selected), i)
  BY <1>1, <1>3 DEF Blocked, BlockedBy
<1>5. \A i : Settled(i) <=> SettledBy(ranked, ToSet(selected), i)
  BY <1>1, <1>4 DEF Settled, SettledBy
<1>6. Diversified <=> DiversifiedAt(ranked, selected, topK)
  BY <1>1, <1>3 DEF Diversified, DiversifiedAt
<1>7. CountsInv <=> CountsAt(ranked, selected, groupSelected, repoSelected)
  BY <1>2, <1>3 DEF CountsInv, CountsAt
<1> QED
  BY <1>1, <1>2, <1>3, <1>4, <1>5, <1>6, <1>7

\* and in the next state.
LEMMA ReadNext ==
    /\ Chosen' = ToSet(selected')
    /\ \A i : Blocked(i)' <=> BlockedBy(ranked', ToSet(selected'), i)
    /\ \A i : Settled(i)' <=> SettledBy(ranked', ToSet(selected'), i)
    /\ Diversified' <=> DiversifiedAt(ranked', selected', topK')
    /\ CountsInv' <=> CountsAt(ranked', selected', groupSelected', repoSelected')
<1>1. Chosen' = ToSet(selected')
  BY DEF Chosen, ToSet
<1>2. \A g : ChosenOf(g)' = OfGroup(ranked', ToSet(selected'), g)
  BY <1>1 DEF ChosenOf, OfGroup
<1>3. \A r : FromRepo(r)' = OfRepo(ranked', ToSet(selected'), r)
  BY <1>2 DEF FromRepo, OfRepo
<1>4. \A i : Blocked(i)' <=> BlockedBy(ranked', ToSet(selected'), i)
  BY <1>1, <1>3 DEF Blocked, BlockedBy
<1>5. \A i : Settled(i)' <=> SettledBy(ranked', ToSet(selected'), i)
  BY <1>1, <1>4 DEF Settled, SettledBy
<1>6. Diversified' <=> DiversifiedAt(ranked', selected', topK')
  BY <1>1, <1>3 DEF Diversified, DiversifiedAt
<1>7. CountsInv' <=> CountsAt(ranked', selected', groupSelected', repoSelected')
  BY <1>2, <1>3 DEF CountsInv, CountsAt
<1> QED
  BY <1>1, <1>4, <1>5, <1>6, <1>7

\* Being near duplicates goes both ways (_is_near_duplicate).
LEMMA NearDupSymmetric ==
    ASSUME NEW a \in Items, NEW b \in Items PROVE NearDup(a, b) <=> NearDup(b, a)
<1>1. /\ a.first \in Nat /\ a.last \in Nat /\ b.first \in Nat /\ b.last \in Nat
      /\ \A p \in Similar : <<p[2], p[1]>> \in Similar
  BY SelectionAssumption DEF ItemType
<1>2. Overlap(a, b) = Overlap(b, a) /\ Smaller(Length(a), Length(b)) = Smaller(Length(b), Length(a))
  BY <1>1 DEF Overlap, Larger, Smaller, Length
<1>3. <<a.text, b.text>> \in Similar <=> <<b.text, a.text>> \in Similar
  BY <1>1
<1> QED
  BY <1>2, <1>3 DEF NearDup

\* The choice from a ranking is a finite set of positions.
LEMMA ChoiceFinite ==
    ASSUME NEW rk \in Seq(Items), NEW C \in SUBSET (DOMAIN rk)
    PROVE  /\ IsFiniteSet(C) /\ Cardinality(C) \in Nat
           /\ \A g : IsFiniteSet(OfGroup(rk, C, g)) /\ Cardinality(OfGroup(rk, C, g)) \in Nat
           /\ \A r : IsFiniteSet(OfRepo(rk, C, r)) /\ Cardinality(OfRepo(rk, C, r)) \in Nat
<1>1. DOMAIN rk = 1..Len(rk) /\ Len(rk) \in Nat
  OBVIOUS
<1>2. IsFiniteSet(DOMAIN rk)
  BY <1>1, FS_Interval
<1>3. ASSUME NEW D, D \subseteq DOMAIN rk PROVE IsFiniteSet(D) /\ Cardinality(D) \in Nat
  BY <1>2, <1>3, FS_Subset, FS_CardinalityType
<1>4. (\A g : OfGroup(rk, C, g) \subseteq DOMAIN rk) /\ \A r : OfRepo(rk, C, r) \subseteq DOMAIN rk
  BY DEF OfGroup, OfRepo
<1> QED
  BY <1>3, <1>4

\* What is settled stays settled as the choice grows.
LEMMA SettledGrows ==
    ASSUME NEW rk \in Seq(Items), NEW D \in SUBSET (DOMAIN rk), NEW C \in SUBSET D,
           NEW i, SettledBy(rk, C, i)
    PROVE  SettledBy(rk, D, i)
<1>1. ASSUME NEW r PROVE Cardinality(OfRepo(rk, C, r)) <= Cardinality(OfRepo(rk, D, r))
  <2>1. OfRepo(rk, C, r) \subseteq OfRepo(rk, D, r)
    BY DEF OfRepo, OfGroup
  <2>2. IsFiniteSet(OfRepo(rk, D, r))
    BY ChoiceFinite
  <2> QED
    BY <2>1, <2>2, FS_Subset
<1>2. \A r : Cardinality(OfRepo(rk, C, r)) \in Nat /\ Cardinality(OfRepo(rk, D, r)) \in Nat
  BY ChoiceFinite
<1> QED
  BY <1>1, <1>2, SelectionAssumption DEF SettledBy, BlockedBy

\* One more chosen: the set grows by it, and so do its group and its repository.
LEMMA ChoiceGrows ==
    ASSUME NEW rk \in Seq(Items), NEW C \in SUBSET (DOMAIN rk), NEW p \in DOMAIN rk, p \notin C
    PROVE  /\ Cardinality(C \cup {p}) = Cardinality(C) + 1
           /\ \A g : Cardinality(OfGroup(rk, C \cup {p}, g)) =
                Cardinality(OfGroup(rk, C, g)) + IF rk[p].group = g THEN 1 ELSE 0
           /\ \A r : Cardinality(OfRepo(rk, C \cup {p}, r)) =
                Cardinality(OfRepo(rk, C, r)) + IF rk[p].group = "project" /\ rk[p].repo = r THEN 1 ELSE 0
<1> DEFINE D == C \cup {p}
<1>1. Cardinality(D) = Cardinality(C) + 1
  BY ChoiceFinite, FS_AddElement
<1>2. ASSUME NEW g
      PROVE  Cardinality(OfGroup(rk, D, g)) = Cardinality(OfGroup(rk, C, g)) + IF rk[p].group = g THEN 1 ELSE 0
  <2>1. IsFiniteSet(OfGroup(rk, C, g)) /\ Cardinality(OfGroup(rk, C, g)) \in Nat /\ p \notin OfGroup(rk, C, g)
    BY ChoiceFinite DEF OfGroup
  <2>2. CASE rk[p].group = g
    <3>1. OfGroup(rk, D, g) = OfGroup(rk, C, g) \cup {p}
      BY <2>2 DEF OfGroup
    <3> QED
      BY <2>1, <2>2, <3>1, FS_AddElement
  <2>3. CASE rk[p].group # g
    <3>1. OfGroup(rk, D, g) = OfGroup(rk, C, g)
      BY <2>3 DEF OfGroup
    <3> QED
      BY <2>1, <2>3, <3>1
  <2> QED
    BY <2>2, <2>3
<1>3. ASSUME NEW r
      PROVE  Cardinality(OfRepo(rk, D, r)) =
               Cardinality(OfRepo(rk, C, r)) + IF rk[p].group = "project" /\ rk[p].repo = r THEN 1 ELSE 0
  <2>1. IsFiniteSet(OfRepo(rk, C, r)) /\ Cardinality(OfRepo(rk, C, r)) \in Nat /\ p \notin OfRepo(rk, C, r)
    BY ChoiceFinite DEF OfRepo, OfGroup
  <2>2. CASE rk[p].group = "project" /\ rk[p].repo = r
    <3>1. OfRepo(rk, D, r) = OfRepo(rk, C, r) \cup {p}
      BY <2>2 DEF OfRepo, OfGroup
    <3> QED
      BY <2>1, <2>2, <3>1, FS_AddElement
  <2>3. CASE ~(rk[p].group = "project" /\ rk[p].repo = r)
    <3>1. OfRepo(rk, D, r) = OfRepo(rk, C, r)
      BY <2>3 DEF OfRepo, OfGroup
    <3> QED
      BY <2>1, <2>3, <3>1
  <2> QED
    BY <2>2, <2>3
<1> QED
  BY <1>1, <1>2, <1>3

\* What may be added next (the conditions of _can_add).
Addable(rk, sel, rs, p) ==
    /\ \A j \in ToSet(sel) : ~NearDup(rk[j], rk[p])
    /\ rk[p].group = "project" => rs[rk[p].repo] < MaxPerRepo

\* A candidate that is not added is blocked.
LEMMA RefusedIsBlocked ==
    ASSUME NEW rk, NEW sel, NEW gs, NEW rs, CountsAt(rk, sel, gs, rs), NEW p, rk[p] \in Items,
           rs \in [Repos -> Nat], ~Addable(rk, sel, rs, p)
    PROVE  SettledBy(rk, ToSet(sel), p)
<1>1. rk[p].repo \in Repos /\ MaxPerRepo \in Nat
  BY SelectionAssumption DEF ItemType
<1>2. rs[rk[p].repo] \in Nat /\ rs[rk[p].repo] = Cardinality(OfRepo(rk, ToSet(sel), rk[p].repo))
  BY <1>1 DEF CountsAt
<1> QED
  BY <1>1, <1>2 DEF Addable, SettledBy, BlockedBy

\* The counters with one more candidate.
GroupsWith(rk, gs, p) == [gs EXCEPT ![rk[p].group] = @ + 1]
ReposWith(rk, rs, p) == IF rk[p].group = "project" THEN [rs EXCEPT ![rk[p].repo] = @ + 1] ELSE rs

\* A candidate that is added keeps the choice diverse and the counters right.
LEMMA AddedKeeps ==
    ASSUME NEW rk \in Seq(Items), NEW sel \in Seq(DOMAIN rk), NEW k \in Nat,
           NEW gs \in [Groups -> Nat], NEW rs \in [Repos -> Nat],
           CountsAt(rk, sel, gs, rs), DiversifiedAt(rk, sel, k), Len(sel) < k,
           NEW p \in DOMAIN rk, Addable(rk, sel, rs, p)
    PROVE  /\ GroupsWith(rk, gs, p) \in [Groups -> Nat] /\ ReposWith(rk, rs, p) \in [Repos -> Nat]
           /\ CountsAt(rk, Append(sel, p), GroupsWith(rk, gs, p), ReposWith(rk, rs, p))
           /\ DiversifiedAt(rk, Append(sel, p), k)
<1> DEFINE gs2 == GroupsWith(rk, gs, p)
           rs2 == ReposWith(rk, rs, p)
           C == ToSet(sel)
           D == C \cup {p}
           s2 == Append(sel, p)
<1>1. rk[p] \in Items /\ rk[p].group \in Groups /\ rk[p].repo \in Repos /\ MaxPerRepo \in Nat
  <2>1. rk[p] \in Items
    OBVIOUS
  <2> QED
    BY <2>1, SelectionAssumption DEF ItemType
<1>2. C \in SUBSET (DOMAIN rk)
  BY DEF ToSet
<1>3. p \notin C
  BY DEF Addable, NearDup
<1>4. s2 \in Seq(DOMAIN rk) /\ ToSet(s2) = D /\ IsInjective(s2)
  BY <1>3, AppendNew DEF CountsAt
<1>5. Len(s2) = Len(sel) + 1 /\ Len(sel) \in Nat
  OBVIOUS
<1> HIDE DEF C, D, s2
<1>6. gs2 \in [Groups -> Nat] /\ rs2 \in [Repos -> Nat]
  BY <1>1 DEF GroupsWith, ReposWith
<1>7. /\ Cardinality(D) = Cardinality(C) + 1
      /\ \A g : Cardinality(OfGroup(rk, D, g)) =
           Cardinality(OfGroup(rk, C, g)) + IF rk[p].group = g THEN 1 ELSE 0
      /\ \A r : Cardinality(OfRepo(rk, D, r)) =
           Cardinality(OfRepo(rk, C, r)) + IF rk[p].group = "project" /\ rk[p].repo = r THEN 1 ELSE 0
  BY <1>2, <1>3, ChoiceGrows DEF D
<1>8. /\ \A g \in Groups : gs[g] = Cardinality(OfGroup(rk, C, g))
      /\ \A r \in Repos : rs[r] = Cardinality(OfRepo(rk, C, r))
  BY DEF CountsAt, C
<1>9. ASSUME NEW g \in Groups PROVE gs2[g] = Cardinality(OfGroup(rk, D, g))
  <2>1. gs2[g] = gs[g] + IF rk[p].group = g THEN 1 ELSE 0
    BY <1>1 DEF GroupsWith
  <2> QED
    BY <1>7, <1>8, <2>1
<1>10. ASSUME NEW r \in Repos PROVE rs2[r] = Cardinality(OfRepo(rk, D, r))
  <2>1. rs2[r] = rs[r] + IF rk[p].group = "project" /\ rk[p].repo = r THEN 1 ELSE 0
    BY <1>1 DEF ReposWith
  <2> QED
    BY <1>7, <1>8, <2>1
<1>11. CountsAt(rk, s2, gs2, rs2)
  BY <1>4, <1>9, <1>10 DEF CountsAt
<1>12. ASSUME NEW i \in D, NEW j \in D, i # j PROVE ~NearDup(rk[i], rk[j])
  <2>1. \A a, b \in C : a # b => ~NearDup(rk[a], rk[b])
    BY DEF DiversifiedAt, C
  <2>2. \A a \in C : ~NearDup(rk[a], rk[p]) /\ rk[a] \in Items
    BY <1>2 DEF Addable, C
  <2>3. \A a \in C : ~NearDup(rk[p], rk[a])
    BY <1>1, <2>2, NearDupSymmetric
  <2> QED
    BY <1>12, <2>1, <2>2, <2>3 DEF D
<1>13. ASSUME NEW r \in Repos PROVE Cardinality(OfRepo(rk, D, r)) <= MaxPerRepo
  <2>1. Cardinality(OfRepo(rk, C, r)) \in Nat /\ Cardinality(OfRepo(rk, C, r)) <= MaxPerRepo
    BY <1>2, ChoiceFinite DEF DiversifiedAt, C
  <2>2. rk[p].group = "project" /\ rk[p].repo = r => Cardinality(OfRepo(rk, C, r)) < MaxPerRepo
    BY <1>8 DEF Addable
  <2> QED
    BY <1>1, <1>7, <2>1, <2>2
<1>14. Len(s2) <= k /\ Cardinality(D) = Len(s2)
  BY <1>5, <1>7 DEF DiversifiedAt, C
<1>15. DiversifiedAt(rk, s2, k)
  BY <1>4, <1>12, <1>13, <1>14 DEF DiversifiedAt
<1> QED
  BY <1>6, <1>11, <1>15 DEF s2

\* Another order of the same choice is as diverse, and the counters fit it.
LEMMA ReorderedKeeps ==
    ASSUME NEW rk, NEW sel, NEW s2, NEW k, NEW gs, NEW rs,
           ToSet(s2) = ToSet(sel), Len(s2) = Len(sel), IsInjective(s2)
    PROVE  /\ CountsAt(rk, sel, gs, rs) => CountsAt(rk, s2, gs, rs)
           /\ DiversifiedAt(rk, sel, k) => DiversifiedAt(rk, s2, k)
<1> QED
  BY DEF CountsAt, DiversifiedAt

-----------------------------------------------------------------------------
(* The inductive invariant. *)

\* The queries are what may be given to the fusion.
LEMMA QueriesGiven ==
    ASSUME RankingInv PROVE Given(query) /\ ranked \in Seq(Items) /\ query \in Channels(Items)
<1>1. Given(query)
  BY SelectionAssumption DEF RankingInv, Given
<1> QED
  BY <1>1, RankingHoldsAll DEF RankingInv, Given

\* _pick_diversified begins with nothing chosen.
LEMMA SelectionStarts == SelectionInit => SelectionInv
<1> SUFFICES ASSUME SelectionInit PROVE SelectionInv
  OBVIOUS
<1>1. RankingInv
  BY DEF SelectionInit, RankingInv
<1>2. Given(query) /\ ranked \in Seq(Items) /\ query \in Channels(Items)
  BY <1>1, QueriesGiven
<1>3. stage = "project" /\ pos = 1 /\ selected = <<>> /\ minimum \in [Groups -> Nat] /\ topK \in Nat
  BY SelectionAssumption DEF SelectionInit
<1>4. /\ groupSelected = [g \in Groups |-> 0] /\ repoSelected = [r \in Repos |-> 0]
  BY DEF SelectionInit
<1>5. /\ <<>> \in Seq(DOMAIN ranked) /\ Len(<<>>) = 0 /\ DOMAIN <<>> = {}
      /\ ToSet(<<>>) = {} /\ IsInjective(<<>>)
  BY EmptySeq DEF ToSet, IsInjective
<1>6. SelectionTypeOK
  BY <1>2, <1>3, <1>4, <1>5 DEF SelectionTypeOK, Groups
<1>7. Cardinality({}) = 0
  BY FS_EmptySet
<1>8. (\A g : OfGroup(ranked, {}, g) = {}) /\ \A r : OfRepo(ranked, {}, r) = {}
  BY DEF OfGroup, OfRepo
<1>9. Diversified
  <2>1. DiversifiedAt(ranked, <<>>, topK)
    <3>1. MaxPerRepo \in Nat /\ Len(<<>>) <= topK
      BY <1>3, <1>5, SelectionAssumption
    <3>2. Cardinality(ToSet(<<>>)) = Len(<<>>) /\ \A r \in Repos : Cardinality(OfRepo(ranked, ToSet(<<>>), r)) = 0
      BY <1>5, <1>7, <1>8
    <3> QED
      BY <1>5, <3>1, <3>2 DEF DiversifiedAt
  <2> QED
    BY <1>3, <2>1, ReadNow
<1>10. CountsInv
  <2>1. CountsAt(ranked, <<>>, groupSelected, repoSelected)
    BY <1>4, <1>5, <1>7, <1>8 DEF CountsAt
  <2> QED
    BY <1>3, <2>1, ReadNow
<1>11. LoopsInv
  <2>1. Ended = {}
    BY <1>3 DEF Ended, Groups, NextStage
  <2> QED
    BY <1>3, <1>4, <2>1 DEF LoopsInv, Groups
<1>12. OrderInv /\ SortedInv
  BY <1>3, <1>5 DEF OrderInv, SortedInv
<1> QED
  BY <1>1, <1>6, <1>9, <1>10, <1>11, <1>12 DEF SelectionInv

\* A loop looks at the candidate at pos and goes on.
Looks == ~Exhausted /\ pos' = pos + 1 /\ UNCHANGED <<arguments, stage>>

\* The candidate is added.
LEMMA RecordKeeps ==
    ASSUME SelectionInv, Looks, CanAdd(pos), Record(pos)
    PROVE  /\ pos \in DOMAIN ranked /\ ranked[pos].group \in Groups
           /\ SelectionTypeOK' /\ RankingInv' /\ Diversified' /\ CountsInv'
           /\ \A i : i = pos \/ Settled(i) => Settled(i)'
           /\ Len(selected') = Len(selected) + 1
<1>1. /\ ranked \in Seq(Items) /\ pos \in 1..(Len(ranked) + 1) /\ selected \in Seq(DOMAIN ranked)
      /\ groupSelected \in [Groups -> Nat] /\ repoSelected \in [Repos -> Nat] /\ topK \in Nat
      /\ stage \in Groups \cup {"fill", "sort", "done"} /\ minimum \in [Groups -> Nat]
      /\ query \in Channels(Items)
  BY DEF SelectionInv, SelectionTypeOK
<1>2. /\ query' = query /\ minimum' = minimum /\ topK' = topK /\ ranked' = ranked /\ stage' = stage
      /\ pos' = pos + 1
  BY DEF Looks, arguments
<1>3. pos <= Len(ranked) /\ Len(selected) < topK /\ Len(ranked) \in Nat /\ Len(selected) \in Nat
  BY <1>1 DEF Looks, Exhausted
<1>4. pos \in DOMAIN ranked /\ ranked[pos] \in Items
  BY <1>1, <1>3
<1>5. ranked[pos].group \in Groups
  BY <1>4, SelectionAssumption DEF ItemType
<1>6. Addable(ranked, selected, repoSelected, pos)
  BY ReadNow DEF CanAdd, Addable
<1>7. CountsAt(ranked, selected, groupSelected, repoSelected) /\ DiversifiedAt(ranked, selected, topK)
  BY ReadNow DEF SelectionInv
<1>8. /\ selected' = Append(selected, pos)
      /\ groupSelected' = [groupSelected EXCEPT ![ranked[pos].group] = @ + 1]
      /\ repoSelected' = IF ranked[pos].group = "project"
                         THEN [repoSelected EXCEPT ![ranked[pos].repo] = @ + 1]
                         ELSE repoSelected
  BY DEF Record
<1>9. /\ groupSelected' \in [Groups -> Nat] /\ repoSelected' \in [Repos -> Nat]
      /\ CountsAt(ranked, Append(selected, pos), groupSelected', repoSelected')
      /\ DiversifiedAt(ranked, Append(selected, pos), topK)
  <2>1. groupSelected' = GroupsWith(ranked, groupSelected, pos) /\ repoSelected' = ReposWith(ranked, repoSelected, pos)
    BY <1>8 DEF GroupsWith, ReposWith
  <2>2. /\ ranked \in Seq(Items) /\ selected \in Seq(DOMAIN ranked) /\ topK \in Nat
        /\ groupSelected \in [Groups -> Nat] /\ repoSelected \in [Repos -> Nat]
        /\ Len(selected) < topK /\ pos \in DOMAIN ranked
    BY <1>1, <1>3, <1>4
  <2> QED
    BY <1>6, <1>7, <2>1, <2>2, AddedKeeps
<1>10. /\ selected' \in Seq(DOMAIN ranked) /\ Len(selected') = Len(selected) + 1
       /\ ToSet(selected') = ToSet(selected) \cup {pos}
  BY <1>1, <1>4, <1>8, AppendNew
<1>11. SelectionTypeOK'
  BY <1>1, <1>2, <1>3, <1>9, <1>10 DEF SelectionTypeOK
<1>12. RankingInv'
  BY <1>2 DEF SelectionInv, RankingInv
<1>13. Diversified' /\ CountsInv'
  BY <1>2, <1>8, <1>9, ReadNext
<1>14. ASSUME NEW i, i = pos \/ Settled(i) PROVE Settled(i)'
  <2>1. ToSet(selected') \in SUBSET (DOMAIN ranked) /\ ToSet(selected) \in SUBSET ToSet(selected')
    <3>1. ToSet(selected) \subseteq DOMAIN ranked
      BY <1>1 DEF ToSet
    <3> QED
      BY <1>4, <1>10, <3>1
  <2>2. Settled(i) => SettledBy(ranked, ToSet(selected'), i)
    BY <1>1, <2>1, SettledGrows, ReadNow
  <2>3. i = pos => SettledBy(ranked, ToSet(selected'), i)
    BY <1>10 DEF SettledBy
  <2> QED
    BY <1>2, <1>14, <2>2, <2>3, ReadNext
<1> QED
  BY <1>4, <1>5, <1>10, <1>11, <1>12, <1>13, <1>14

\* The candidate is passed over; if it could not be added, it is settled.
LEMMA SkipKeeps ==
    ASSUME SelectionInv, Looks, Skip
    PROVE  /\ pos \in DOMAIN ranked
           /\ SelectionTypeOK' /\ RankingInv' /\ Diversified' /\ CountsInv'
           /\ \A i : (i = pos /\ ~CanAdd(pos)) \/ Settled(i) => Settled(i)'
<1>1. /\ ranked \in Seq(Items) /\ pos \in 1..(Len(ranked) + 1) /\ selected \in Seq(DOMAIN ranked)
      /\ groupSelected \in [Groups -> Nat] /\ repoSelected \in [Repos -> Nat] /\ topK \in Nat
      /\ stage \in Groups \cup {"fill", "sort", "done"} /\ minimum \in [Groups -> Nat]
      /\ query \in Channels(Items)
  BY DEF SelectionInv, SelectionTypeOK
<1>2. /\ query' = query /\ minimum' = minimum /\ topK' = topK /\ ranked' = ranked /\ stage' = stage
      /\ pos' = pos + 1 /\ selected' = selected /\ groupSelected' = groupSelected
      /\ repoSelected' = repoSelected
  BY DEF Looks, arguments, Skip
<1>3. pos <= Len(ranked) /\ Len(ranked) \in Nat
  BY <1>1 DEF Looks, Exhausted
<1>4. pos \in DOMAIN ranked /\ ranked[pos] \in Items
  BY <1>1, <1>3
<1>5. SelectionTypeOK'
  BY <1>1, <1>2, <1>3 DEF SelectionTypeOK
<1>6. RankingInv'
  BY <1>2 DEF SelectionInv, RankingInv
<1>7. Diversified' /\ CountsInv'
  BY <1>2, ReadNow, ReadNext DEF SelectionInv
<1>8. ASSUME ~CanAdd(pos) PROVE SettledBy(ranked, ToSet(selected), pos)
  <2>1. ~Addable(ranked, selected, repoSelected, pos)
    BY <1>8, ReadNow DEF CanAdd, Addable
  <2>2. CountsAt(ranked, selected, groupSelected, repoSelected)
    BY ReadNow DEF SelectionInv
  <2> QED
    BY <1>1, <1>4, <2>1, <2>2, RefusedIsBlocked
<1>9. ASSUME NEW i, (i = pos /\ ~CanAdd(pos)) \/ Settled(i) PROVE Settled(i)'
  BY <1>2, <1>8, <1>9, ReadNow, ReadNext
<1> QED
  BY <1>4, <1>5, <1>6, <1>7, <1>9

\* What has settled the minimum of a group stays.
LEMMA MinimumKept ==
    ASSUME NEW g \in Groups, MinimumSettled(g),
           groupSelected \in [Groups -> Nat], groupSelected' \in [Groups -> Nat],
           minimum \in [Groups -> Nat], minimum' = minimum, ranked' = ranked,
           \A h \in Groups : groupSelected'[h] >= groupSelected[h],
           \A i : Settled(i) => Settled(i)',
           Len(selected) >= topK => groupSelected' = groupSelected /\ Len(selected') >= topK'
    PROVE  MinimumSettled(g)'
<1>1. CASE groupSelected[g] >= minimum[g]
  <2>1. groupSelected'[g] >= minimum'[g]
    BY <1>1
  <2> QED
    BY <2>1 DEF MinimumSettled
<1>2. CASE \A i \in DOMAIN ranked : ranked[i].group = g => Settled(i)
  <2>1. \A i \in DOMAIN ranked' : ranked'[i].group = g => Settled(i)'
    BY <1>2
  <2> QED
    BY <2>1 DEF MinimumSettled
<1>3. CASE Len(selected) >= topK /\ \A h \in Groups : groupSelected[h] <= minimum[h]
  BY <1>3 DEF MinimumSettled
<1> QED
  BY <1>1, <1>2, <1>3 DEF MinimumSettled

\* Phase 1 looks at a candidate.
LEMMA TakeMinimumKeeps == ASSUME SelectionInv, TakeMinimum PROVE SelectionInv'
<1> DEFINE adds == ranked[pos].group = stage /\ CanAdd(pos)
<1>1. /\ stage \in Groups /\ groupSelected[stage] < minimum[stage]
      /\ IF adds THEN Record(pos) ELSE Skip
  BY DEF TakeMinimum
<1>2. Looks
  BY DEF TakeMinimum, Looks
<1>3. /\ query' = query /\ minimum' = minimum /\ topK' = topK /\ ranked' = ranked /\ stage' = stage
      /\ pos' = pos + 1
  BY <1>2 DEF Looks, arguments
<1>4. /\ groupSelected \in [Groups -> Nat] /\ minimum \in [Groups -> Nat] /\ topK \in Nat
      /\ pos \in Nat /\ selected \in Seq(DOMAIN ranked) /\ Len(selected) \in Nat
  BY DEF SelectionInv, SelectionTypeOK
<1>5. ~(Len(selected) >= topK)
  BY <1>2 DEF Looks, Exhausted
<1>6. /\ SelectionTypeOK' /\ RankingInv' /\ Diversified' /\ CountsInv'
      /\ \A i : Settled(i) => Settled(i)'
      /\ \A i : i = pos /\ ranked[pos].group = stage => Settled(i)'
      /\ \A h \in Groups : groupSelected'[h] >= groupSelected[h] /\ groupSelected'[h] <= minimum[h]
  <2>1. \A h \in Groups : groupSelected[h] <= minimum[h]
    BY <1>1 DEF SelectionInv, LoopsInv
  <2>2. CASE adds
    <3>1. Record(pos) /\ CanAdd(pos) /\ ranked[pos].group = stage
      BY <1>1, <2>2
    <3>2. /\ SelectionTypeOK' /\ RankingInv' /\ Diversified' /\ CountsInv'
          /\ \A i : i = pos \/ Settled(i) => Settled(i)'
      BY <1>2, <3>1, RecordKeeps
    <3>3. groupSelected' = [groupSelected EXCEPT ![stage] = @ + 1]
      BY <3>1 DEF Record
    <3>4. ASSUME NEW h \in Groups PROVE groupSelected'[h] >= groupSelected[h] /\ groupSelected'[h] <= minimum[h]
      <4>1. groupSelected[h] \in Nat /\ minimum[h] \in Nat /\ groupSelected[h] <= minimum[h]
        BY <1>4, <2>1
      <4>2. groupSelected'[h] = IF h = stage THEN groupSelected[h] + 1 ELSE groupSelected[h]
        BY <1>4, <3>3
      <4> QED
        BY <1>1, <4>1, <4>2
    <3> QED
      BY <3>2, <3>4
  <2>3. CASE ~adds
    <3>1. Skip
      BY <1>1, <2>3
    <3>2. /\ SelectionTypeOK' /\ RankingInv' /\ Diversified' /\ CountsInv'
          /\ \A i : (i = pos /\ ~CanAdd(pos)) \/ Settled(i) => Settled(i)'
      BY <1>2, <3>1, SkipKeeps
    <3>3. groupSelected' = groupSelected
      BY <3>1 DEF Skip
    <3>4. \A h \in Groups : groupSelected'[h] >= groupSelected[h] /\ groupSelected'[h] <= minimum[h]
      BY <1>4, <2>1, <3>3
    <3> QED
      BY <2>3, <3>2, <3>4
  <2> QED
    BY <2>2, <2>3
<1>7. LoopsInv'
  <2>1. stage' \in Groups /\ \A h \in Groups : groupSelected'[h] <= minimum'[h]
    BY <1>1, <1>3, <1>6
  <2>2. ASSUME NEW i \in 1..(pos' - 1), ranked'[i].group = stage' PROVE Settled(i)'
    <3>1. i = pos \/ i \in 1..(pos - 1)
      BY <1>3, <1>4
    <3>2. \A j \in 1..(pos - 1) : ranked[j].group = stage => Settled(j)
      BY <1>1 DEF SelectionInv, LoopsInv
    <3> QED
      BY <1>3, <1>6, <2>2, <3>1, <3>2
  <2>3. ASSUME NEW g \in Ended' PROVE MinimumSettled(g)'
    <3>1. g \in Groups /\ g \in Ended
      BY <1>3 DEF Ended
    <3>2. MinimumSettled(g) /\ groupSelected' \in [Groups -> Nat]
      BY <1>6, <3>1 DEF SelectionInv, LoopsInv, SelectionTypeOK
    <3> QED
      BY <1>3, <1>4, <1>5, <1>6, <3>1, <3>2, MinimumKept
  <2>4. stage' # "fill" /\ stage' \notin {"sort", "done"}
    BY <2>1 DEF Groups
  <2> QED
    BY <2>1, <2>2, <2>3, <2>4 DEF LoopsInv
<1>8. OrderInv'
  <2>1. minimum'[stage] # 0
    <3>1. groupSelected[stage] \in Nat /\ minimum[stage] \in Nat
      BY <1>1, <1>4
    <3> QED
      BY <1>1, <1>3, <3>1
  <2> QED
    BY <1>1, <2>1 DEF OrderInv
<1>9. SortedInv'
  BY <1>1, <1>3 DEF SortedInv, Groups
<1> QED
  BY <1>6, <1>7, <1>8, <1>9 DEF SelectionInv

\* A step between two loops, which keeps what is chosen.
Moves == UNCHANGED <<query, minimum, topK, ranked, selected, groupSelected, repoSelected>>

\* It keeps all that is said of the choice alone.
LEMMA MoveKeeps ==
    ASSUME SelectionInv, Moves, stage' \in Groups \cup {"fill", "sort", "done"}, pos' \in 1..(Len(ranked) + 1)
    PROVE  /\ SelectionTypeOK' /\ RankingInv' /\ Diversified' /\ CountsInv'
           /\ \A i : Settled(i)' <=> Settled(i)
           /\ \A g \in Groups : MinimumSettled(g) => MinimumSettled(g)'
<1>1. /\ query' = query /\ minimum' = minimum /\ topK' = topK /\ ranked' = ranked /\ selected' = selected
      /\ groupSelected' = groupSelected /\ repoSelected' = repoSelected
  BY DEF Moves
<1>2. SelectionTypeOK' /\ RankingInv'
  BY <1>1 DEF SelectionInv, SelectionTypeOK, RankingInv
<1>3. Diversified' /\ CountsInv' /\ \A i : Settled(i)' <=> Settled(i)
  BY <1>1, ReadNow, ReadNext DEF SelectionInv
<1>4. \A g \in Groups : MinimumSettled(g) => MinimumSettled(g)'
  BY <1>1, <1>3 DEF MinimumSettled
<1> QED
  BY <1>2, <1>3, <1>4

\* Phase 1 goes to the next group, or to phase 2.
LEMMA EndGroupKeeps == ASSUME SelectionInv, EndGroup PROVE SelectionInv'
<1>1. /\ stage \in Groups /\ (Exhausted \/ groupSelected[stage] >= minimum[stage])
      /\ stage' = NextStage[stage] /\ pos' = 1 /\ minimum' = minimum /\ selected' = selected
      /\ groupSelected' = groupSelected /\ ranked' = ranked
  BY DEF EndGroup, arguments
<1>2. Moves
  BY DEF EndGroup, Moves, arguments
<1>3. stage' \in {"tutorial", "pdf", "fill"}
  BY <1>1 DEF Groups, NextStage
<1>4. /\ ranked \in Seq(Items) /\ Len(ranked) \in Nat /\ pos \in 1..(Len(ranked) + 1)
      /\ groupSelected \in [Groups -> Nat] /\ minimum \in [Groups -> Nat]
  BY DEF SelectionInv, SelectionTypeOK
<1>5. /\ SelectionTypeOK' /\ RankingInv' /\ Diversified' /\ CountsInv'
      /\ \A g \in Groups : MinimumSettled(g) => MinimumSettled(g)'
  <2>1. stage' \in Groups \cup {"fill", "sort", "done"} /\ pos' \in 1..(Len(ranked) + 1)
    BY <1>1, <1>3, <1>4 DEF Groups
  <2> QED
    BY <1>2, <2>1, MoveKeeps
<1>6. \A h \in Groups : groupSelected[h] <= minimum[h]
  BY <1>1 DEF SelectionInv, LoopsInv
<1>7. MinimumSettled(stage)
  <2>1. CASE groupSelected[stage] >= minimum[stage]
    BY <2>1 DEF MinimumSettled
  <2>2. CASE Len(selected) >= topK
    BY <1>6, <2>2 DEF MinimumSettled
  <2>3. CASE pos > Len(ranked)
    <3>1. \A i \in 1..(pos - 1) : ranked[i].group = stage => Settled(i)
      BY <1>1 DEF SelectionInv, LoopsInv
    <3>2. DOMAIN ranked \subseteq 1..(pos - 1)
      BY <1>4, <2>3
    <3> QED
      BY <3>1, <3>2 DEF MinimumSettled
  <2> QED
    BY <1>1, <2>1, <2>2, <2>3 DEF Exhausted
<1>8. LoopsInv'
  <2>1. \A h \in Groups : groupSelected'[h] <= minimum'[h]
    BY <1>1, <1>6
  <2>2. \A i \in 1..(pos' - 1) : FALSE
    BY <1>1
  <2>3. ASSUME NEW g \in Ended' PROVE MinimumSettled(g)'
    <3>1. g \in Groups /\ (g = stage \/ g \in Ended)
      BY <1>1 DEF Ended, Groups, NextStage
    <3>2. MinimumSettled(g)
      BY <1>7, <3>1 DEF SelectionInv, LoopsInv
    <3> QED
      BY <1>5, <3>1, <3>2
  <2> QED
    BY <1>3, <2>1, <2>2, <2>3 DEF LoopsInv, Groups
<1>9. OrderInv'
  <2>1. (\A g \in Groups : minimum[g] = 0) => selected = <<>>
    BY <1>1 DEF SelectionInv, OrderInv
  <2>2. selected = <<>> => DOMAIN selected = {}
    OBVIOUS
  <2> QED
    BY <1>1, <2>1, <2>2 DEF OrderInv
<1>10. SortedInv'
  BY <1>3 DEF SortedInv
<1> QED
  BY <1>5, <1>8, <1>9, <1>10 DEF SelectionInv

\* Phase 2 looks at a candidate.
LEMMA FillKeeps == ASSUME SelectionInv, Fill PROVE SelectionInv'
<1>1. stage = "fill" /\ IF CanAdd(pos) THEN Record(pos) ELSE Skip
  BY DEF Fill
<1>2. Looks
  BY DEF Fill, Looks
<1>3. /\ minimum' = minimum /\ ranked' = ranked /\ stage' = stage /\ pos' = pos + 1 /\ topK' = topK
  BY <1>2 DEF Looks, arguments
<1>4. /\ groupSelected \in [Groups -> Nat] /\ minimum \in [Groups -> Nat] /\ topK \in Nat
      /\ pos \in Nat /\ selected \in Seq(DOMAIN ranked) /\ Len(selected) \in Nat
  BY DEF SelectionInv, SelectionTypeOK
<1>5. ~(Len(selected) >= topK)
  BY <1>2 DEF Looks, Exhausted
<1>6. /\ SelectionTypeOK' /\ RankingInv' /\ Diversified' /\ CountsInv'
      /\ \A i : i = pos \/ Settled(i) => Settled(i)'
      /\ \A h \in Groups : groupSelected'[h] >= groupSelected[h]
      /\ selected' \in {selected, Append(selected, pos)}
  <2>1. CASE CanAdd(pos)
    <3>1. Record(pos)
      BY <1>1, <2>1
    <3>2. /\ SelectionTypeOK' /\ RankingInv' /\ Diversified' /\ CountsInv'
          /\ \A i : i = pos \/ Settled(i) => Settled(i)'
          /\ ranked[pos].group \in Groups
      BY <1>2, <2>1, <3>1, RecordKeeps
    <3>3. \A h \in Groups : groupSelected'[h] >= groupSelected[h]
      BY <1>4, <3>1, <3>2 DEF Record
    <3>4. selected' = Append(selected, pos)
      BY <3>1 DEF Record
    <3> QED
      BY <3>2, <3>3, <3>4
  <2>2. CASE ~CanAdd(pos)
    <3>1. Skip
      BY <1>1, <2>2
    <3>2. /\ SelectionTypeOK' /\ RankingInv' /\ Diversified' /\ CountsInv'
          /\ \A i : (i = pos /\ ~CanAdd(pos)) \/ Settled(i) => Settled(i)'
      BY <1>2, <3>1, SkipKeeps
    <3>3. groupSelected' = groupSelected /\ selected' = selected
      BY <3>1 DEF Skip
    <3>4. \A h \in Groups : groupSelected'[h] >= groupSelected[h]
      BY <1>4, <3>3
    <3> QED
      BY <2>2, <3>2, <3>3, <3>4
  <2> QED
    BY <2>1, <2>2
<1>7. LoopsInv'
  <2>1. ASSUME NEW i \in 1..(pos' - 1) PROVE Settled(i)'
    <3>1. i = pos \/ i \in 1..(pos - 1)
      BY <1>3, <1>4
    <3>2. \A j \in 1..(pos - 1) : Settled(j)
      BY <1>1 DEF SelectionInv, LoopsInv
    <3> QED
      BY <1>6, <3>1, <3>2
  <2>2. ASSUME NEW g \in Ended' PROVE MinimumSettled(g)'
    <3>1. g \in Groups /\ g \in Ended
      BY <1>3 DEF Ended
    <3>2. MinimumSettled(g) /\ groupSelected' \in [Groups -> Nat]
      BY <1>6, <3>1 DEF SelectionInv, LoopsInv, SelectionTypeOK
    <3> QED
      BY <1>3, <1>4, <1>5, <1>6, <3>1, <3>2, MinimumKept
  <2>3. stage' = "fill" /\ stage' \notin Groups
    BY <1>1, <1>3 DEF Groups
  <2> QED
    BY <2>1, <2>2, <2>3 DEF LoopsInv
<1>8. OrderInv'
  <2> SUFFICES ASSUME \A g \in Groups : minimum[g] = 0
               PROVE  /\ \A i \in DOMAIN selected' : selected'[i] < pos'
                      /\ \A i, j \in DOMAIN selected' : i < j => selected'[i] < selected'[j]
    BY <1>1, <1>3 DEF OrderInv, Groups
  <2>1. /\ \A i \in DOMAIN selected : selected[i] < pos
        /\ \A i, j \in DOMAIN selected : i < j => selected[i] < selected[j]
    BY <1>1 DEF SelectionInv, OrderInv
  <2>2. \A i \in DOMAIN selected : selected[i] \in Nat
    BY <1>4 DEF SelectionInv, SelectionTypeOK
  <2>3. CASE selected' = selected
    BY <1>3, <1>4, <2>1, <2>2, <2>3
  <2>4. CASE selected' = Append(selected, pos)
    <3>1. /\ DOMAIN selected' = 1..(Len(selected) + 1) /\ DOMAIN selected = 1..Len(selected)
          /\ selected'[Len(selected) + 1] = pos
          /\ \A i \in 1..Len(selected) : selected'[i] = selected[i]
      BY <1>4, <2>4
    <3>2. ASSUME NEW i \in DOMAIN selected' PROVE selected'[i] < pos'
      <4>1. i \in 1..Len(selected) \/ i = Len(selected) + 1
        BY <1>4, <3>1
      <4> QED
        BY <1>3, <1>4, <2>1, <2>2, <3>1, <4>1
    <3>3. ASSUME NEW i \in DOMAIN selected', NEW j \in DOMAIN selected', i < j
          PROVE  selected'[i] < selected'[j]
      <4>1. i \in 1..Len(selected) /\ (j \in 1..Len(selected) \/ j = Len(selected) + 1)
        BY <1>4, <3>1, <3>3
      <4> QED
        BY <2>1, <3>1, <3>3, <4>1
    <3> QED
      BY <3>2, <3>3
  <2> QED
    BY <1>6, <2>3, <2>4
<1>9. SortedInv'
  BY <1>1, <1>3 DEF SortedInv
<1> QED
  BY <1>6, <1>7, <1>8, <1>9 DEF SelectionInv

\* Phase 2 ends.
LEMMA EndFillKeeps == ASSUME SelectionInv, EndFill PROVE SelectionInv'
<1>1. /\ stage = "fill" /\ Exhausted /\ stage' = "sort" /\ pos' = pos /\ minimum' = minimum
      /\ selected' = selected /\ ranked' = ranked /\ topK' = topK
  BY DEF EndFill, arguments, NextStage
<1>2. Moves
  BY DEF EndFill, Moves, arguments
<1>3. ranked \in Seq(Items) /\ Len(ranked) \in Nat /\ pos \in 1..(Len(ranked) + 1)
  BY DEF SelectionInv, SelectionTypeOK
<1>4. /\ SelectionTypeOK' /\ RankingInv' /\ Diversified' /\ CountsInv'
      /\ \A i : Settled(i)' <=> Settled(i)
      /\ \A g \in Groups : MinimumSettled(g) => MinimumSettled(g)'
  BY <1>1, <1>2, <1>3, MoveKeeps
<1>5. LoopsInv'
  <2>1. ASSUME NEW g \in Ended' PROVE MinimumSettled(g)'
    <3>1. g \in Groups /\ g \in Ended
      BY <1>1 DEF Ended, Groups
    <3>2. MinimumSettled(g)
      BY <3>1 DEF SelectionInv, LoopsInv
    <3> QED
      BY <1>4, <3>1, <3>2
  <2>2. Len(selected') >= topK' \/ \A i \in DOMAIN ranked' : Settled(i)'
    <3>1. CASE Len(selected) >= topK
      BY <1>1, <3>1
    <3>2. CASE pos > Len(ranked)
      <4>1. \A i \in 1..(pos - 1) : Settled(i)
        BY <1>1 DEF SelectionInv, LoopsInv
      <4>2. DOMAIN ranked \subseteq 1..(pos - 1)
        BY <1>3, <3>2
      <4> QED
        BY <1>1, <1>4, <4>1, <4>2
    <3> QED
      BY <1>1, <3>1, <3>2 DEF Exhausted
  <2> QED
    BY <1>1, <2>1, <2>2 DEF LoopsInv, Groups
<1>6. OrderInv' /\ SortedInv'
  BY <1>1 DEF SelectionInv, OrderInv, SortedInv, Groups
<1> QED
  BY <1>4, <1>5, <1>6 DEF SelectionInv

\* s in another order.
Arranged(s, order) == [k \in DOMAIN s |-> s[order[k]]]

\* Sorting a sequence keeps its elements.
LEMMA SortedPermutes ==
    ASSUME NEW S, NEW s \in Seq(S), IsInjective(s), NEW R, OrdersTo(Len(s), R)
    PROVE  /\ Arranged(s, Sorted(Len(s), R)) \in Seq(S)
           /\ Len(Arranged(s, Sorted(Len(s), R))) = Len(s)
           /\ ToSet(Arranged(s, Sorted(Len(s), R))) = ToSet(s)
           /\ IsInjective(Arranged(s, Sorted(Len(s), R)))
<1> DEFINE n == Len(s)
           order == Sorted(n, R)
           t == Arranged(s, order)
<1>1. n \in Nat /\ DOMAIN s = 1..n
  OBVIOUS
<1>2. /\ order \in [1..n -> 1..n]
      /\ \A a, b \in 1..n : a < b => <<order[a], order[b]>> \in R
      /\ \A i \in 1..n : \E a \in 1..n : order[a] = i
  BY <1>1, SortedFacts
<1>3. t = [k \in 1..n |-> s[order[k]]]
  BY <1>1 DEF Arranged
<1>4. \A i \in 1..n : <<i, i>> \notin R
  BY DEF OrdersTo
<1> HIDE DEF order, n, t
<1>5. \A k \in 1..n : order[k] \in 1..n /\ t[k] = s[order[k]]
  BY <1>2, <1>3
<1>6. t \in [1..n -> S]
  BY <1>1, <1>3, <1>5
<1>7. t \in Seq(S) /\ Len(t) = n /\ DOMAIN t = 1..n
  BY <1>1, <1>6, FunctionIsSeq
<1>8. IsInjective(t)
  <2> SUFFICES ASSUME NEW a \in 1..n, NEW b \in 1..n, t[a] = t[b] PROVE a = b
    BY <1>7 DEF IsInjective
  <2>1. order[a] = order[b]
    BY <1>1, <1>5 DEF IsInjective
  <2>2. ~(a < b) /\ ~(b < a)
    BY <1>2, <1>4, <1>5, <2>1
  <2> QED
    BY <1>1, <2>2
<1>9. ToSet(t) \subseteq ToSet(s)
  BY <1>1, <1>5, <1>7 DEF ToSet
<1>10. ToSet(s) \subseteq ToSet(t)
  <2> SUFFICES ASSUME NEW i \in 1..n PROVE s[i] \in ToSet(t)
    BY <1>1 DEF ToSet
  <2>1. PICK a \in 1..n : order[a] = i
    BY <1>2
  <2>2. t[a] = s[i] /\ a \in DOMAIN t
    BY <1>5, <1>7, <2>1
  <2> QED
    BY <2>2 DEF ToSet
<1> QED
  BY <1>7, <1>8, <1>9, <1>10 DEF n, order, t

\* The pairs of results in the order of the final sort.
ScorePairs(s) == {p \in (DOMAIN s) \X (DOMAIN s) :
                    \/ Rounded(s[p[1]]) > Rounded(s[p[2]])
                    \/ Rounded(s[p[1]]) = Rounded(s[p[2]]) /\ p[1] < p[2]}

\* The final sort orders the results by score and keeps what already was in order.
LEMMA ByScoreFacts ==
    ASSUME SelectionInv
    PROVE  /\ ByScore(selected) \in Seq(DOMAIN ranked) /\ Len(ByScore(selected)) = Len(selected)
           /\ ToSet(ByScore(selected)) = ToSet(selected) /\ IsInjective(ByScore(selected))
           /\ \A a, b \in 1..Len(selected) : a < b =>
                /\ Rounded(ByScore(selected)[a]) >= Rounded(ByScore(selected)[b])
                /\ (\A i, j \in DOMAIN selected : i < j => selected[i] < selected[j])
                     => ByScore(selected)[a] < ByScore(selected)[b]
<1> DEFINE s == selected
           n == Len(s)
           R == ScorePairs(s)
           order == Sorted(n, R)
           t == ByScore(s)
<1>1. s \in Seq(DOMAIN ranked) /\ IsInjective(s) /\ n \in Nat /\ DOMAIN s = 1..n /\ ranked \in Seq(Items)
  BY DEF SelectionInv, SelectionTypeOK, CountsInv
<1>2. Given(query) /\ ranked = FusedRanking(query)
  BY QueriesGiven DEF SelectionInv, RankingInv
<1>3. \A x : Rounded(x) \in Nat
  BY <1>2, RoundedFacts DEF Rounded
<1>4. \A i, j \in 1..n : <<i, j>> \in R <=>
        Rounded(s[i]) > Rounded(s[j]) \/ (Rounded(s[i]) = Rounded(s[j]) /\ i < j)
  BY <1>1 DEF ScorePairs
<1>5. OrdersTo(n, R)
  <2>1. \A i \in 1..n : Rounded(s[i]) \in Nat
    BY <1>3
  <2> HIDE DEF s, n, R
  <2>2. \A i \in 1..n : <<i, i>> \notin R
    BY <1>4, <2>1
  <2>3. ASSUME NEW i \in 1..n, NEW j \in 1..n, NEW k \in 1..n, <<i, j>> \in R, <<j, k>> \in R
        PROVE  <<i, k>> \in R
    <3>1. Rounded(s[i]) \in Nat /\ Rounded(s[j]) \in Nat /\ Rounded(s[k]) \in Nat
      BY <2>1
    <3>2. /\ Rounded(s[i]) > Rounded(s[j]) \/ (Rounded(s[i]) = Rounded(s[j]) /\ i < j)
          /\ Rounded(s[j]) > Rounded(s[k]) \/ (Rounded(s[j]) = Rounded(s[k]) /\ j < k)
      BY <1>4, <2>3
    <3>3. Rounded(s[i]) > Rounded(s[k]) \/ (Rounded(s[i]) = Rounded(s[k]) /\ i < k)
      BY <1>1, <3>1, <3>2
    <3> QED
      BY <1>4, <3>3
  <2>4. \A i, j \in 1..n : i # j => <<i, j>> \in R \/ <<j, i>> \in R
    BY <1>1, <1>4, <2>1
  <2> QED
    BY <2>2, <2>3, <2>4 DEF OrdersTo
<1>6. t = [k \in DOMAIN s |-> s[order[k]]]
  BY DEF ByScore, ScorePairs
<1>7. t \in Seq(DOMAIN ranked) /\ Len(t) = n /\ ToSet(t) = ToSet(s) /\ IsInjective(t)
  <2>1. t = Arranged(s, Sorted(n, R))
    BY <1>6 DEF Arranged
  <2> HIDE DEF R, t
  <2> QED
    BY <1>1, <1>5, <2>1, SortedPermutes
<1>8. order \in [1..n -> 1..n] /\ \A a, b \in 1..n : a < b => <<order[a], order[b]>> \in R
  <2> HIDE DEF R
  <2> QED
    BY <1>1, <1>5, SortedFacts
<1>9. \A k \in 1..n : order[k] \in 1..n /\ t[k] = s[order[k]]
  <2> HIDE DEF order, t
  <2> QED
    BY <1>1, <1>6, <1>8
<1>10. ASSUME NEW x \in DOMAIN ranked, NEW y \in DOMAIN ranked, Rounded(x) > Rounded(y) PROVE x < y
  <2>1. x \in 1..Len(ranked) /\ y \in 1..Len(ranked) /\ Rounded(x) \in Nat /\ Rounded(y) \in Nat
    BY <1>1, <1>3
  <2>2. y < x => Rounded(y) >= Rounded(x)
    BY <1>2, <2>1, RankingByScore DEF Rounded
  <2> QED
    BY <1>10, <2>1, <2>2
<1> HIDE DEF order, t, R
<1>11. ASSUME NEW a \in 1..n, NEW b \in 1..n, a < b
       PROVE  /\ Rounded(t[a]) >= Rounded(t[b])
              /\ (\A i, j \in DOMAIN s : i < j => s[i] < s[j]) => t[a] < t[b]
  <2>1. /\ order[a] \in 1..n /\ order[b] \in 1..n /\ t[a] = s[order[a]] /\ t[b] = s[order[b]]
        /\ <<order[a], order[b]>> \in R
    BY <1>8, <1>9, <1>11
  <2>2. Rounded(t[a]) > Rounded(t[b]) \/ (Rounded(t[a]) = Rounded(t[b]) /\ order[a] < order[b])
    BY <1>4, <2>1
  <2>3. t[a] \in DOMAIN ranked /\ t[b] \in DOMAIN ranked
    BY <1>1, <2>1
  <2>4. Rounded(t[a]) \in Nat /\ Rounded(t[b]) \in Nat
    BY <1>3
  <2>5. Rounded(t[a]) > Rounded(t[b]) => t[a] < t[b]
    BY <1>10, <2>3
  <2> QED
    BY <1>1, <2>1, <2>2, <2>4, <2>5
<1> QED
  BY <1>7, <1>11 DEF t

\* The final sort.
LEMMA SortResultsKeeps == ASSUME SelectionInv, SortResults PROVE SelectionInv'
<1>1. /\ stage = "sort" /\ selected' = ByScore(selected) /\ stage' = "done" /\ pos' = pos
      /\ query' = query /\ minimum' = minimum /\ topK' = topK /\ ranked' = ranked
      /\ groupSelected' = groupSelected /\ repoSelected' = repoSelected
  BY DEF SortResults, arguments
<1>2. /\ selected' \in Seq(DOMAIN ranked) /\ Len(selected') = Len(selected)
      /\ ToSet(selected') = ToSet(selected) /\ IsInjective(selected')
      /\ \A a, b \in 1..Len(selected) : a < b =>
           /\ Rounded(selected'[a]) >= Rounded(selected'[b])
           /\ (\A i, j \in DOMAIN selected : i < j => selected[i] < selected[j])
                => selected'[a] < selected'[b]
  BY <1>1, ByScoreFacts
<1>3. DOMAIN selected' = 1..Len(selected) /\ DOMAIN selected = 1..Len(selected)
  BY <1>2 DEF SelectionInv, SelectionTypeOK
<1>4. SelectionTypeOK' /\ RankingInv'
  BY <1>1, <1>2 DEF SelectionInv, SelectionTypeOK, RankingInv
<1>5. Diversified' /\ CountsInv'
  <2>1. /\ CountsAt(ranked, selected, groupSelected, repoSelected)
        /\ DiversifiedAt(ranked, selected, topK)
    BY ReadNow DEF SelectionInv
  <2>2. /\ CountsAt(ranked, selected', groupSelected, repoSelected)
        /\ DiversifiedAt(ranked, selected', topK)
    BY <1>2, <2>1, ReorderedKeeps
  <2> QED
    BY <1>1, <2>2, ReadNext
<1>6. \A i : Settled(i)' <=> Settled(i)
  BY <1>1, <1>2, ReadNow, ReadNext
<1>7. LoopsInv'
  <2>1. ASSUME NEW g \in Ended' PROVE MinimumSettled(g)'
    <3>1. g \in Groups /\ g \in Ended
      BY <1>1 DEF Ended, Groups
    <3>2. MinimumSettled(g)
      BY <3>1 DEF SelectionInv, LoopsInv
    <3> QED
      BY <1>1, <1>2, <1>6, <3>2 DEF MinimumSettled
  <2>2. Len(selected) >= topK \/ \A i \in DOMAIN ranked : Settled(i)
    BY <1>1 DEF SelectionInv, LoopsInv
  <2>3. Len(selected') >= topK' \/ \A i \in DOMAIN ranked' : Settled(i)'
    BY <1>1, <1>2, <1>6, <2>2
  <2> QED
    BY <1>1, <2>1, <2>3 DEF LoopsInv, Groups
<1>8. OrderInv'
  <2> SUFFICES ASSUME \A g \in Groups : minimum[g] = 0
               PROVE  \A i, j \in DOMAIN selected' : i < j => selected'[i] < selected'[j]
    BY <1>1 DEF OrderInv, Groups
  <2>1. \A i, j \in DOMAIN selected : i < j => selected[i] < selected[j]
    BY DEF SelectionInv, OrderInv
  <2> QED
    BY <1>2, <1>3, <2>1
<1>9. SortedInv'
  <2>1. \A x : Rounded(x)' = Rounded(x)
    BY <1>1 DEF Rounded
  <2>2. \A a, b \in DOMAIN selected' : a < b => Rounded(selected'[a]) >= Rounded(selected'[b])
    BY <1>2, <1>3
  <2> QED
    BY <1>1, <2>2 DEF SortedInv, Rounded
<1> QED
  BY <1>4, <1>5, <1>7, <1>8, <1>9 DEF SelectionInv

-----------------------------------------------------------------------------
(* Theorems. *)

\* Every step of the selection keeps the invariant.
LEMMA SelectionStep == ASSUME SelectionInv, [SelectionNext]_selectionVars PROVE SelectionInv'
<1>1. CASE UNCHANGED selectionVars
  <2>1. /\ Moves /\ stage' = stage /\ pos' = pos /\ selected' = selected /\ ranked' = ranked
        /\ minimum' = minimum /\ query' = query /\ topK' = topK /\ groupSelected' = groupSelected
    BY <1>1 DEF selectionVars, Moves
  <2>2. stage \in Groups \cup {"fill", "sort", "done"} /\ pos \in 1..(Len(ranked) + 1)
    BY DEF SelectionInv, SelectionTypeOK
  <2>3. /\ SelectionTypeOK' /\ RankingInv' /\ Diversified' /\ CountsInv'
        /\ \A i : Settled(i)' <=> Settled(i)
        /\ \A g \in Groups : MinimumSettled(g) => MinimumSettled(g)'
    BY <2>1, <2>2, MoveKeeps
  <2>4. Ended' = Ended /\ Ended \subseteq Groups
    BY <2>1 DEF Ended
  <2>5. LoopsInv'
    BY <2>1, <2>3, <2>4 DEF SelectionInv, LoopsInv
  <2>6. OrderInv' /\ SortedInv'
    BY <2>1 DEF SelectionInv, OrderInv, SortedInv, Rounded
  <2> QED
    BY <2>3, <2>5, <2>6 DEF SelectionInv
<1> QED
  BY <1>1, TakeMinimumKeeps, EndGroupKeeps, FillKeeps, EndFillKeeps, SortResultsKeeps DEF SelectionNext

\* SelectionInv holds of the choice of _pick_diversified throughout.
THEOREM SelectionInvariant == SelectionSpec => []SelectionInv
<1> QED
  BY SelectionStarts, SelectionStep, PTL DEF SelectionSpec

\* The state of the selection keeps its type, every position it holds is one of
\* the ranking, and so no loop reads behind its end (_pick_diversified).
THEOREM SelectionTypeCorrect == SelectionSpec => []SelectionTypeOK
<1>1. SelectionInv => SelectionTypeOK
  BY DEF SelectionInv
<1> QED
  BY <1>1, SelectionInvariant, PTL

\* The invariant speaks of the ranking only through the query it came from.
LEMMA FusionFollows == SelectionInv => FusionSound
<1> SUFFICES ASSUME SelectionInv PROVE FusionSound
  OBVIOUS
<1>1. Given(query) /\ ranked = FusedRanking(query) /\ ranked \in Seq(Items)
  BY QueriesGiven DEF SelectionInv, RankingInv
<1>2. IsInjective(ranked) /\ ToSet(ranked) = ToSet(Lexical(query)) \cup ToSet(Semantic(query))
  BY <1>1, RankingHoldsAll
<1>3. ASSUME NEW i \in DOMAIN ranked, NEW j \in DOMAIN ranked, Dominates(ranked[i], ranked[j]) PROVE i < j
  <2> DEFINE a == ranked[i]
             b == ranked[j]
  <2>1. /\ a # b /\ NoWorse(Lexical(query), a, b) /\ NoWorse(Semantic(query), a, b)
        /\ Contains(Lexical(query), a) \/ Contains(Semantic(query), a)
    BY <1>3 DEF Dominates, NoWorse
  <2>2. Exceeds(FusedScore(query, a), FusedScore(query, b))
    BY <1>1, <2>1, DominatesExceeds
  <2>3. i \in 1..Len(ranked) /\ j \in 1..Len(ranked) /\ i # j
    BY <1>1, <2>1
  <2>4. j < i => ~Exceeds(FusedScore(query, a), FusedScore(query, b))
    BY <1>1, <2>3, RankingByScore
  <2> QED
    BY <2>2, <2>3, <2>4
<1>4. FusionFair
  BY <1>2, <1>3 DEF FusionFair
<1>5. SilentChannel
  BY <1>1, OneChannel DEF SilentChannel
<1> QED
  BY <1>4, <1>5 DEF FusionSound

\* Reciprocal rank fusion loses no chunk, never ranks a chunk above one that
\* every channel prefers, and leaves the other channel's ranking alone when one
\* is switched off (_rrf_fuse), whatever the weights and rankings are.
THEOREM FusionIsSound == SelectionSpec => []FusionSound
<1> QED
  BY FusionFollows, SelectionInvariant, PTL

\* The selection is diverse at any moment and maximal in the end, for any ranking,
\* any minima and any limits (_pick_diversified).
THEOREM SelectionIsSound == SelectionSpec => []SelectionSound
<1>1. SelectionInv => SelectionSound
  <2> SUFFICES ASSUME SelectionInv PROVE SelectionSound
    OBVIOUS
  <2>1. ASSUME stage = "done", Len(selected) < topK, NEW i \in DOMAIN ranked \ Chosen PROVE Blocked(i)
    <3>1. ~(Len(selected) >= topK)
      BY <2>1 DEF SelectionInv, SelectionTypeOK
    <3>2. Settled(i)
      BY <2>1, <3>1 DEF SelectionInv, LoopsInv
    <3> QED
      BY <2>1, <3>2 DEF Settled
  <2>2. Maximal
    BY <2>1 DEF Maximal
  <2> QED
    BY <2>2 DEF SelectionInv, SelectionSound
<1> QED
  BY <1>1, SelectionInvariant, PTL

\* No slot goes to a chunk that no minimum asked for while a group is short of its
\* minimum and has a candidate left (phase 1 of _pick_diversified).
THEOREM MinimaComeFirst == SelectionSpec => []MinimaFirst
<1>1. SelectionInv => MinimaFirst
  <2> SUFFICES ASSUME SelectionInv, stage = "done", NEW g \in Groups,
                      Cardinality(ChosenOf(g)) < minimum[g],
                      NEW i \in DOMAIN ranked \ Chosen, ranked[i].group = g, ~Blocked(i),
                      NEW h \in Groups
               PROVE  Cardinality(ChosenOf(h)) <= minimum[h]
    BY DEF MinimaFirst
  <2>1. \A f \in Groups : groupSelected[f] = Cardinality(ChosenOf(f)) /\ groupSelected[f] \in Nat /\ minimum[f] \in Nat
    BY DEF SelectionInv, CountsInv, SelectionTypeOK
  <2>2. MinimumSettled(g)
    <3>1. g \in Ended
      BY DEF Ended, Groups
    <3> QED
      BY <3>1 DEF SelectionInv, LoopsInv
  <2>3. ~(groupSelected[g] >= minimum[g])
    BY <2>1
  <2>4. ~Settled(i)
    BY DEF Settled
  <2> QED
    BY <2>1, <2>2, <2>3, <2>4 DEF MinimumSettled
<1> QED
  BY <1>1, SelectionInvariant, PTL

\* Results come in the order of their displayed scores, and without minima in the
\* order of the fused ranking, ties of rounding included (_retrieve_index).
THEOREM ResultsComeInOrder == SelectionSpec => []ResultsInOrder
<1>1. SelectionInv => ResultsInOrder
  BY DEF SelectionInv, OrderInv, SortedInv, ResultsInOrder
<1> QED
  BY <1>1, SelectionInvariant, PTL

-----------------------------------------------------------------------------

(* ContextPacking alone, for any result list and any budget. *)

\* Before the first block is tried (prompting.py, the empty context) the invariant
\* holds: nothing is packed and nothing has been passed over.
LEMMA PackingInitInv == PackingInit => PackingInv
<1> SUFFICES ASSUME PackingInit PROVE PackingInv
  OBVIOUS
<1>1. PICK s \in BlockLists, n \in MaxItemCounts : items = Prefix(s, n)
  BY DEF PackingInit
<1>2. s \in Seq(Nat \ {0}) /\ n \in Nat
  BY PackingAssumption
<1>3. items \in Seq(Nat \ {0})
  BY <1>1, <1>2 DEF Prefix
<1>4. WithinBudget
  <2>1. Joined = <<>>
    BY DEF PackingInit, Joined
  <2> QED
    BY <2>1, TotalEmpty, PackingAssumption DEF PackingInit, WithinBudget, JoinedLength
<1> QED
  BY <1>3, <1>4, PackingAssumption DEF PackingInit, PackingInv, PackingTypeOK, NothingFits, Packed

\* The lengths that are joined are numbers, one for each packed block.
LEMMA JoinedIsSeq ==
    ASSUME NEW s \in Seq(Nat \ {0}), NEW b \in Seq(1..Len(s)), NEW joined,
           joined = [i \in DOMAIN b |-> s[b[i]] + (IF i > 1 THEN 1 ELSE 0)]
    PROVE  joined \in Seq(Nat) /\ Len(joined) = Len(b)
<1>1. ASSUME NEW i \in 1..Len(b) PROVE s[b[i]] + (IF i > 1 THEN 1 ELSE 0) \in Nat
  <2>1. b[i] \in 1..Len(s)
    OBVIOUS
  <2>2. s[b[i]] \in Nat
    BY <2>1
  <2> QED
    BY <2>2
<1>2. joined \in [1..Len(b) -> Nat] /\ Len(b) \in Nat
  BY <1>1
<1> QED
  BY <1>2, FunctionIsSeq

\* Packing or skipping one block preserves it: the room left only shrinks, so a
\* block that was passed over still does not fit.
LEMMA PackingNextInv == ASSUME PackingInv, [PackingNext]_packingVars PROVE PackingInv'
<1>1. CASE UNCHANGED packingVars
  BY <1>1 DEF packingVars, PackingInv, PackingTypeOK, NothingFits, Packed, Fits, Separator,
     WithinBudget, JoinedLength, Joined
<1>t. /\ items \in Seq(Nat \ {0}) /\ maxChars \in Nat /\ next \in Nat \ {0}
      /\ blocks \in Seq(1..Len(items)) /\ used \in Nat
      /\ DOMAIN blocks = 1..Len(blocks)
  BY DEF PackingInv, PackingTypeOK
<1>n. Len(blocks) \in Nat /\ Len(items) \in Nat
  BY DEF PackingInv, PackingTypeOK
<1>2. CASE PackBlock
  <2>0. /\ next <= Len(items) /\ Fits(next) /\ next' = next + 1
        /\ items' = items /\ maxChars' = maxChars
    BY <1>2 DEF PackBlock
  <2>1. next \in 1..Len(items) /\ items[next] \in Nat \ {0}
    BY <1>t, <2>0
  <2>2. /\ Len(blocks') = Len(blocks) + 1
        /\ blocks'[Len(blocks) + 1] = next
        /\ \A i \in 1..Len(blocks) : blocks'[i] = blocks[i]
        /\ blocks' \in Seq(1..Len(items))
        /\ DOMAIN blocks' = 1..(Len(blocks) + 1)
    BY <1>2, <1>t, <2>1 DEF PackBlock
  <2>3. Separator(blocks) = (IF Len(blocks) = 0 THEN 0 ELSE 1) /\ Separator(blocks)' = 1
    BY <1>t, <2>2 DEF Separator
  <2>4. used' = used + items[next] + Separator(blocks)
    BY <1>2, <1>t, <2>2, <2>3 DEF PackBlock
  <2>5. used' <= maxChars /\ used' \in Nat /\ used < used'
    BY <1>t, <2>0, <2>1, <2>3, <2>4 DEF Fits
  <2>6. \A i \in 1..Len(blocks) : blocks[i] < next
    BY <1>t DEF PackingInv
  <2>7. \A i, j \in 1..Len(blocks) : i < j => blocks[i] < blocks[j]
    BY <1>t DEF PackingInv, NothingFits
  <2>8. \A i, j \in DOMAIN blocks' : i < j => blocks'[i] < blocks'[j]
    <3> SUFFICES ASSUME NEW i \in 1..(Len(blocks) + 1), NEW j \in 1..(Len(blocks) + 1), i < j
                 PROVE  blocks'[i] < blocks'[j]
      BY <2>2
    <3>0. i \in 1..Len(blocks)
      BY <1>n
    <3>1. blocks'[i] = blocks[i]
      BY <2>2, <3>0
    <3>2. CASE j = Len(blocks) + 1
      BY <2>2, <2>6, <3>0, <3>1, <3>2
    <3>3. CASE j \in 1..Len(blocks)
      BY <2>2, <2>7, <3>0, <3>1, <3>3
    <3> QED
      BY <1>n, <3>2, <3>3
  <2>9. ASSUME NEW n \in 1..(next' - 1) PROVE n \in Packed' \/ ~Fits(n)'
    <3>1. CASE n = next
      <4>1. Len(blocks) + 1 \in DOMAIN blocks' /\ blocks'[Len(blocks) + 1] = n
        BY <1>t, <2>2, <3>1
      <4> QED
        BY <4>1 DEF Packed
    <3>2. CASE n \in Packed
      <4>1. PICK i \in DOMAIN blocks : n = blocks[i]
        BY <3>2 DEF Packed
      <4>2. i \in DOMAIN blocks' /\ n = blocks'[i]
        BY <1>t, <2>2, <4>1
      <4> QED
        BY <4>2 DEF Packed
    <3>3. CASE n \in 1..(next - 1) /\ ~Fits(n)
      <4>1. items[n] \in Nat
        BY <1>t, <2>0, <3>3
      <4> QED
        BY <1>t, <2>0, <2>3, <2>5, <3>3, <4>1 DEF Fits
    <3>4. n \in 1..(next - 1) \/ n = next
      BY <1>t, <2>0
    <3> QED
      BY <3>1, <3>2, <3>3, <3>4 DEF PackingInv, NothingFits
  <2>10. \A i \in DOMAIN blocks' : blocks'[i] < next'
    <3> SUFFICES ASSUME NEW i \in 1..(Len(blocks) + 1) PROVE blocks'[i] < next'
      BY <2>2
    <3>1. CASE i = Len(blocks) + 1
      BY <1>t, <2>0, <2>2, <3>1
    <3>2. CASE i \in 1..Len(blocks)
      <4>1. blocks[i] \in 1..Len(items)
        BY <1>t, <3>2
      <4>2. blocks[i] < next /\ blocks'[i] = blocks[i]
        BY <2>2, <2>6, <3>2
      <4> QED
        BY <1>t, <1>n, <2>0, <4>1, <4>2
    <3> QED
      BY <1>n, <3>1, <3>2
  <2>11. NothingFits'
    BY <2>8, <2>9 DEF NothingFits
  <2>12. WithinBudget'
    <3>1. Joined \in Seq(Nat) /\ Len(Joined) = Len(blocks)
      BY <1>t, JoinedIsSeq DEF Joined
    <3>2. Joined' = Append(Joined, items[next] + Separator(blocks))
      <4>1. Joined' \in Seq(Nat) /\ Len(Joined') = Len(blocks) + 1
        <5>1. /\ items \in Seq(Nat \ {0}) /\ blocks' \in Seq(1..Len(items)) /\ Len(blocks') = Len(blocks) + 1
              /\ Joined' = [i \in DOMAIN blocks' |-> items[blocks'[i]] + (IF i > 1 THEN 1 ELSE 0)]
          BY <1>t, <2>0, <2>2 DEF Joined
        <5>2. Joined' \in Seq(Nat) /\ Len(Joined') = Len(blocks')
          BY <5>1, JoinedIsSeq
        <5> QED
          BY <5>1, <5>2
      <4>2. ASSUME NEW i \in 1..(Len(blocks) + 1)
            PROVE  Joined'[i] = Append(Joined, items[next] + Separator(blocks))[i]
        <5>1. CASE i = Len(blocks) + 1
          BY <1>n, <2>0, <2>1, <2>2, <2>3, <3>1, <5>1 DEF Joined
        <5>2. CASE i \in 1..Len(blocks)
          <6>1. i \in DOMAIN blocks /\ i \in DOMAIN blocks' /\ blocks'[i] = blocks[i]
            BY <1>n, <1>t, <2>2, <5>2
          <6>2. Joined'[i] = Joined[i]
            BY <2>0, <6>1 DEF Joined
          <6> QED
            BY <3>1, <5>2, <6>2, AppendProperties
        <5>3. i = Len(blocks) + 1 \/ i \in 1..Len(blocks)
          BY <1>n
        <5> QED
          BY <5>1, <5>2, <5>3
      <4> QED
        BY <1>n, <3>1, <4>1, <4>2, AppendProperties, SeqEqual
    <3>3. items[next] + Separator(blocks) \in Nat
      BY <1>t, <2>1, <2>3
    <3>4. JoinedLength' = JoinedLength + (items[next] + Separator(blocks)) /\ JoinedLength \in Nat
      BY <3>1, <3>2, <3>3, TotalAppend DEF JoinedLength
    <3>5. used = JoinedLength
      BY DEF PackingInv, WithinBudget
    <3> QED
      BY <1>t, <2>0, <2>1, <2>3, <2>4, <2>5, <3>4, <3>5 DEF WithinBudget
  <2> QED
    BY <1>t, <2>0, <2>2, <2>5, <2>10, <2>11, <2>12 DEF PackingInv, PackingTypeOK
<1>3. CASE SkipBlock
  <2>1. NothingFits'
    <3>1. /\ next' = next + 1 /\ ~Fits(next)
          /\ UNCHANGED <<items, maxChars, blocks, used>>
      BY <1>3 DEF SkipBlock
    <3>2. Packed' = Packed /\ \A n : Fits(n)' = Fits(n)
      BY <3>1 DEF Packed, Fits, Separator
    <3>3. \A n \in 1..(next' - 1) : n \in 1..(next - 1) \/ n = next
      BY <1>t, <3>1
    <3>4. \A n \in 1..(next' - 1) : n \in Packed' \/ ~Fits(n)'
      BY <3>1, <3>2, <3>3 DEF PackingInv, NothingFits
    <3> QED
      BY <3>1, <3>4 DEF PackingInv, NothingFits
  <2>2. \A i \in DOMAIN blocks' : blocks'[i] < next'
    <3> SUFFICES ASSUME NEW i \in DOMAIN blocks PROVE blocks[i] < next + 1
      BY <1>3 DEF SkipBlock
    <3>1. blocks[i] \in 1..Len(items) /\ blocks[i] < next
      BY <1>t DEF PackingInv
    <3> QED
      BY <1>t, <3>1
  <2>3. WithinBudget'
    BY <1>3 DEF SkipBlock, PackingInv, WithinBudget, JoinedLength, Joined
  <2> QED
    BY <1>3, <1>t, <2>1, <2>2, <2>3 DEF SkipBlock, PackingInv, PackingTypeOK
<1> QED
  BY <1>1, <1>2, <1>3 DEF PackingNext

\* For every result list and every budget, render_prompt_context keeps the
\* order of the evidence and leaves out only blocks that do not fit.
THEOREM PackingLeavesOutOnlyMisfits == PackingSpec => []NothingFits
<1>1. PackingInv => NothingFits
  BY DEF PackingInv
<1> QED
  BY <1>1, PackingInitInv, PackingNextInv, PTL DEF PackingSpec

\* What is rendered is used characters long, newlines included, and never
\* longer than max_chars, whatever the blocks (render_prompt_context).
THEOREM PackingStaysWithinBudget == PackingSpec => []WithinBudget
<1>1. PackingInv => WithinBudget
  BY DEF PackingInv
<1> QED
  BY <1>1, PackingInitInv, PackingNextInv, PTL DEF PackingSpec

-----------------------------------------------------------------------------

(* Packs. *)

\* Blocks of evidence have positive lengths.
Lengths(E) == E \in Seq(Nat \ {0})

\* The length of a pack's beginning is a number and depends on nothing else.
LEMMA PackedLengthFacts ==
    ASSUME NEW E, Lengths(E), NEW P \in Seq(1..Len(E)), NEW k \in 0..Len(P)
    PROVE  /\ PackedLength(E, P, k) \in Nat
           /\ PackedLength(E, P, 0) = 0
<1>1. ASSUME NEW j \in 0..Len(P)
      PROVE  [i \in 1..j |-> E[P[i]] + (IF i > 1 THEN 1 ELSE 0)] \in Seq(Nat)
  <2>1. ASSUME NEW i \in 1..j PROVE E[P[i]] + (IF i > 1 THEN 1 ELSE 0) \in Nat
    <3>1. P[i] \in 1..Len(E)
      OBVIOUS
    <3>2. E[P[i]] \in Nat
      BY <3>1 DEF Lengths
    <3> QED
      BY <3>2
  <2>2. j \in Nat /\ [i \in 1..j |-> E[P[i]] + (IF i > 1 THEN 1 ELSE 0)] \in [1..j -> Nat]
    BY <2>1
  <2> QED
    BY <2>2, FunctionIsSeq
<1>2. \A s \in Seq(Nat) : Total(s) \in Nat
  <2> SUFFICES ASSUME NEW s \in Seq(Nat) PROVE Total(s) \in Nat
    OBVIOUS
  <2> QED
    BY TotalAppend
<1>3. [i \in 1..0 |-> E[P[i]] + (IF i > 1 THEN 1 ELSE 0)] = <<>>
  OBVIOUS
<1> QED
  BY <1>1, <1>2, <1>3, TotalEmpty DEF PackedLength

\* Packs with the same beginning have the same lengths there.
LEMMA PackedLengthSame ==
    ASSUME NEW E, NEW F, NEW P, NEW Q, NEW k \in Nat,
           \A i \in 1..k : P[i] = Q[i] /\ E[P[i]] = F[Q[i]]
    PROVE  PackedLength(E, P, k) = PackedLength(F, Q, k)
<1>1. [i \in 1..k |-> E[P[i]] + (IF i > 1 THEN 1 ELSE 0)] = [i \in 1..k |-> F[Q[i]] + (IF i > 1 THEN 1 ELSE 0)]
  OBVIOUS
<1> QED
  BY <1>1 DEF PackedLength

\* The next block fits, and one pass over the evidence takes it.
LEMMA GreedyPack ==
    ASSUME NEW E, Lengths(E), NEW P \in Seq(1..Len(E)), NEW n \in 1..Len(E), NEW b \in Nat,
           Greedy(E, P, n - 1, b), \A i \in DOMAIN P : P[i] < n,
           PackedLength(E, P, Len(P)) + E[n] + (IF Len(P) = 0 THEN 0 ELSE 1) <= b
    PROVE  Greedy(E, Append(P, n), n, b)
<1> DEFINE Q == Append(P, n)
<1>1. /\ Len(P) \in Nat /\ Len(Q) = Len(P) + 1 /\ Q[Len(P) + 1] = n
      /\ DOMAIN Q = 1..(Len(P) + 1) /\ DOMAIN P = 1..Len(P)
      /\ \A i \in 1..Len(P) : Q[i] = P[i]
  OBVIOUS
<1>2. \A i \in 1..Len(P) : P[i] \in 1..Len(E) /\ P[i] < n
  <2>1. \A i \in 1..Len(P) : P[i] \in 1..Len(E)
    OBVIOUS
  <2>2. \A i \in 1..Len(P) : P[i] < n
    OBVIOUS
  <2> QED
    BY <2>1, <2>2
<1> HIDE DEF Q
<1>n. Len(P) \in Nat
  OBVIOUS
<1>3. \A i, j \in 1..Len(P) : i < j => P[i] < P[j]
  BY <1>1 DEF Greedy
<1>4. ASSUME NEW i \in DOMAIN Q, NEW j \in DOMAIN Q, i < j PROVE Q[i] < Q[j]
  <2>1. i \in 1..Len(P) /\ (j \in 1..Len(P) \/ j = Len(P) + 1)
    BY <1>1, <1>4
  <2> QED
    BY <1>1, <1>2, <1>3, <1>4, <2>1
<1>5. ASSUME NEW k \in 0..Len(P) PROVE PackedLength(E, Q, k) = PackedLength(E, P, k)
  <2>1. k \in Nat /\ \A i \in 1..k : Q[i] = P[i] /\ E[Q[i]] = E[P[i]]
    BY <1>1
  <2> QED
    BY <2>1, PackedLengthSame
<1>6. ASSUME NEW m \in 1..n, NEW k \in 0..Len(Q), Below(Q, k, m)
      PROVE  k < Len(Q) /\ Q[k + 1] = m <=> PackedLength(E, Q, k) + E[m] + (IF k = 0 THEN 0 ELSE 1) <= b
  <2>1. ~(n < m) /\ Len(P) + 1 \in DOMAIN Q
    BY <1>1
  <2>2. k \in 0..Len(P)
    <3>1. Len(P) + 1 <= k <=> n < m
      BY <1>1, <1>6, <2>1 DEF Below
    <3> QED
      BY <1>1, <2>1, <3>1
  <2>3. Below(P, k, m)
    BY <1>1, <1>6 DEF Below
  <2>4. CASE m = n
    <3>1. k = Len(P)
      <4>1. ~(k < Len(P))
        <5> SUFFICES ASSUME k < Len(P) PROVE FALSE
          OBVIOUS
        <5>1. Len(P) \in DOMAIN P
          BY <1>1, <2>2
        <5>2. Len(P) <= k
          BY <1>2, <2>3, <2>4, <5>1 DEF Below
        <5> QED
          BY <1>1, <2>2, <5>2
      <4> QED
        BY <1>n, <2>2, <4>1
    <3> QED
      BY <1>1, <1>5, <2>4, <3>1
  <2>5. CASE m # n
    <3>1. m \in 1..(n - 1)
      BY <2>5
    <3>2. k < Len(P) /\ P[k + 1] = m <=> PackedLength(E, P, k) + E[m] + (IF k = 0 THEN 0 ELSE 1) <= b
      BY <2>2, <2>3, <3>1 DEF Greedy
    <3>3. k < Len(Q) /\ Q[k + 1] = m <=> k < Len(P) /\ P[k + 1] = m
      <4>1. CASE k = Len(P)
        BY <1>1, <2>5, <4>1
      <4>2. CASE k # Len(P)
        <5>1. k < Len(P) /\ k + 1 \in 1..Len(P)
          BY <1>n, <2>2, <4>2
        <5> QED
          BY <1>1, <5>1
      <4> QED
        BY <4>1, <4>2
    <3> QED
      BY <1>5, <2>2, <3>2, <3>3
  <2> QED
    BY <2>4, <2>5
<1>7. Greedy(E, Q, n, b)
  BY <1>4, <1>6 DEF Greedy
<1> QED
  BY <1>7 DEF Q

\* The next block does not fit, and one pass over the evidence leaves it out.
LEMMA GreedySkip ==
    ASSUME NEW E, Lengths(E), NEW P \in Seq(1..Len(E)), NEW n \in 1..Len(E), NEW b \in Nat,
           Greedy(E, P, n - 1, b), \A i \in DOMAIN P : P[i] < n,
           ~(PackedLength(E, P, Len(P)) + E[n] + (IF Len(P) = 0 THEN 0 ELSE 1) <= b)
    PROVE  Greedy(E, P, n, b)
<1>n. Len(P) \in Nat
  OBVIOUS
<1>1. DOMAIN P = 1..Len(P)
  OBVIOUS
<1>2. ASSUME NEW m \in 1..n, NEW k \in 0..Len(P), Below(P, k, m)
      PROVE  k < Len(P) /\ P[k + 1] = m <=> PackedLength(E, P, k) + E[m] + (IF k = 0 THEN 0 ELSE 1) <= b
  <2>1. CASE m = n
    <3>1. k = Len(P)
      <4>1. ~(k < Len(P))
        <5> SUFFICES ASSUME k < Len(P) PROVE FALSE
          OBVIOUS
        <5>1. Len(P) \in DOMAIN P
          BY <1>n, <1>1
        <5>2. Len(P) <= k
          BY <1>2, <2>1, <5>1 DEF Below
        <5> QED
          BY <1>n, <5>2
      <4> QED
        BY <1>n, <4>1
    <3> QED
      BY <1>n, <2>1, <3>1
  <2>2. CASE m # n
    <3>1. m \in 1..(n - 1)
      BY <2>2
    <3> QED
      BY <1>2, <3>1 DEF Greedy
  <2> QED
    BY <2>1, <2>2
<1> QED
  BY <1>2 DEF Greedy

-----------------------------------------------------------------------------
(* The chain. *)

\* The evidence has one block for each result.
LEMMA EvidenceFacts ==
    ASSUME SelectionTypeOK
    PROVE  Lengths(Evidence) /\ Len(Evidence) = Len(selected) /\ DOMAIN Evidence = 1..Len(selected)
<1>1. ranked \in Seq(Items) /\ selected \in Seq(DOMAIN ranked) /\ Len(selected) \in Nat
  BY DEF SelectionTypeOK
<1>2. ASSUME NEW i \in 1..Len(selected) PROVE BlockLength[ranked[selected[i]]] \in Nat \ {0}
  <2>1. selected[i] \in DOMAIN ranked
    BY <1>1
  <2>2. ranked[selected[i]] \in Items
    BY <1>1, <2>1
  <2> QED
    BY <2>2, ChainAssumption
<1>3. Evidence = [i \in 1..Len(selected) |-> BlockLength[ranked[selected[i]]]]
  BY <1>1 DEF Evidence
<1>4. Evidence \in [1..Len(selected) -> Nat \ {0}]
  BY <1>2, <1>3
<1> QED
  BY <1>1, <1>4, FunctionIsSeq DEF Lengths

\* What a rendering begins with: the first n blocks, none of them packed.
LEMMA RenderStarts ==
    ASSUME SelectionTypeOK, NEW n \in Nat, Render(n), maxChars' \in Nat
    PROVE  /\ PackingInv' /\ next' = 1 /\ blocks' = <<>>
           /\ items' = Prefix(Evidence, n) /\ (Len(selected) <= n => items' = Evidence)
<1>1. Lengths(Evidence) /\ Len(Evidence) = Len(selected) /\ Len(Evidence) \in Nat
  BY EvidenceFacts DEF SelectionTypeOK
<1>2. items' = Prefix(Evidence, n) /\ next' = 1 /\ blocks' = <<>> /\ used' = 0
  BY DEF Render
<1>3. items' \in Seq(Nat \ {0})
  <2> DEFINE m == IF n <= Len(Evidence) THEN n ELSE Len(Evidence)
  <2>1. 1 \in 1..(Len(Evidence) + 1) /\ m \in 0..Len(Evidence) /\ Evidence \in Seq(Nat \ {0})
    BY <1>1 DEF Lengths
  <2>2. items' = SubSeq(Evidence, 1, m)
    BY <1>2, ZenonT(40) DEF Prefix
  <2> HIDE DEF m
  <2> QED
    BY <2>1, <2>2, SubSeqProperties
<1>4. Len(selected) <= n => items' = Evidence
  <2> SUFFICES ASSUME Len(selected) <= n PROVE Prefix(Evidence, n) = Evidence
    BY <1>2
  <2>1. (IF n <= Len(Evidence) THEN n ELSE Len(Evidence)) = Len(Evidence)
    BY <1>1
  <2>2. SubSeq(Evidence, 1, Len(Evidence)) = Evidence
    BY <1>1 DEF Lengths
  <2> QED
    BY <2>1, <2>2 DEF Prefix
<1>5. WithinBudget'
  <2>1. Joined' = <<>>
    BY <1>2 DEF Joined
  <2>2. JoinedLength' = 0
    BY <2>1, TotalEmpty DEF JoinedLength
  <2> QED
    BY <1>2, <2>2 DEF WithinBudget
<1>6. PackingTypeOK' /\ next' <= Len(items') + 1
  BY <1>2, <1>3 DEF PackingTypeOK
<1>7. NothingFits' /\ \A i \in DOMAIN blocks' : blocks'[i] < next'
  BY <1>2 DEF NothingFits
<1> QED
  BY <1>2, <1>4, <1>5, <1>6, <1>7 DEF PackingInv

\* Nothing is chosen any more once the results are there.
LEMMA DoneIsDone == ASSUME stage = "done" PROVE ~SelectionNext
<1> QED
  BY DEF SelectionNext, TakeMinimum, EndGroup, Fill, EndFill, SortResults, Groups

\* A step that leaves the results alone keeps the evidence.
LEMMA ResultsKept ==
    ASSUME SelectionInv, UNCHANGED selectionVars
    PROVE  SelectionInv' /\ Evidence' = Evidence /\ stage' = stage /\ selected' = selected
<1>1. SelectionInv'
  BY SelectionStep
<1> QED
  BY <1>1 DEF selectionVars, Evidence

\* The chain begins with an empty context.
LEMMA ChainStarts == ChainInit => ChainInv
<1> SUFFICES ASSUME ChainInit PROVE ChainInv
  OBVIOUS
<1>1. SelectionInv /\ SelectionTypeOK
  BY SelectionStarts DEF ChainInit, SelectionInv
<1>2. /\ items = <<>> /\ maxChars = 0 /\ next = 1 /\ blocks = <<>> /\ used = 0
      /\ rendering = "none" /\ promptItems = 0 /\ promptPack = <<>>
  BY DEF ChainInit
<1>3. PackingInv
  <2>1. Joined = <<>>
    BY <1>2 DEF Joined
  <2>2. WithinBudget
    BY <1>2, <2>1, TotalEmpty DEF WithinBudget, JoinedLength
  <2> QED
    BY <1>2, <2>2 DEF PackingInv, PackingTypeOK, NothingFits
<1>4. ChainTypeOK
  BY <1>1, <1>2, <1>3, EmptySeq DEF ChainTypeOK, PackingInv
<1>5. RenderingInv
  BY <1>2 DEF RenderingInv
<1> QED
  BY <1>1, <1>3, <1>4, <1>5 DEF ChainInv

\* Retrieval happens before anything is rendered.
LEMMA RetrieveKeeps == ASSUME ChainInv, Retrieve PROVE ChainInv'
<1>1. /\ SelectionNext /\ UNCHANGED packingVars
      /\ rendering' = rendering /\ promptItems' = promptItems /\ promptPack' = promptPack
  BY DEF Retrieve
<1>2. rendering = "none" /\ promptPack = <<>> /\ promptItems \in Nat
  BY <1>1, DoneIsDone DEF ChainInv, RenderingInv, ChainTypeOK
<1>3. SelectionInv' /\ PackingInv'
  BY <1>1, SelectionStep, PackingNextInv DEF ChainInv
<1>4. ChainTypeOK'
  BY <1>1, <1>2, <1>3, EmptySeq DEF ChainTypeOK, SelectionInv, PackingInv
<1>5. RenderingInv'
  BY <1>1, <1>2 DEF RenderingInv
<1> QED
  BY <1>3, <1>4, <1>5 DEF ChainInv

\* No block has been looked at, and so none is packed.
LEMMA GreedyEmpty == ASSUME NEW E, NEW b PROVE Greedy(E, <<>>, 0, b)
<1> QED
  BY DEF Greedy

\* The chain renders all results.
LEMMA FormatEvidenceKeeps == ASSUME ChainInv, FormatEvidence PROVE ChainInv'
<1>1. /\ stage = "done" /\ rendering = "none" /\ Render(topK) /\ maxChars' \in Nat
      /\ rendering' = "chain" /\ UNCHANGED selectionVars
      /\ promptItems' = promptItems /\ promptPack' = promptPack
  BY PackingAssumption DEF FormatEvidence
<1>2. /\ SelectionInv' /\ Evidence' = Evidence /\ stage' = stage
  BY <1>1, ResultsKept DEF ChainInv
<1>3. SelectionTypeOK /\ topK \in Nat /\ Len(selected) <= topK
  BY DEF ChainInv, SelectionInv, SelectionTypeOK, Diversified
<1>4. PackingInv' /\ next' = 1 /\ blocks' = <<>> /\ items' = Evidence
  BY <1>1, <1>3, RenderStarts
<1>5. promptPack = <<>> /\ promptItems \in Nat
  BY <1>1 DEF ChainInv, RenderingInv, ChainTypeOK
<1>6. ChainTypeOK'
  BY <1>1, <1>2, <1>4, <1>5, EmptySeq DEF ChainTypeOK, SelectionInv, PackingInv
<1>7. Greedy(Evidence', blocks', next' - 1, maxChars')
  <2>1. next' - 1 = 0
    BY <1>4
  <2> QED
    BY <1>4, <2>1, GreedyEmpty
<1>8. RenderingInv'
  BY <1>1, <1>2, <1>4, <1>5, <1>7 DEF RenderingInv
<1> QED
  BY <1>2, <1>4, <1>6, <1>8 DEF ChainInv

\* What has been used is the length of the pack.
LEMMA UsedIsPacked ==
    ASSUME PackingInv
    PROVE  /\ Lengths(items) /\ blocks \in Seq(1..Len(items)) /\ Len(blocks) \in Nat
           /\ used = PackedLength(items, blocks, Len(blocks))
           /\ \A n : Fits(n) <=> used + items[n] + (IF Len(blocks) = 0 THEN 0 ELSE 1) <= maxChars
           /\ \A i \in DOMAIN blocks : blocks[i] < next
           /\ next \in Nat \ {0} /\ next <= Len(items) + 1 /\ maxChars \in Nat
<1>1. /\ Lengths(items) /\ blocks \in Seq(1..Len(items)) /\ next \in Nat \ {0} /\ maxChars \in Nat
      /\ next <= Len(items) + 1 /\ \A i \in DOMAIN blocks : blocks[i] < next
  BY DEF PackingInv, PackingTypeOK, Lengths
<1>2. Len(blocks) \in Nat /\ DOMAIN blocks = 1..Len(blocks)
  BY <1>1
<1>3. used = PackedLength(items, blocks, Len(blocks))
  BY <1>2 DEF PackingInv, WithinBudget, JoinedLength, Joined, PackedLength
<1>4. Separator(blocks) = IF Len(blocks) = 0 THEN 0 ELSE 1
  BY <1>1, <1>2 DEF Separator
<1>5. \A n : Fits(n) <=> used + items[n] + (IF Len(blocks) = 0 THEN 0 ELSE 1) <= maxChars
  BY <1>4 DEF Fits
<1> QED
  BY <1>1, <1>2, <1>3, <1>5

\* A second pass decides about a block as the first did.
LEMMA Retrace ==
    ASSUME NEW E, Lengths(E), NEW P \in Seq(1..Len(E)), NEW k \in 0..Len(P), NEW n \in 1..Len(E), NEW b \in Nat,
           Greedy(E, P, Len(E), b), Below(P, k, n)
    PROVE  IF PackedLength(E, P, k) + E[n] + (IF k = 0 THEN 0 ELSE 1) <= b
           THEN k + 1 \in 0..Len(P) /\ Append(SubSeq(P, 1, k), n) = SubSeq(P, 1, k + 1) /\ Below(P, k + 1, n + 1)
           ELSE Below(P, k, n + 1)
<1>n. Len(P) \in Nat /\ k \in Nat
  OBVIOUS
<1>1. DOMAIN P = 1..Len(P) /\ \A i \in 1..Len(P) : P[i] \in 1..Len(E)
  OBVIOUS
<1>2. k < Len(P) /\ P[k + 1] = n <=> PackedLength(E, P, k) + E[n] + (IF k = 0 THEN 0 ELSE 1) <= b
  BY DEF Greedy
<1>3. \A i, j \in 1..Len(P) : i < j => P[i] < P[j]
  BY <1>1 DEF Greedy
<1>4. \A i \in 1..Len(P) : i <= k <=> P[i] < n
  BY <1>1 DEF Below
<1>5. CASE k < Len(P) /\ P[k + 1] = n
  <2>1. k + 1 \in 0..Len(P) /\ k + 1 \in 1..Len(P)
    BY <1>n, <1>5
  <2>2. Append(SubSeq(P, 1, k), n) = SubSeq(P, 1, k + 1)
    <3> DEFINE A == SubSeq(P, 1, k)
               B == SubSeq(P, 1, k + 1)
    <3>1. A \in Seq(1..Len(E)) /\ Len(A) = k /\ \A i \in 1..k : A[i] = P[i]
      BY <1>n, <2>1, SMTT(30)
    <3>2. B \in Seq(1..Len(E)) /\ Len(B) = k + 1 /\ \A i \in 1..(k + 1) : B[i] = P[i]
      BY <1>n, <2>1
    <3> HIDE DEF A, B
    <3>3. Append(A, n) \in Seq(1..Len(E)) /\ Len(Append(A, n)) = k + 1
      BY <3>1
    <3>4. ASSUME NEW i \in 1..(k + 1) PROVE Append(A, n)[i] = B[i]
      <4>1. CASE i = k + 1
        BY <1>5, <3>1, <3>2, <4>1
      <4>2. CASE i # k + 1
        <5>1. i \in 1..k
          BY <1>n, <4>2
        <5>2. Append(A, n)[i] = A[i]
          BY <3>1, <5>1, AppendProperties
        <5> QED
          BY <3>1, <3>2, <5>1, <5>2
      <4> QED
        BY <4>1, <4>2
    <3>5. Append(A, n) = B
      BY <3>2, <3>3, <3>4, SeqEqual
    <3> QED
      BY <3>5 DEF A, B
  <2>3. ASSUME NEW i \in DOMAIN P PROVE i <= k + 1 <=> P[i] < n + 1
    <3>1. i \in 1..Len(P) /\ P[i] \in Nat
      BY <1>1
    <3>2. i <= k => P[i] < n
      BY <1>4, <3>1
    <3>3. k + 1 < i => n < P[i]
      BY <1>3, <1>5, <2>1, <3>1
    <3> QED
      BY <1>n, <1>5, <3>1, <3>2, <3>3
  <2> QED
    BY <1>2, <1>5, <2>1, <2>2, <2>3 DEF Below
<1>6. CASE ~(k < Len(P) /\ P[k + 1] = n)
  <2>1. ASSUME NEW i \in DOMAIN P PROVE i <= k <=> P[i] < n + 1
    <3>1. i \in 1..Len(P) /\ P[i] \in Nat
      BY <1>1
    <3>2. i <= k <=> P[i] < n
      BY <1>4, <3>1
    <3>3. ASSUME P[i] = n PROVE FALSE
      <4>1. k < i /\ k + 1 \in 1..Len(P)
        BY <1>n, <3>1, <3>2, <3>3
      <4>2. i # k + 1
        BY <1>n, <1>6, <3>3, <4>1
      <4>3. P[k + 1] < n
        BY <1>3, <1>n, <3>1, <3>3, <4>1, <4>2
      <4>4. k + 1 <= k
        BY <1>4, <4>1, <4>3
      <4> QED
        BY <1>n, <4>4
    <3> QED
      BY <3>1, <3>2, <3>3
  <2> QED
    BY <1>2, <1>6, <2>1 DEF Below
<1> QED
  BY <1>5, <1>6

\* Packing or skipping a block of the chain's context.
LEMMA PackEvidenceKeeps == ASSUME ChainInv, PackEvidence PROVE ChainInv'
<1>1. /\ rendering \in {"chain", "file"} /\ PackingNext /\ UNCHANGED selectionVars
      /\ rendering' = rendering /\ promptItems' = promptItems /\ promptPack' = promptPack
  BY DEF PackEvidence
<1>2. SelectionInv' /\ Evidence' = Evidence /\ stage' = stage /\ selected' = selected
  BY <1>1, ResultsKept DEF ChainInv
<1>3. PackingInv'
  BY <1>1, PackingNextInv DEF ChainInv
<1>4. ChainTypeOK'
  BY <1>1, <1>2, <1>3 DEF ChainInv, ChainTypeOK, SelectionInv, PackingInv
<1>5. /\ Lengths(items) /\ blocks \in Seq(1..Len(items)) /\ Len(blocks) \in Nat
      /\ used = PackedLength(items, blocks, Len(blocks))
      /\ \A n : Fits(n) <=> used + items[n] + (IF Len(blocks) = 0 THEN 0 ELSE 1) <= maxChars
      /\ \A i \in DOMAIN blocks : blocks[i] < next
      /\ next \in Nat \ {0} /\ maxChars \in Nat
  BY UsedIsPacked DEF ChainInv
<1>6. /\ next <= Len(items) /\ next' = next + 1 /\ items' = items /\ maxChars' = maxChars
      /\ blocks' = IF Fits(next) THEN Append(blocks, next) ELSE blocks
  BY <1>1 DEF PackingNext, PackBlock, SkipBlock
<1>7. next \in 1..Len(items) /\ Len(items) \in Nat /\ next' - 1 = next
  BY <1>5, <1>6 DEF Lengths
<1>8. Lengths(Evidence) /\ Len(Evidence) = Len(selected) /\ DOMAIN Evidence = 1..Len(selected)
  BY EvidenceFacts DEF ChainInv, SelectionInv
<1>9. stage = "done"
  BY <1>1 DEF ChainInv, RenderingInv
<1>10. CASE rendering = "chain"
  <2>1. promptPack = <<>> /\ items = Evidence /\ Greedy(items, blocks, next - 1, maxChars)
    BY <1>10 DEF ChainInv, RenderingInv
  <2>2. Greedy(items, blocks', next, maxChars)
    <3>1. CASE Fits(next)
      <4>1. PackedLength(items, blocks, Len(blocks)) + items[next] + (IF Len(blocks) = 0 THEN 0 ELSE 1) <= maxChars
        BY <1>5, <3>1
      <4>2. Greedy(items, Append(blocks, next), next, maxChars)
        BY <1>5, <1>7, <2>1, <4>1, GreedyPack
      <4> QED
        BY <1>6, <3>1, <4>2
    <3>2. CASE ~Fits(next)
      <4>1. ~(PackedLength(items, blocks, Len(blocks)) + items[next] + (IF Len(blocks) = 0 THEN 0 ELSE 1) <= maxChars)
        BY <1>5, <3>2
      <4>2. Greedy(items, blocks, next, maxChars)
        BY <1>5, <1>7, <2>1, <4>1, GreedySkip
      <4> QED
        BY <1>6, <3>2, <4>2
    <3> QED
      BY <3>1, <3>2
  <2>3. items' = Evidence' /\ Greedy(Evidence', blocks', next' - 1, maxChars')
    BY <1>2, <1>6, <1>7, <2>1, <2>2
  <2>4. RenderingInv'
    BY <1>1, <1>2, <1>9, <1>10, <2>1, <2>3 DEF RenderingInv
  <2> QED
    BY <1>2, <1>3, <1>4, <2>4 DEF ChainInv
<1>11. CASE rendering = "file"
  <2> DEFINE E == Evidence
             P == promptPack
  <2>1. items = Prefix(E, promptItems) /\ Greedy(E, P, Len(E), maxChars)
    BY <1>11 DEF ChainInv, RenderingInv
  <2>2. PICK k \in 0..Len(P) : blocks = SubSeq(P, 1, k) /\ Below(P, k, next)
    BY <1>11 DEF ChainInv, RenderingInv
  <2>3. P \in Seq(1..Len(E)) /\ promptItems \in Nat
    <3>1. selected \in Seq(DOMAIN ranked)
      BY DEF ChainInv, SelectionInv, SelectionTypeOK
    <3> QED
      BY <1>8, <3>1 DEF ChainInv, ChainTypeOK
  <2>4. Len(items) <= Len(E) /\ \A n \in 1..Len(items) : items[n] = E[n]
    <3>1. E \in Seq(Nat \ {0}) /\ Len(E) \in Nat
      BY <1>8 DEF Lengths
    <3> HIDE DEF E
    <3> QED
      BY <2>1, <2>3, <3>1 DEF Prefix
  <2>5. Len(blocks) = k /\ \A i \in 1..k : blocks[i] = P[i] /\ blocks[i] \in 1..Len(items)
    <3>1. k \in Nat /\ k <= Len(P)
      BY <2>3
    <3>2. Len(blocks) = k /\ \A i \in 1..k : blocks[i] = P[i]
      BY <2>2, <2>3, <3>1
    <3>3. \A i \in 1..k : blocks[i] \in 1..Len(items)
      BY <1>5, <3>2
    <3> QED
      BY <3>2, <3>3
  <2>6. PackedLength(items, blocks, k) = PackedLength(E, P, k)
    <3>1. k \in Nat /\ \A i \in 1..k : blocks[i] = P[i] /\ items[blocks[i]] = E[P[i]]
      BY <2>4, <2>5
    <3> HIDE DEF E, P
    <3> QED
      BY <3>1, PackedLengthSame
  <2>7. next \in 1..Len(E) /\ items[next] = E[next]
    <3>1. Len(E) \in Nat
      BY <1>8 DEF Lengths
    <3> QED
      BY <1>7, <2>4, <3>1
  <2>8. Fits(next) <=> PackedLength(E, P, k) + E[next] + (IF k = 0 THEN 0 ELSE 1) <= maxChars
    BY <1>5, <2>5, <2>6, <2>7
  <2>9. IF Fits(next) THEN k + 1 \in 0..Len(P) /\ Append(SubSeq(P, 1, k), next) = SubSeq(P, 1, k + 1)
                           /\ Below(P, k + 1, next + 1)
        ELSE Below(P, k, next + 1)
    <3>1. Lengths(E) /\ maxChars \in Nat
      BY <1>5, <1>8
    <3> HIDE DEF E, P
    <3> QED
      BY <2>1, <2>2, <2>3, <2>7, <2>8, <3>1, Retrace
  <2>10. \E j \in 0..Len(promptPack') : blocks' = SubSeq(promptPack', 1, j) /\ Below(promptPack', j, next')
    <3>1. CASE Fits(next)
      BY <1>1, <1>6, <2>2, <2>9, <3>1
    <3>2. CASE ~Fits(next)
      BY <1>1, <1>6, <2>2, <2>9, <3>2
    <3> QED
      BY <3>1, <3>2
  <2>11. items' = Prefix(Evidence', promptItems') /\ Greedy(Evidence', promptPack', Len(Evidence'), maxChars')
    BY <1>1, <1>2, <1>6, <2>1
  <2>12. RenderingInv'
    BY <1>1, <1>2, <1>9, <1>11, <2>10, <2>11 DEF RenderingInv
  <2> QED
    BY <1>2, <1>3, <1>4, <2>12 DEF ChainInv
<1> QED
  BY <1>1, <1>10, <1>11

\* The context of the chain is returned.
LEMMA ReturnPackKeeps == ASSUME ChainInv, ReturnPack PROVE ChainInv'
<1>1. /\ rendering = "chain" /\ next > Len(items) /\ promptPack' = blocks /\ rendering' = "returned"
      /\ UNCHANGED selectionVars /\ UNCHANGED packingVars /\ promptItems' = promptItems
  BY DEF ReturnPack
<1>2. SelectionInv' /\ Evidence' = Evidence /\ stage' = stage /\ selected' = selected
  BY <1>1, ResultsKept DEF ChainInv
<1>3. PackingInv'
  BY <1>1, PackingNextInv DEF ChainInv
<1>4. /\ stage = "done" /\ items = Evidence /\ Greedy(Evidence, blocks, next - 1, maxChars)
  BY <1>1 DEF ChainInv, RenderingInv
<1>5. items' = items /\ blocks' = blocks /\ next' = next /\ maxChars' = maxChars
  BY <1>1 DEF packingVars
<1>6. promptPack' \in Seq(DOMAIN selected')
  <2>1. blocks \in Seq(1..Len(items)) /\ Len(Evidence) = Len(selected) /\ selected \in Seq(DOMAIN ranked)
    BY EvidenceFacts DEF ChainInv, SelectionInv, SelectionTypeOK, PackingInv, PackingTypeOK
  <2>2. DOMAIN selected = 1..Len(items)
    BY <1>4, <2>1
  <2> QED
    BY <1>1, <1>2, <2>1, <2>2
<1>7. ChainTypeOK'
  BY <1>1, <1>2, <1>3, <1>6 DEF ChainInv, ChainTypeOK, SelectionInv, PackingInv
<1>8. RenderingInv'
  BY <1>1, <1>2, <1>4, <1>5 DEF RenderingInv
<1> QED
  BY <1>2, <1>3, <1>7, <1>8 DEF ChainInv

\* The results are rendered once more, into a file.
LEMMA WritePromptKeeps == ASSUME ChainInv, WritePrompt PROVE ChainInv'
<1>1. PICK n \in PromptItems : n >= 0 /\ promptItems' = n /\ Render(n) /\ rendering' = "file"
  BY DEF WritePrompt
<1>2. /\ rendering = "returned" /\ UNCHANGED selectionVars /\ maxChars' = maxChars /\ promptPack' = promptPack
  BY DEF WritePrompt
<1>3. n \in Nat
  BY <1>1, ChainAssumption
<1>4. SelectionInv' /\ Evidence' = Evidence /\ stage' = stage /\ selected' = selected
  BY <1>2, ResultsKept DEF ChainInv
<1>5. SelectionTypeOK /\ maxChars \in Nat
  BY DEF ChainInv, SelectionInv, PackingInv, PackingTypeOK
<1>6. PackingInv' /\ next' = 1 /\ blocks' = <<>> /\ items' = Prefix(Evidence, n)
  BY <1>1, <1>2, <1>3, <1>5, RenderStarts
<1>7. /\ stage = "done" /\ items = Evidence /\ Greedy(Evidence, blocks, next - 1, maxChars)
      /\ next > Len(items) /\ promptPack = blocks
  BY <1>2 DEF ChainInv, RenderingInv
<1>8. next - 1 = Len(Evidence)
  <2>1. next \in Nat /\ next <= Len(items) + 1 /\ Len(items) \in Nat
    BY UsedIsPacked DEF ChainInv, Lengths
  <2> QED
    BY <1>7, <2>1
<1>9. promptPack \in Seq(DOMAIN selected) /\ Len(promptPack) \in Nat
  BY DEF ChainInv, ChainTypeOK
<1>10. blocks' = SubSeq(promptPack, 1, 0) /\ Below(promptPack, 0, 1)
  <2>1. selected \in Seq(DOMAIN ranked)
    BY <1>5 DEF SelectionTypeOK
  <2>2. \A i \in DOMAIN promptPack : i \in Nat \ {0} /\ promptPack[i] \in Nat \ {0}
    BY <1>9, <2>1
  <2>3. SubSeq(promptPack, 1, 0) = <<>>
    BY <1>9
  <2> QED
    BY <1>6, <2>2, <2>3 DEF Below
<1>11. ChainTypeOK'
  BY <1>1, <1>2, <1>3, <1>4, <1>6, <1>9 DEF ChainTypeOK, SelectionInv, PackingInv
<1>12. /\ Greedy(Evidence', promptPack', Len(Evidence'), maxChars')
       /\ items' = Prefix(Evidence', promptItems')
  BY <1>1, <1>2, <1>4, <1>6, <1>7, <1>8
<1>13. \E k \in 0..Len(promptPack') : blocks' = SubSeq(promptPack', 1, k) /\ Below(promptPack', k, next')
  <2>1. 0 \in 0..Len(promptPack)
    BY <1>9
  <2> QED
    BY <1>2, <1>6, <1>10, <2>1
<1>14. RenderingInv'
  BY <1>1, <1>4, <1>7, <1>12, <1>13 DEF RenderingInv
<1> QED
  BY <1>4, <1>6, <1>11, <1>14 DEF ChainInv

\* A negative --prompt-items leaves everything as it is.
LEMMA PromptRefusedKeeps == ASSUME ChainInv, PromptRefused PROVE ChainInv'
<1>1. /\ rendering = "returned" /\ rendering' = "refused" /\ promptPack' = promptPack
      /\ UNCHANGED selectionVars /\ UNCHANGED packingVars /\ promptItems' = promptItems
  BY DEF PromptRefused
<1>2. SelectionInv' /\ Evidence' = Evidence /\ stage' = stage /\ selected' = selected
  BY <1>1, ResultsKept DEF ChainInv
<1>3. PackingInv'
  BY <1>1, PackingNextInv DEF ChainInv
<1>4. ChainTypeOK'
  BY <1>1, <1>2, <1>3 DEF ChainInv, ChainTypeOK, SelectionInv, PackingInv
<1>5. items' = items /\ blocks' = blocks /\ next' = next /\ maxChars' = maxChars
  BY <1>1 DEF packingVars
<1>6. RenderingInv'
  BY <1>1, <1>2, <1>5 DEF ChainInv, RenderingInv
<1> QED
  BY <1>2, <1>3, <1>4, <1>6 DEF ChainInv

-----------------------------------------------------------------------------
(* Theorems. *)

\* ChainInv holds throughout a request (pipeline.py, cli.py cmd_query).
THEOREM ChainInvariant == ChainSpec => []ChainInv
<1>1. ASSUME ChainInv, [ChainNext]_chainVars PROVE ChainInv'
  <2>1. CASE UNCHANGED chainVars
    <3>1. /\ UNCHANGED selectionVars /\ UNCHANGED packingVars /\ rendering' = rendering
          /\ promptItems' = promptItems /\ promptPack' = promptPack
      BY <2>1 DEF chainVars
    <3>2. SelectionInv' /\ Evidence' = Evidence /\ stage' = stage /\ selected' = selected
      BY <1>1, <3>1, ResultsKept DEF ChainInv
    <3>3. PackingInv'
      BY <1>1, <3>1, PackingNextInv DEF ChainInv
    <3>4. ChainTypeOK'
      BY <1>1, <3>1, <3>2, <3>3 DEF ChainInv, ChainTypeOK, SelectionInv, PackingInv
    <3>5. items' = items /\ blocks' = blocks /\ next' = next /\ maxChars' = maxChars
      BY <3>1 DEF packingVars
    <3>6. RenderingInv'
      BY <1>1, <3>1, <3>2, <3>5 DEF ChainInv, RenderingInv
    <3> QED
      BY <3>2, <3>3, <3>4, <3>6 DEF ChainInv
  <2> QED
    BY <1>1, <2>1, RetrieveKeeps, FormatEvidenceKeeps, PackEvidenceKeeps, ReturnPackKeeps,
       WritePromptKeeps, PromptRefusedKeeps DEF ChainNext
<1> QED
  BY <1>1, ChainStarts, PTL DEF ChainSpec

\* Type correctness of a request: in particular the context never names a
\* result that is not there.
THEOREM ChainTypeCorrect == ChainSpec => []ChainTypeOK
<1>1. ChainInv => ChainTypeOK
  BY DEF ChainInv
<1> QED
  BY <1>1, ChainInvariant, PTL

\* The chain is a selection to which rendering adds nothing (_retrieve calls
\* HybridRetriever.retrieve and no later stage changes its results).
THEOREM ChainIsSelection == ChainSpec => SelectionSpec
<1>1. ChainInit => SelectionInit
  BY DEF ChainInit
<1>2. [ChainNext]_chainVars => [SelectionNext]_selectionVars
  BY DEF ChainNext, Retrieve, FormatEvidence, PackEvidence, ReturnPack, WritePrompt, PromptRefused, chainVars
<1> QED
  BY <1>1, <1>2, PTL DEF ChainSpec, SelectionSpec

\* So the results of the chain are fused, chosen and ordered as retrieve promises.
THEOREM ChainResultsAreSound ==
    ChainSpec => [](FusionSound /\ SelectionSound /\ MinimaFirst /\ ResultsInOrder)
<1> QED
  BY ChainIsSelection, FusionIsSound, SelectionIsSound, MinimaComeFirst, ResultsComeInOrder, PTL

\* And both contexts of a request, that of the chain and that of the prompt
\* file, stay within the budget and leave out only blocks that do not fit.
THEOREM ChainContextsFit == ChainSpec => [](WithinBudget /\ NothingFits)
<1>1. ChainInv => WithinBudget /\ NothingFits
  BY DEF ChainInv, PackingInv
<1> QED
  BY <1>1, ChainInvariant, PTL

\* The context of the chain is made of all results: it opens with the best
\* one that fits at all, and only what does not fit is missing (_context).
THEOREM ContextHoldsAllResults == ChainSpec => []ContextOfAllResults
<1>1. ChainInv => ContextOfAllResults
  <2> SUFFICES ASSUME ChainInv, rendering = "returned" PROVE ContextOfAllResults
    BY DEF ContextOfAllResults
  <2> DEFINE E == Evidence
             P == promptPack
  <2>1. items = E /\ Greedy(E, P, next - 1, maxChars) /\ next > Len(items) /\ P = blocks
    BY DEF ChainInv, RenderingInv
  <2>2. /\ Lengths(items) /\ blocks \in Seq(1..Len(items)) /\ next \in Nat \ {0}
        /\ next <= Len(items) + 1 /\ maxChars \in Nat
    BY UsedIsPacked DEF ChainInv
  <2>3. Len(E) \in Nat /\ DOMAIN selected = 1..Len(E) /\ next - 1 = Len(E) /\ Lengths(E) /\ P \in Seq(1..Len(E))
    <3>1. Len(items) \in Nat
      BY <2>2 DEF Lengths
    <3>2. Len(E) = Len(selected) /\ selected \in Seq(DOMAIN ranked)
      BY EvidenceFacts DEF ChainInv, SelectionInv, SelectionTypeOK
    <3>3. next - 1 = Len(items)
      BY <2>1, <2>2, <3>1
    <3> QED
      BY <2>1, <2>2, <3>1, <3>2, <3>3
  <2>4. ASSUME NEW i \in DOMAIN selected, E[i] <= maxChars, \A j \in 1..(i - 1) : E[j] > maxChars
        PROVE  P # <<>> /\ P[1] = i
    <3> HIDE DEF E, P
    <3>1. i \in 1..Len(E) /\ i \in 1..(next - 1)
      BY <2>3, <2>4
    <3>2. Len(P) \in Nat /\ DOMAIN P = 1..Len(P) /\ 0 \in 0..Len(P)
      BY <2>3
    <3>3. \A n \in 1..Len(E) : E[n] \in Nat
      BY <2>3 DEF Lengths
    <3>4. PackedLength(E, P, 0) = 0
      BY <2>3, <3>2, PackedLengthFacts
    <3>5. ASSUME NEW n \in 1..Len(E), Below(P, 0, n) PROVE 0 < Len(P) /\ P[1] = n <=> E[n] <= maxChars
      <4>1. 0 < Len(P) /\ P[0 + 1] = n <=> PackedLength(E, P, 0) + E[n] + (IF 0 = 0 THEN 0 ELSE 1) <= maxChars
        BY <2>1, <2>3, <3>2, <3>5 DEF Greedy
      <4>2. PackedLength(E, P, 0) + E[n] + (IF 0 = 0 THEN 0 ELSE 1) = E[n]
        BY <3>3, <3>4
      <4> QED
        BY <4>1, <4>2
    <3>6. \A x \in DOMAIN P : P[x] \in 1..Len(E) /\ x >= 1
      BY <2>3
    <3>7. \A x \in DOMAIN P : P[1] <= P[x]
      <4>1. \A x, y \in DOMAIN P : x < y => P[x] < P[y]
        BY <2>1 DEF Greedy
      <4> QED
        BY <3>2, <3>6, <4>1
    <3>8. ASSUME 0 < Len(P) PROVE P[1] >= i
      <4>1. 1 \in DOMAIN P /\ P[1] \in 1..Len(E)
        BY <3>2, <3>6, <3>8
      <4>2. Below(P, 0, P[1])
        <5>1. ASSUME NEW x \in DOMAIN P PROVE x <= 0 <=> P[x] < P[1]
          BY <3>2, <3>6, <3>7, <4>1
        <5> QED
          BY <5>1 DEF Below
      <4>3. E[P[1]] <= maxChars
        BY <3>5, <3>8, <4>1, <4>2
      <4>4. ~(P[1] \in 1..(i - 1))
        BY <2>2, <2>4, <3>3, <4>1, <4>3
      <4> QED
        BY <3>1, <4>1, <4>4
    <3>9. Below(P, 0, i)
      <4>1. ASSUME NEW x \in DOMAIN P PROVE x <= 0 <=> P[x] < i
        BY <3>1, <3>2, <3>6, <3>7, <3>8
      <4> QED
        BY <4>1 DEF Below
    <3>10. 0 < Len(P) /\ P[1] = i
      BY <2>4, <3>1, <3>5, <3>9
    <3> QED
      BY <3>10
  <2>5. ASSUME NEW i \in DOMAIN selected \ ToSet(P) PROVE used + Separator(P) + E[i] > maxChars
    <3>1. i \in 1..(next - 1) /\ i \in 1..Len(E)
      BY <2>3
    <3>2. Packed = ToSet(P)
      BY <2>1 DEF Packed, ToSet
    <3>3. ~Fits(i)
      BY <3>1, <3>2 DEF ChainInv, PackingInv, NothingFits
    <3>4. E[i] \in Nat /\ used \in Nat /\ Separator(P) \in Nat
      BY <2>3, <3>1 DEF Lengths, ChainInv, PackingInv, PackingTypeOK, Separator
    <3>5. ~(used + E[i] + Separator(P) <= maxChars)
      BY <2>1, <3>3 DEF Fits
    <3> HIDE DEF E, P
    <3> QED
      BY <2>2, <3>4, <3>5
  <2> QED
    BY <2>4, <2>5 DEF ContextOfAllResults
<1> QED
  BY <1>1, ChainInvariant, PTL

\* The prompt file holds the blocks of the returned context up to
\* --prompt-items, although it is packed anew (cmd_query).
THEOREM PromptFileRetraces == ChainSpec => []PromptFileAgrees
<1>1. ChainInv => PromptFileAgrees
  <2> SUFFICES ASSUME ChainInv, rendering = "file", next > Len(items)
               PROVE  \E k \in 0..Len(promptPack) :
                        /\ blocks = SubSeq(promptPack, 1, k)
                        /\ \A i \in DOMAIN promptPack : i <= k <=> promptPack[i] <= promptItems
    BY DEF PromptFileAgrees
  <2>1. PICK k \in 0..Len(promptPack) : blocks = SubSeq(promptPack, 1, k) /\ Below(promptPack, k, next)
    BY DEF ChainInv, RenderingInv
  <2>2. items = Prefix(Evidence, promptItems) /\ promptItems \in Nat
    BY DEF ChainInv, RenderingInv, ChainTypeOK
  <2>3. Lengths(Evidence) /\ Len(Evidence) = Len(selected) /\ selected \in Seq(DOMAIN ranked)
    BY EvidenceFacts DEF ChainInv, SelectionInv, SelectionTypeOK
  <2>4. Len(items) = IF promptItems <= Len(selected) THEN promptItems ELSE Len(selected)
    <3>1. Evidence \in Seq(Nat \ {0}) /\ Len(Evidence) \in Nat
      BY <2>3 DEF Lengths
    <3> QED
      BY <2>2, <2>3, <3>1 DEF Prefix
  <2>5. next = Len(items) + 1
    <3>1. next \in Nat /\ next <= Len(items) + 1 /\ Len(items) \in Nat
      BY UsedIsPacked DEF ChainInv, Lengths
    <3> QED
      BY <3>1
  <2>6. ASSUME NEW i \in DOMAIN promptPack PROVE i <= k <=> promptPack[i] <= promptItems
    <3>1. promptPack[i] \in 1..Len(selected) /\ Len(selected) \in Nat
      BY <2>3 DEF ChainInv, ChainTypeOK
    <3>2. i <= k <=> promptPack[i] < next
      BY <2>1 DEF Below
    <3> QED
      BY <2>2, <2>4, <2>5, <3>1, <3>2
  <2> QED
    BY <2>1, <2>6
<1> QED
  BY <1>1, ChainInvariant, PTL
=============================================================================
