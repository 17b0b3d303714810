------------------------------- MODULE Fusion -------------------------------
(***************************************************************************)
(* Reciprocal rank fusion (rag/retriever.py _rrf_fuse and the sort that    *)
(* follows it in _retrieve_index).  The two channels are given as          *)
(* rankings: of the chunks with a positive BM25 score by lexical score,    *)
(* and of the candidates with a positive similarity.  Weights are in       *)
(* twentieths and fused scores are exact fractions.                        *)
(***************************************************************************)
EXTENDS Integers, Sequences, SequencesExt, SumSort

CONSTANTS
    RrfK,       \* RRF_K
    Scale       \* scores are rounded to multiples of 1/Scale (10^6 in the code)

\* What one query hands to the fusion: the lexical ranking and how many of its
\* chunks have a lexical score above zero (the boost may be negative), the
\* semantic ranking and the backend it came from, the weight of the lexical
\* channel, and that of the semantic one if it was given.
Channels(items) ==
    [lexical: Seq(items), positive: Nat, semantic: Seq(items),
     backend: {"projection", "sentence-transformer"},
     weight: Nat, option: SUBSET Nat]

\* 0.25 for the projection, 0.9 for a learned model, nothing without candidates.
SemanticWeight(c) ==
    IF c.semantic = <<>> THEN 0
    ELSE IF c.option # {} THEN CHOOSE w \in c.option : TRUE
    ELSE IF c.backend = "projection" THEN 5 ELSE 18

\* A channel of weight zero is switched off.
Active(ranking, w) == IF w > 0 THEN ranking ELSE <<>>
Lexical(c) == Active(c.lexical, c.weight)
Semantic(c) == Active(c.semantic, SemanticWeight(c))
Position(s, x) == CHOOSE r \in DOMAIN s : s[r] = x

\* Mutant: only the chunks that BM25 has found are scored.
CandidatesLexical(c) == Lexical(c)

\* The keys of the fused dictionary in the order in which they are inserted.
Candidates(c) ==
    LET new == Semantic(c)
        keys[n \in 0..Len(new)] ==
          IF n = 0 THEN Lexical(c)
          ELSE IF Contains(Lexical(c), new[n]) THEN keys[n - 1] ELSE Append(keys[n - 1], new[n])
    IN  keys[Len(new)]

\* weight / (RRF_K + rank) as a fraction, zero for a chunk not in the channel.
Share(s, w, x) == IF Contains(s, x) THEN <<w, RrfK + Position(s, x)>> ELSE <<0, 1>>

\* The sum of both shares.
FusedScore(c, x) ==
    LET l == Share(Lexical(c), c.weight, x)
        s == Share(Semantic(c), SemanticWeight(c), x)
    IN  <<l[1] * s[2] + s[1] * l[2], l[2] * s[2]>>

Exceeds(f, g) == f[1] * g[2] > g[1] * f[2]

\* The lexical score breaks ties; a chunk without one counts as zero.
LexicalScore(c, x) ==
    IF ~Contains(c.lexical, x) THEN 0
    ELSE LET r == Position(c.lexical, x)
         IN  IF r <= c.positive THEN Len(c.lexical) + 1 - r ELSE 0 - r

\* ranked_indices: a stable sort, descending, by fused and then lexical score.
Ahead(c, s, i, j) ==
    \/ Exceeds(FusedScore(c, s[i]), FusedScore(c, s[j]))
    \/ /\ ~Exceeds(FusedScore(c, s[j]), FusedScore(c, s[i]))
       /\ \/ LexicalScore(c, s[i]) > LexicalScore(c, s[j])
          \/ LexicalScore(c, s[i]) = LexicalScore(c, s[j]) /\ i < j
FusedRanking(c) ==
    LET s == Candidates(c)
        order == Sorted(Len(s), {p \in (DOMAIN s) \X (DOMAIN s) : Ahead(c, s, p[1], p[2])})
    IN  [k \in DOMAIN s |-> s[order[k]]]

\* round(rrf, 6), in multiples of 1/Scale.
RoundedScore(c, x) ==
    LET f == FusedScore(c, x) IN (Scale * f[1] + 10 * f[2]) \div (20 * f[2])
=============================================================================
