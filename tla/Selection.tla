------------------------------ MODULE Selection -----------------------------
(***************************************************************************)
(* From the two rankings of a query to its final results (the second half  *)
(* of _retrieve_index, rag/retriever.py): the fused ranking, then the      *)
(* choice of _pick_diversified and the final sort.  First the minimum of   *)
(* each source group is taken, then the best of the rest, never two near   *)
(* duplicates, and at most MaxPerRepo chunks of one project repository.    *)
(***************************************************************************)
EXTENDS Fusion, FiniteSets

CONSTANTS
    Items,          \* retrieved chunks, see ItemType
    Docs, Texts, Repos,
    Similar,        \* pairs of texts whose Jaccard similarity exceeds 0.95
    Queries,        \* what the two channels may yield, see Channels
    Minima,         \* group_minimum arguments, functions from Groups to Nat
    TopKs,          \* top_k arguments
    MaxPerRepo      \* the per-repository limit

Groups == {"project", "tutorial", "pdf"}
\* A chunk: its (path, page), its lines, its text, its group and the repository
\* that _extract_repo_name finds in its path.
ItemType == [doc: Docs, first: Nat, last: Nat, text: Texts, group: Groups, repo: Repos]

ASSUME SelectionAssumption ==
    /\ Items \subseteq ItemType
    /\ \A a \in Items : a.first <= a.last
    /\ \A p \in Similar : <<p[2], p[1]>> \in Similar
    /\ Queries \subseteq Channels(Items)
    /\ \A c \in Queries : IsInjective(c.lexical) /\ IsInjective(c.semantic)
    /\ Minima \subseteq [Groups -> Nat]
    /\ TopKs \subseteq Nat \ {0}
    /\ MaxPerRepo \in Nat /\ RrfK \in Nat \ {0} /\ Scale \in Nat

VARIABLES
    query, minimum, topK,   \* what is given
    ranked,                 \* the fused ranking
    stage, pos,             \* the loop and the candidate it looks at
    selected,               \* positions in ranked, in the order of selection
    groupSelected, repoSelected

selectionVars == <<query, minimum, topK, ranked, stage, pos, selected, groupSelected, repoSelected>>
arguments == <<query, minimum, topK, ranked>>

Smaller(a, b) == IF a <= b THEN a ELSE b
Larger(a, b) == IF a >= b THEN a ELSE b
Length(a) == a.last - a.first + 1
\* Lines that two chunks share.
Overlap(a, b) ==
    IF Larger(a.first, b.first) <= Smaller(a.last, b.last)
    THEN Smaller(a.last, b.last) - Larger(a.first, b.first) + 1 ELSE 0

\* overlap / shorter > 0.8, in integers.
NearDup(a, b) ==
    \/ a = b
    \/ a.doc = b.doc /\ 10 * Overlap(a, b) > 8 * Smaller(Length(a), Length(b))
    \/ <<a.text, b.text>> \in Similar

Rounded(i) == RoundedScore(query, ranked[i])
Chosen == {selected[i] : i \in DOMAIN selected}
CanAdd(i) ==
    /\ \A j \in Chosen : ~NearDup(ranked[j], ranked[i])
    /\ ranked[i].group = "project" => repoSelected[ranked[i].repo] < MaxPerRepo

\* Mutant: an index that counts from one is used from zero.
RecordNext(i) ==
    /\ selected' = Append(selected, i + 1)
    /\ groupSelected' = [groupSelected EXCEPT ![ranked[i].group] = @ + 1]
    /\ UNCHANGED repoSelected

Record(i) ==
    /\ selected' = Append(selected, i)
    /\ groupSelected' = [groupSelected EXCEPT ![ranked[i].group] = @ + 1]
    /\ repoSelected' = IF ranked[i].group = "project"
                       THEN [repoSelected EXCEPT ![ranked[i].repo] = @ + 1]
                       ELSE repoSelected
Skip == UNCHANGED <<selected, groupSelected, repoSelected>>

SelectionInit ==
    /\ query \in Queries /\ ranked = FusedRanking(query)
    /\ minimum \in Minima /\ topK \in TopKs
    /\ stage = "project" /\ pos = 1
    /\ selected = <<>>
    /\ groupSelected = [g \in Groups |-> 0]
    /\ repoSelected = [r \in Repos |-> 0]

NextStage == [project |-> "tutorial", tutorial |-> "pdf", pdf |-> "fill", fill |-> "sort"]
Exhausted == pos > Len(ranked) \/ Len(selected) >= topK

\* Mutant: the loop does not break when the minimum is reached.
TakeMinimumNoBreak ==
    /\ stage \in Groups
    /\ ~Exhausted /\ minimum[stage] > 0
    /\ IF ranked[pos].group = stage /\ CanAdd(pos) THEN Record(pos) ELSE Skip
    /\ pos' = pos + 1
    /\ UNCHANGED <<arguments, stage>>

\* Phase 1, one candidate of the group's own list.
TakeMinimum ==
    /\ stage \in Groups
    /\ ~Exhausted /\ groupSelected[stage] < minimum[stage]
    /\ IF ranked[pos].group = stage /\ CanAdd(pos) THEN Record(pos) ELSE Skip
    /\ pos' = pos + 1
    /\ UNCHANGED <<arguments, stage>>

\* Mutant: the next loop goes on where this one stopped.
EndGroupInPlace ==
    /\ stage \in Groups
    /\ Exhausted \/ groupSelected[stage] >= minimum[stage]
    /\ stage' = NextStage[stage]
    /\ UNCHANGED <<arguments, pos, selected, groupSelected, repoSelected>>

\* The group's minimum is reached, or cannot be.
EndGroup ==
    /\ stage \in Groups
    /\ Exhausted \/ groupSelected[stage] >= minimum[stage]
    /\ stage' = NextStage[stage]
    /\ pos' = 1
    /\ UNCHANGED <<arguments, selected, groupSelected, repoSelected>>

\* Phase 2, one candidate of the whole ranking.
Fill ==
    /\ stage = "fill"
    /\ ~Exhausted
    /\ IF CanAdd(pos) THEN Record(pos) ELSE Skip
    /\ pos' = pos + 1
    /\ UNCHANGED <<arguments, stage>>

EndFill ==
    /\ stage = "fill"
    /\ Exhausted
    /\ stage' = NextStage[stage]
    /\ UNCHANGED <<arguments, pos, selected, groupSelected, repoSelected>>

\* Mutant: reversing an ascending sort reverses equal scores too.
ByScoreReversed(s) ==
    LET order == Sorted(Len(s), {p \in (DOMAIN s) \X (DOMAIN s) :
                                   \/ Rounded(s[p[1]]) > Rounded(s[p[2]])
                                   \/ Rounded(s[p[1]]) = Rounded(s[p[2]]) /\ p[1] > p[2]})
    IN  [k \in DOMAIN s |-> s[order[k]]]

\* A stable sort by descending rounded score.
ByScore(s) ==
    LET order == Sorted(Len(s), {p \in (DOMAIN s) \X (DOMAIN s) :
                                   \/ Rounded(s[p[1]]) > Rounded(s[p[2]])
                                   \/ Rounded(s[p[1]]) = Rounded(s[p[2]]) /\ p[1] < p[2]})
    IN  [k \in DOMAIN s |-> s[order[k]]]

SortResults ==
    /\ stage = "sort"
    /\ selected' = ByScore(selected)
    /\ stage' = "done"
    /\ UNCHANGED <<arguments, pos, groupSelected, repoSelected>>

SelectionNext == TakeMinimum \/ EndGroup \/ Fill \/ EndFill \/ SortResults
SelectionSpec == SelectionInit /\ [][SelectionNext]_selectionVars

-----------------------------------------------------------------------------
(* Properties. *)

SelectionTypeOK ==
    /\ query \in Channels(Items) /\ ranked \in Seq(Items)
    /\ minimum \in [Groups -> Nat] /\ topK \in Nat
    /\ stage \in Groups \cup {"fill", "sort", "done"}
    /\ pos \in 1..(Len(ranked) + 1)
    /\ selected \in Seq(DOMAIN ranked)
    /\ groupSelected \in [Groups -> Nat]
    /\ repoSelected \in [Repos -> Nat]

\* No channel prefers b to a, and a is in one of them.
Dominates(a, b) ==
    /\ a # b
    /\ \E s \in {Lexical(query), Semantic(query)} : Contains(s, a)
    /\ \A s \in {Lexical(query), Semantic(query)} :
         Contains(s, b) => Contains(s, a) /\ Position(s, a) < Position(s, b)

\* "Independent corpus-wide retrieval, including lexical misses" (retriever.py):
\* the fused ranking holds every chunk of every active channel once, and a
\* chunk that no channel ranks below another one comes before it.
FusionFair ==
    stage = "done" =>
    /\ ToSet(ranked) = ToSet(Lexical(query)) \cup ToSet(Semantic(query))
    /\ IsInjective(ranked)
    /\ \A i, j \in DOMAIN ranked : Dominates(ranked[i], ranked[j]) => i < j

\* A channel of weight zero is switched off: the other one's ranking comes out
\* as it is, whatever the first one found, its tie-breaking scores included.
SilentChannel ==
    stage = "done" =>
    /\ query.weight = 0 => ranked = Semantic(query)
    /\ SemanticWeight(query) = 0 => ranked = Lexical(query)

\* The fusion is fair to both channels and deaf to one that is switched off
\* (_rrf_fuse and the sort of its keys).
FusionSound == FusionFair /\ SilentChannel

ChosenOf(g) == {i \in Chosen : ranked[i].group = g}
FromRepo(r) == {i \in ChosenOf("project") : ranked[i].repo = r}

\* What is selected at any moment may be returned: no chunk twice, no two near
\* duplicates, no more than top_k, and no repository beyond its limit (README,
\* "remove overlapping/near-duplicate evidence and limit project-repo
\* concentration").
Diversified ==
    /\ Len(selected) <= topK /\ Cardinality(Chosen) = Len(selected)
    /\ \A i, j \in Chosen : i # j => ~NearDup(ranked[i], ranked[j])
    /\ \A r \in Repos : Cardinality(FromRepo(r)) <= MaxPerRepo

Blocked(i) ==
    \/ \E j \in Chosen : NearDup(ranked[j], ranked[i])
    \/ ranked[i].group = "project" /\ Cardinality(FromRepo(ranked[i].repo)) >= MaxPerRepo

\* Fewer than top_k results are returned only when every other candidate is a
\* near duplicate of a result or of a repository at its limit: a candidate
\* passed over in an early loop is not forgotten.
Maximal ==
    stage = "done" /\ Len(selected) < topK =>
      \A i \in DOMAIN ranked \ Chosen : Blocked(i)

\* The result is within the limits and no candidate could be added to it; a
\* different choice might still be larger (_pick_diversified is greedy).
SelectionSound == Diversified /\ Maximal

\* As long as a group is short of its minimum and has a candidate that could
\* still be added, no slot goes to a chunk that no minimum asked for.
MinimaFirst ==
    stage = "done" =>
      \A g \in Groups :
        Cardinality(ChosenOf(g)) < minimum[g]
        /\ (\E i \in DOMAIN ranked \ Chosen : ranked[i].group = g /\ ~Blocked(i)) =>
             \A h \in Groups : Cardinality(ChosenOf(h)) <= minimum[h]

\* Results come in order of the score that is displayed, and, when no minimum
\* was asked for, exactly in the order of the fused ranking although equal
\* rounded scores hide it (README, "score is the RRF score actually used for
\* final ranking").
ResultsInOrder ==
    stage = "done" =>
      \A i, j \in DOMAIN selected : i < j =>
        /\ Rounded(selected[i]) >= Rounded(selected[j])
        /\ (\A g \in Groups : minimum[g] = 0) => selected[i] < selected[j]

\* --min-project and its siblings are, in their help text (cli.py), the least
\* number of results of that group: met whenever the minima fit into top_k and
\* the ranking has that many candidates no two of which are near duplicates.
MinimumHonoured ==
    stage = "done" /\ minimum["project"] + minimum["tutorial"] + minimum["pdf"] <= topK =>
      \A g \in Groups :
        (\E c \in SUBSET {i \in DOMAIN ranked : ranked[i].group = g} :
           /\ Cardinality(c) = minimum[g]
           /\ \A i, j \in c : i # j => ~NearDup(ranked[i], ranked[j]))
        => Cardinality(ChosenOf(g)) >= minimum[g]

-----------------------------------------------------------------------------
(* The inductive invariant. *)

\* The ranking is the one of the query, as it was given.
RankingInv ==
    /\ query \in Queries
    /\ ranked = FusedRanking(query)

\* The counters of _pick_diversified count what has been chosen, each position once.
CountsInv ==
    /\ IsInjective(selected)
    /\ \A g \in Groups : groupSelected[g] = Cardinality(ChosenOf(g))
    /\ \A r \in Repos : repoSelected[r] = Cardinality(FromRepo(r))

\* A candidate that need not be looked at again.
Settled(i) == i \in Chosen \/ Blocked(i)

\* Groups whose loop has ended.
Ended ==
    {g \in Groups : stage \notin Groups \/ NextStage[g] = stage \/ (g = "project" /\ stage = "pdf")}

\* Why the loop of a group has ended: its minimum was reached, its candidates
\* ran out, or the slots did while every group was within its minimum.
MinimumSettled(g) ==
    \/ groupSelected[g] >= minimum[g]
    \/ \A i \in DOMAIN ranked : ranked[i].group = g => Settled(i)
    \/ Len(selected) >= topK /\ \A h \in Groups : groupSelected[h] <= minimum[h]

\* What the loops have done so far.
LoopsInv ==
    /\ stage \in Groups =>
         /\ \A h \in Groups : groupSelected[h] <= minimum[h]
         /\ \A i \in 1..(pos - 1) : ranked[i].group = stage => Settled(i)
    /\ \A g \in Ended : MinimumSettled(g)
    /\ stage = "fill" => \A i \in 1..(pos - 1) : Settled(i)
    /\ stage \in {"sort", "done"} => Len(selected) >= topK \/ \A i \in DOMAIN ranked : Settled(i)

\* Without minima the selection follows the ranking.
OrderInv ==
    (\A g \in Groups : minimum[g] = 0) =>
      /\ stage \in Groups => selected = <<>>
      /\ stage = "fill" => \A i \in DOMAIN selected : selected[i] < pos
      /\ \A i, j \in DOMAIN selected : i < j => selected[i] < selected[j]

\* The sort orders by the rounded score.
SortedInv ==
    stage = "done" => \A i, j \in DOMAIN selected : i < j => Rounded(selected[i]) >= Rounded(selected[j])

SelectionInv ==
    /\ SelectionTypeOK /\ RankingInv /\ Diversified /\ CountsInv
    /\ LoopsInv /\ OrderInv /\ SortedInv
=============================================================================
