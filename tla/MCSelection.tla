----------------------------- MODULE MCSelection ----------------------------
(* TLC instance of Selection. *)
EXTENDS Selection

Chunk(d, a, b, x, g, r) ==
    [doc |-> d, first |-> a, last |-> b, text |-> x, group |-> g, repo |-> r]
\* Three chunks of one repository, one of another, two overlapping tutorial
\* regions, and a PDF page whose text repeats a tutorial's.
L1 == Chunk("lib.rs", 1, 9, "x1", "project", "r1")
L2 == Chunk("lib.rs", 10, 20, "x2", "project", "r1")
L3 == Chunk("aux.rs", 1, 5, "x3", "project", "r1")
M == Chunk("main.rs", 1, 5, "x4", "project", "r2")
T1 == Chunk("guide.md", 1, 10, "x5", "tutorial", "r0")
T2 == Chunk("guide.md", 2, 10, "x6", "tutorial", "r0")
P == Chunk("paper.pdf", 1, 1, "x5", "pdf", "r0")
MCItems == {L1, L2, L3, M, T1, T2, P}
MCDocs == {"lib.rs", "aux.rs", "main.rs", "guide.md", "paper.pdf"}
MCTexts == {"x1", "x2", "x3", "x4", "x5", "x6"}
MCSimilar == {<<x, x>> : x \in MCTexts}
MCRepos == {"r0", "r1", "r2"}

Rankings(items, n) == {s \in UNION {[1..k -> items] : k \in 0..n} :
                         \A i, j \in DOMAIN s : s[i] = s[j] => i = j}
Query(l, p, s, b, w, o) ==
    [lexical |-> l, positive |-> p, semantic |-> s, backend |-> b, weight |-> w, option |-> o]
\* Lexical rankings alone: of any three chunks, and of four where a repository
\* or a document has most of them.
LexicalQueries == {Query(l, 4, <<>>, "projection", 20, {}) :
    l \in Rankings(MCItems, 3) \cup Rankings({L1, L2, L3, M, T1}, 4)
           \cup Rankings({L1, M, T1, T2, P}, 4)}
\* Two channels that disagree, with each channel on or off, two equal weights
\* so that fused scores tie, and with negative lexical scores.
Weightings == {<<"projection", {}>>, <<"sentence-transformer", {}>>,
               <<"projection", {0}>>, <<"projection", {20}>>}
FusedQueries == {Query(l, p, s, v[1], w, v[2]) :
    l \in Rankings({L1, T1, P}, 2), p \in {1, 2}, s \in Rankings({L1, T1, L3}, 2) \ {<<>>},
    v \in Weightings, w \in {0, 20}}
MCQueries == LexicalQueries \cup FusedQueries
MCMinima == [project: 0..2, tutorial: 0..1, pdf: 0..1]
MCOneMinimum == {m \in [Groups -> 0..3] : m["tutorial"] = 0 /\ m["pdf"] = 0}
=============================================================================
