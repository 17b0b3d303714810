---------------------------- MODULE IndexFormat -----------------------------
(***************************************************************************)
(* What the builder and the readers of an index agree on: the metadata     *)
(* dictionary that build_index assembles (rag/index_builder.py) and that   *)
(* resolve_snapshot hands to a reader (rag/storage.py).  A dictionary is   *)
(* reduced to the fields that control what a reader does.                  *)
(***************************************************************************)
EXTENDS Naturals, FiniteSets

CONSTANTS
    Generations,    \* the uuid4 names a behaviour may draw; bounds its builds
    Contents,       \* chunk lists that a scan of the corpus may yield
    Empty,          \* the chunk list of a corpus without chunks
    Absent,         \* "no such file", "no manifest", "no work"
    Unsupported     \* a root manifest of a schema this code does not know

Requested == {"none", "projection", "sentence-transformer", "auto"}
Stored == {"none", "projection", "sentence-transformer"}

Metadata == [generation: Generations, content: Contents,
             backend: Stored, degraded: BOOLEAN]
Manifests == Metadata \cup {Absent, Unsupported}

\* What SemanticScorer settles on, and whether it records a degraded_reason:
\* "auto" falls back to the projection when the local model cannot be loaded,
\* an explicit choice does not.
ScorerOutcomes(r) ==
    IF r = "auto" THEN {[backend |-> "sentence-transformer", degraded |-> FALSE],
                        [backend |-> "projection", degraded |-> TRUE]}
    ELSE {[backend |-> r, degraded |-> FALSE]}

\* The embedding sections a build can end with: no vectors for a lexical-only
\* build or an empty corpus, otherwise what the scorer settled on.
WellFormed(m) ==
    \/ m.backend = "none" /\ ~m.degraded
    \/ /\ m.content # Empty
       /\ \E r \in Requested \ {"none"} : \E s \in ScorerOutcomes(r) :
            m.backend = s.backend /\ m.degraded = s.degraded

ASSUME FormatAssumption ==
    /\ Empty \in Contents
    /\ Unsupported # Absent
    /\ {Absent, Unsupported} \cap Metadata = {}
=============================================================================
