--------------------------- MODULE MCQueryService ---------------------------
(* TLC instance of QueryService. *)
EXTENDS QueryService, TLC

\* The default call.
MCDefault == {[backend |-> "auto", text |-> TRUE, agrees |-> TRUE]}
\* Every backend with arguments that agree with the index; arguments that do
\* not, and nothing to embed, with one each.
MCRequests == {[backend |-> b, text |-> TRUE, agrees |-> TRUE] : b \in Requested}
              \cup {[backend |-> "projection", text |-> TRUE, agrees |-> FALSE],
                    [backend |-> "auto", text |-> FALSE, agrees |-> TRUE]}

\* Builds with vectors; among them, if chunk lists are named after generations,
\* those with a list of their own; builds of every backend, degraded if it is
\* the projection.
MCVectorBuilds == [generation: Generations, content: Contents \ {Empty},
                   backend: {"projection"}, degraded: {FALSE}]
MCOwnBuilds == {m \in MCVectorBuilds : m.content = m.generation}
MCEveryBackend == {m \in Metadata : WellFormed(m) /\ (m.backend = "projection" => m.degraded)}

\* Chunk lists of equal length: only their origin tells them apart.
MCChunkCount == [c \in Contents |-> IF c = Empty THEN 0 ELSE 1]

QuerySymmetry == Permutations(Threads) \cup Permutations(Generations)
=============================================================================
