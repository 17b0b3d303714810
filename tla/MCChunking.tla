----------------------------- MODULE MCChunking -----------------------------
(* TLC instance of Chunking: every source of up to five lines. *)
EXTENDS Chunking

Plain == [blank |-> FALSE, heading |-> FALSE, fence |-> NoFence, bare |-> FALSE, chars |-> 1,
          text |-> <<"word">>]
MCDocLines == {
    Plain, [Plain EXCEPT !.blank = TRUE], [Plain EXCEPT !.heading = TRUE],
    [Plain EXCEPT !.fence = <<"tick", 3>>, !.bare = TRUE], [Plain EXCEPT !.fence = <<"tick", 3>>],
    [Plain EXCEPT !.fence = <<"tick", 4>>, !.bare = TRUE],
    [Plain EXCEPT !.fence = <<"tilde", 3>>, !.bare = TRUE]}
MCDocuments == UNION {[1..n -> MCDocLines] : n \in 0..5}

Other == [blank |-> FALSE, decl |-> FALSE, prefix |-> FALSE, joined |-> FALSE,
          text |-> <<"word">>]
MCAlignedLines == {
    Other, [Other EXCEPT !.blank = TRUE], [Other EXCEPT !.decl = TRUE],
    [Other EXCEPT !.prefix = TRUE], [Other EXCEPT !.prefix = TRUE, !.decl = TRUE]}
MCCodeLines == MCAlignedLines \cup {[Other EXCEPT !.joined = TRUE]}
MCPrograms == UNION {[1..n -> MCCodeLines] : n \in 0..5}
MCAlignedPrograms == UNION {[1..n -> MCAlignedLines] : n \in 0..4}
=============================================================================
