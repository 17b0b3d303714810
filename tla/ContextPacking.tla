--------------------------- MODULE ContextPacking ---------------------------
(***************************************************************************)
(* The prompt context (rag/prompting.py render_prompt_context): whole      *)
(* evidence blocks, joined by one newline each, within a character budget. *)
(* A block is its length; blocks are never empty, as each begins with its  *)
(* evidence header.                                                        *)
(***************************************************************************)
EXTENDS Naturals, Sequences, SumSort

CONSTANTS
    BlockLists,     \* result lists that may be given, as sequences of lengths
    MaxItemCounts,  \* max_items arguments
    Budgets         \* max_chars arguments

ASSUME PackingAssumption ==
    /\ \A s \in BlockLists : s \in Seq(Nat \ {0})
    /\ MaxItemCounts \subseteq Nat
    /\ Budgets \subseteq Nat

VARIABLES
    items,      \* lengths of the blocks of result['results'][:max_items]
    maxChars,
    next,       \* the item the loop looks at
    blocks,     \* positions of the packed items
    used        \* the characters they take

packingVars == <<items, maxChars, next, blocks, used>>

Prefix(s, n) == SubSeq(s, 1, IF n <= Len(s) THEN n ELSE Len(s))
Separator(s) == IF s = <<>> THEN 0 ELSE 1

PackingInit ==
    /\ \E s \in BlockLists, n \in MaxItemCounts : items = Prefix(s, n)
    /\ maxChars \in Budgets
    /\ next = 1
    /\ blocks = <<>>
    /\ used = 0

\* Mutant: the joining newline is not counted.
FitsUnjoined(n) == used + items[n] <= maxChars

Fits(n) == used + items[n] + Separator(blocks) <= maxChars

PackBlock ==
    /\ next <= Len(items)
    /\ Fits(next)
    /\ blocks' = Append(blocks, next)
    /\ used' = used + items[next] + (IF Len(blocks') > 1 THEN 1 ELSE 0)
    /\ next' = next + 1
    /\ UNCHANGED <<items, maxChars>>

\* Mutant: break instead of continue.
SkipBlockBreaking ==
    /\ next <= Len(items)
    /\ ~Fits(next)
    /\ next' = Len(items) + 1
    /\ UNCHANGED <<items, maxChars, blocks, used>>

SkipBlock ==
    /\ next <= Len(items)
    /\ ~Fits(next)
    /\ next' = next + 1
    /\ UNCHANGED <<items, maxChars, blocks, used>>

PackingNext == PackBlock \/ SkipBlock
PackingSpec == PackingInit /\ [][PackingNext]_packingVars

-----------------------------------------------------------------------------
(* Properties. *)

PackingTypeOK ==
    /\ items \in Seq(Nat \ {0})
    /\ maxChars \in Nat
    /\ next \in Nat \ {0}
    /\ blocks \in Seq(1..Len(items))
    /\ used \in Nat

\* The length of '\n'.join of the packed blocks.
Joined == [i \in DOMAIN blocks |-> items[blocks[i]] + (IF i > 1 THEN 1 ELSE 0)]
JoinedLength == Total(Joined)

\* The text that is returned fits the budget, separators included: used is its
\* exact length (README, "full evidence blocks ..., up to --max-context-chars").
WithinBudget == used = JoinedLength /\ used <= maxChars

Packed == {blocks[i] : i \in DOMAIN blocks}

\* Evidence keeps the order of the results, and an item that was passed over
\* would not fit into what is left even at the end: skipping one block never
\* costs a later one that fits (README, "a block that cannot fit is skipped").
NothingFits ==
    /\ \A i, j \in DOMAIN blocks : i < j => blocks[i] < blocks[j]
    /\ \A n \in 1..(next - 1) : n \in Packed \/ ~Fits(n)

\* The inductive invariant behind both.
PackingInv ==
    /\ PackingTypeOK
    /\ next <= Len(items) + 1
    /\ \A i \in DOMAIN blocks : blocks[i] < next
    /\ WithinBudget /\ NothingFits
=============================================================================
