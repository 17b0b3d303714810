--------------------------- MODULE RetrievalChain ---------------------------
(***************************************************************************)
(* One request through the LCEL chain (rag/pipeline.py): retrieval, its    *)
(* results as evidence documents, and the context rendered from them; and  *)
(* the command line (rag/cli.py cmd_query), which renders the returned     *)
(* results a second time when a prompt file is asked for.  Composes        *)
(* Selection and ContextPacking.                                           *)
(***************************************************************************)
EXTENDS Selection, ContextPacking

CONSTANTS
    BlockLength,    \* the length of the evidence block of each chunk
    PromptItems     \* --prompt-items arguments

ASSUME ChainAssumption ==
    /\ BlockLength \in [Items -> Nat \ {0}]
    /\ PromptItems \subseteq Int

VARIABLES
    rendering,      \* "none", then where the request is, see ChainTypeOK
    promptItems,    \* how many results the prompt file may show
    promptPack      \* the blocks of the context that the chain returns

chainVars == <<selectionVars, packingVars, rendering, promptItems, promptPack>>

\* The blocks of the results, in the order of the results.
Evidence == [i \in DOMAIN selected |-> BlockLength[ranked[selected[i]]]]

\* render_prompt_context begins with the first n results.
Render(n) ==
    /\ items' = Prefix(Evidence, n)
    /\ next' = 1 /\ blocks' = <<>> /\ used' = 0

ChainInit ==
    /\ SelectionInit
    /\ items = <<>> /\ maxChars = 0
    /\ next = 1 /\ blocks = <<>> /\ used = 0
    /\ rendering = "none" /\ promptItems = 0 /\ promptPack = <<>>

\* _retrieve
Retrieve ==
    /\ SelectionNext
    /\ UNCHANGED <<packingVars, rendering, promptItems, promptPack>>

\* Mutant: _context takes the default of render_prompt_context, one below top_k.
FormatEvidenceShort ==
    /\ stage = "done" /\ rendering = "none"
    /\ Render(topK - 1) /\ maxChars' \in Budgets
    /\ rendering' = "chain"
    /\ UNCHANGED <<selectionVars, promptItems, promptPack>>

\* _documents and _context: as many items as top_k, and the budget of the
\* request, which nothing has looked at before.
FormatEvidence ==
    /\ stage = "done" /\ rendering = "none"
    /\ Render(topK) /\ maxChars' \in Budgets
    /\ rendering' = "chain"
    /\ UNCHANGED <<selectionVars, promptItems, promptPack>>

PackEvidence ==
    /\ rendering \in {"chain", "file"}
    /\ PackingNext
    /\ UNCHANGED <<selectionVars, rendering, promptItems, promptPack>>

\* retrieve: the chain's context becomes prompt_pack.
ReturnPack ==
    /\ rendering = "chain" /\ next > Len(items)
    /\ promptPack' = blocks
    /\ rendering' = "returned"
    /\ UNCHANGED <<selectionVars, packingVars, promptItems>>

\* Mutant: the second rendering goes on with the characters of the first.
WritePromptUnreset ==
    /\ rendering = "returned"
    /\ \E n \in PromptItems :
         /\ n >= 0 /\ promptItems' = n
         /\ items' = Prefix(Evidence, n)
         /\ next' = 1 /\ blocks' = <<>> /\ UNCHANGED used
         /\ rendering' = "file"
    /\ UNCHANGED <<selectionVars, maxChars, promptPack>>

\* --prompt-out: the returned results are rendered again with --prompt-items.
WritePrompt ==
    /\ rendering = "returned"
    /\ \E n \in PromptItems :
         /\ n >= 0 /\ promptItems' = n
         /\ Render(n)
         /\ rendering' = "file"
    /\ UNCHANGED <<selectionVars, maxChars, promptPack>>

\* A negative --prompt-items is found out only now: exit code 2, no file.
PromptRefused ==
    /\ rendering = "returned"
    /\ \E n \in PromptItems : n < 0
    /\ rendering' = "refused"
    /\ UNCHANGED <<selectionVars, packingVars, promptItems, promptPack>>

ChainNext ==
    \/ Retrieve \/ FormatEvidence \/ PackEvidence \/ ReturnPack
    \/ WritePrompt \/ PromptRefused
ChainSpec == ChainInit /\ [][ChainNext]_chainVars

-----------------------------------------------------------------------------
(* Properties. *)

\* The state of the chain: the selection and the packing it is made of, and how
\* far the answer has been rendered (pipeline.py).
ChainTypeOK ==
    /\ SelectionTypeOK /\ PackingTypeOK
    /\ rendering \in {"none", "chain", "returned", "file", "refused"}
    /\ promptItems \in Nat
    /\ promptPack \in Seq(DOMAIN selected)

\* The best result whose block fits the budget at all opens the context, and
\* every result gets its turn: what the context leaves out of the results, and
\* not only of a part of them, would not fit into what is left of the budget
\* (pipeline.py _context over prompting.py).
ContextOfAllResults ==
    rendering = "returned" =>
      /\ \A i \in DOMAIN selected :
           Evidence[i] <= maxChars /\ (\A j \in 1..(i - 1) : Evidence[j] > maxChars) =>
             promptPack # <<>> /\ promptPack[1] = i
      /\ \A i \in DOMAIN selected \ ToSet(promptPack) :
           used + Separator(promptPack) + Evidence[i] > maxChars

\* "One context renderer shared by library and CLI" (prompting.py): the prompt
\* file shows what prompt_pack shows, cut off at --prompt-items results.
PromptFileAgrees ==
    rendering = "file" /\ next > Len(items) =>
      \E k \in 0..Len(promptPack) :
        /\ blocks = SubSeq(promptPack, 1, k)
        /\ \A i \in DOMAIN promptPack : i <= k <=> promptPack[i] <= promptItems

-----------------------------------------------------------------------------
(* The inductive invariant. *)

\* The length of the first k blocks of the pack P of the evidence E.
PackedLength(E, P, k) == Total([i \in 1..k |-> E[P[i]] + (IF i > 1 THEN 1 ELSE 0)])

\* The first k blocks of P are those before block n.
Below(P, k, n) == \A i \in DOMAIN P : i <= k <=> P[i] < n

\* P is what one pass over the first m blocks of E packs into a budget: a block
\* is in it exactly when it fits behind those packed before it.
Greedy(E, P, m, budget) ==
    /\ \A i, j \in DOMAIN P : i < j => P[i] < P[j]
    /\ \A n \in 1..m : \A k \in 0..Len(P) : Below(P, k, n) =>
         (k < Len(P) /\ P[k + 1] = n
            <=> PackedLength(E, P, k) + E[n] + (IF k = 0 THEN 0 ELSE 1) <= budget)

\* The chain packs all results, and the second rendering retraces the first.
RenderingInv ==
    /\ rendering # "none" => stage = "done"
    /\ rendering \in {"none", "chain"} => promptPack = <<>>
    /\ rendering \in {"chain", "returned", "refused"} =>
         items = Evidence /\ Greedy(Evidence, blocks, next - 1, maxChars)
    /\ rendering \in {"returned", "refused"} => next > Len(items) /\ promptPack = blocks
    /\ rendering = "file" =>
         /\ items = Prefix(Evidence, promptItems)
         /\ Greedy(Evidence, promptPack, Len(Evidence), maxChars)
         /\ \E k \in 0..Len(promptPack) :
              blocks = SubSeq(promptPack, 1, k) /\ Below(promptPack, k, next)

ChainInv == SelectionInv /\ PackingInv /\ ChainTypeOK /\ RenderingInv
=============================================================================
