------------------------------ MODULE Chunking ------------------------------
(***************************************************************************)
(* How a source is cut into chunks of whole lines (rag/chunking.py):       *)
(* document_chunks for Markdown, text and PDF pages, code_chunks for Rust. *)
(* A line is reduced to what the two functions look at.  mask_non_code is  *)
(* represented by its effect on lines: a declaration in a comment or a     *)
(* string is none, and a line separator other than newline inside one is   *)
(* blanked, which joins two lines of the masked text.                      *)
(***************************************************************************)
EXTENDS Naturals, Sequences, FiniteSets, SequencesExt, SumSort

CONSTANTS
    Documents,      \* Markdown sources, sequences of DocLine
    Programs,       \* Rust sources, sequences of CodeLine
    TargetChars,    \* target_chars
    FallbackLines   \* fallback_lines

NoFence == <<"", 0>>
\* What a line says, as far as anything after the chunking looks at it.
Words == Seq(STRING)
\* A fence marker is its character and its width; bare if nothing follows it.
\* A heading begins with a number sign, so it is not blank.
DocLine == {line \in [blank: BOOLEAN, heading: BOOLEAN, fence: {"", "tick", "tilde"} \X Nat,
                      bare: BOOLEAN, chars: Nat \ {0}, text: Words] :
              line.heading => ~line.blank}
\* Declares a function outside comments and strings; begins with a doc comment
\* or an attribute; ends in a separator that masking removes.
CodeLine == [blank: BOOLEAN, decl: BOOLEAN, prefix: BOOLEAN, joined: BOOLEAN, text: Words]

ASSUME ChunkingAssumption ==
    /\ \A d \in Documents : d \in Seq(DocLine)
    /\ \A p \in Programs : p \in Seq(CodeLine)
    /\ TargetChars \in Nat /\ FallbackLines \in Nat \ {0}

VARIABLES
    lines, kind,    \* the source, and which of the two functions was called
    stage,          \* the loop, "done" when the function has returned
    i,              \* the line or the declaration it looks at
    start, size,    \* first line and length of the block being collected
    fence,          \* the fence that is open
    starts,         \* where the function regions begin
    chunks          \* first and last line of each chunk

chunkingVars == <<lines, kind, stage, i, start, size, fence, starts, chunks>>

\* Mutant: lines counted from zero.
EmitZeroBased(cs, a, b) == Append(cs, <<a - 1, b>>)

\* A block of blank lines only is no chunk.
Emit(cs, a, b) == IF \A k \in a..b : lines[k].blank THEN cs ELSE Append(cs, <<a, b>>)

ChunkingInit ==
    /\ \/ lines \in Documents /\ kind = "document"
       \/ lines \in Programs /\ kind = "code"
    /\ stage = kind
    /\ i = 1 /\ start = 1 /\ size = 0
    /\ fence = NoFence
    /\ starts = <<>> /\ chunks = <<>>

\* The locals of a call that is at stage s; a call begins at its own kind.
Chunker(source, k, s) ==
    /\ lines' = source /\ kind' = k /\ stage' = s
    /\ i' = 1 /\ start' = 1 /\ size' = 0 /\ fence' = NoFence
    /\ starts' = <<>> /\ chunks' = <<>>
StartChunker(source, k) == Chunker(source, k, k)

-----------------------------------------------------------------------------
(* document_chunks *)

\* Mutants: headings are recognised inside fences; the target must be exceeded.
CutHereUnfenced(line) ==
    i > start /\ (line.heading \/ (fence = NoFence /\ size >= TargetChars /\ line.blank))
CutHereLate(line) ==
    i > start /\ fence = NoFence /\ (line.heading \/ (size > TargetChars + 1 /\ line.blank))

CutHere(line) ==
    i > start /\ fence = NoFence /\ (line.heading \/ (size >= TargetChars /\ line.blank))

\* The fence that is open after a line, given the one open before it.
FenceAfter(open, line) ==
    IF line.fence = NoFence THEN open
    ELSE IF open = NoFence THEN line.fence
    ELSE IF line.fence[1] = open[1] /\ line.fence[2] >= open[2] /\ line.bare THEN NoFence
    ELSE open

ReadLine ==
    /\ stage = "document" /\ i <= Len(lines)
    /\ IF CutHere(lines[i])
       THEN /\ chunks' = Emit(chunks, start, i - 1)
            /\ start' = i /\ size' = lines[i].chars
       ELSE size' = size + lines[i].chars /\ UNCHANGED <<chunks, start>>
    /\ fence' = FenceAfter(fence, lines[i])
    /\ i' = i + 1
    /\ UNCHANGED <<lines, kind, stage, starts>>

LastBlock ==
    /\ stage = "document" /\ i > Len(lines)
    /\ chunks' = Emit(chunks, start, Len(lines))
    /\ stage' = "done"
    /\ UNCHANGED <<lines, kind, i, start, size, fence, starts>>

-----------------------------------------------------------------------------
(* code_chunks *)

\* The number of the masked line that line k is part of.
MaskedLine(k) == k - Cardinality({j \in 1..(k - 1) : lines[j].joined})

\* A masked line number is then used as if it were a line number.
FindDeclarations ==
    /\ stage = "code"
    /\ starts' = Ascending({MaskedLine(k) : k \in {j \in DOMAIN lines : lines[j].decl}})
    /\ stage' = IF starts' = <<>> THEN "fallback" ELSE "prefixes"
    /\ UNCHANGED <<lines, kind, i, start, size, fence, chunks>>

\* No declaration: regions of FallbackLines lines.
FallbackRegion ==
    /\ stage = "fallback"
    /\ IF start <= Len(lines)
       THEN LET last == IF start + FallbackLines - 1 <= Len(lines)
                        THEN start + FallbackLines - 1 ELSE Len(lines)
            IN  /\ chunks' = Emit(chunks, start, last)
                /\ start' = start + FallbackLines /\ UNCHANGED stage
       ELSE stage' = "done" /\ UNCHANGED <<chunks, start>>
    /\ UNCHANGED <<lines, kind, i, size, fence, starts>>

\* Mutant: every line up to the previous declaration is taken for an attribute.
RegionStartGreedy(n) == IF n = 1 THEN 1 ELSE starts[n - 1] + 1

\* The topmost of the doc comments and attributes right above a declaration.
\* The search stops below the start of the previous region, as already moved.
RegionStart(n) ==
    LET lower == IF n = 1 THEN 1 ELSE starts[n - 1] + 1
    IN  CHOOSE s \in lower..starts[n] :
          /\ \A k \in s..(starts[n] - 1) : lines[k].prefix
          /\ s > lower => ~lines[s - 1].prefix

IncludePrefixes ==
    /\ stage = "prefixes" /\ i <= Len(starts)
    /\ starts' = [starts EXCEPT ![i] = RegionStart(i)]
    /\ i' = i + 1
    /\ UNCHANGED <<lines, kind, stage, start, size, fence, chunks>>

Boundaries == {1} \cup ToSet(starts) \cup {Len(lines) + 1}

\* One region after the other.
EmitRegion ==
    /\ stage = "prefixes" /\ i > Len(starts)
    /\ LET later == {b \in Boundaries : b > start}
       IN  IF later = {} THEN stage' = "done" /\ UNCHANGED <<chunks, start>>
           ELSE /\ chunks' = IF start \in Boundaries THEN Emit(chunks, start, Min(later) - 1)
                             ELSE chunks
                /\ start' = Min(later) /\ UNCHANGED stage
    /\ UNCHANGED <<lines, kind, i, size, fence, starts>>

ChunkingNext ==
    \/ ReadLine \/ LastBlock
    \/ FindDeclarations \/ FallbackRegion \/ IncludePrefixes \/ EmitRegion
ChunkingSpec == ChunkingInit /\ [][ChunkingNext]_chunkingVars

-----------------------------------------------------------------------------
(* Properties. *)

ChunkingTypeOK ==
    /\ kind \in {"document", "code"}
    /\ lines \in Seq(IF kind = "document" THEN DocLine ELSE CodeLine)
    /\ stage \in {"document", "code", "fallback", "prefixes", "done"}
    /\ i \in Nat /\ start \in Nat /\ size \in Nat
    /\ fence \in {"", "tick", "tilde"} \X Nat
    /\ starts \in Seq(1..Len(lines))
    /\ chunks \in Seq((1..Len(lines)) \X (1..Len(lines)))

Document == stage = "done" /\ kind = "document"
Program == stage = "done" /\ kind = "code"
Within(k, c) == c[1] <= k /\ k <= c[2]

\* "Unrecognized regions remain searchable instead of being silently discarded"
\* (chunking.py): chunks come in the order of the source and do not overlap,
\* and only blank lines are left out.
NothingLost ==
    stage = "done" =>
      /\ \A m, n \in DOMAIN chunks : m < n => chunks[m][2] < chunks[n][1]
      /\ \A k \in DOMAIN lines : ~lines[k].blank => \E c \in ToSet(chunks) : Within(k, c)

\* The fence that is open before each line of a document.
OpenFences(ls) ==
    LET open[k \in 1..(Len(ls) + 1)] ==
          IF k = 1 THEN NoFence ELSE FenceAfter(open[k - 1], ls[k - 1])
    IN  open
OpenBefore(k) == OpenFences(lines)[k]

\* "without splitting fenced code" (chunking.py): every chunk begins and ends
\* outside fences, unless a fence is never closed.
FencesWhole ==
    Document => \A c \in ToSet(chunks) :
      /\ OpenBefore(c[1]) = NoFence
      /\ OpenBefore(c[2] + 1) = NoFence \/ c[2] = Len(lines)

\* The length of the lines a..b of a document.
Chars(ls, a, b) == Total([k \in 1..(b + 1 - a) |-> ls[a + k - 1].chars])

\* A section begins a chunk of its own, and a chunk runs on past the target
\* size only as far as the next blank line outside a fence.
SectionsPacked ==
    Document => \A k \in DOMAIN lines : OpenBefore(k) = NoFence =>
      /\ lines[k].heading => \E c \in ToSet(chunks) : c[1] = k
      /\ lines[k].blank => \A c \in ToSet(chunks) :
           Within(k, c) /\ c[1] < k => Chars(lines, c[1], k - 1) < TargetChars

Declares(k) == lines[k].decl
PrefixOf(k, d) == k <= d /\ Declares(d) /\ \A j \in k..(d - 1) : lines[j].prefix

\* "Boundaries are function declaration lines found outside comments/strings"
\* (chunking.py), or the doc comments and attributes above them, so that no
\* region begins in the middle of a function.  It takes that masking has not
\* joined any lines.
RegionsBeginAtFunctions ==
    Program /\ (\E k \in DOMAIN lines : Declares(k)) /\ (\A k \in DOMAIN lines : ~lines[k].joined) =>
      \A c \in ToSet(chunks) : c[1] = 1 \/ \E d \in DOMAIN lines : PrefixOf(c[1], d)

\* "Include adjacent doc comments and attributes with the declaration"
\* (chunking.py): all of the doc comments and attributes right above a
\* declaration are in its chunk.
PrefixesIncluded ==
    Program => \A k, d \in DOMAIN lines : PrefixOf(k, d) /\ (\A j \in k..(d - 1) : ~Declares(j)) =>
      \E c \in ToSet(chunks) : Within(k, c) /\ Within(d, c)

-----------------------------------------------------------------------------
(* The inductive invariant behind these properties. *)

\* The chunks cs lie in order below line b, and no text of ls below b is missing.
Ordered(cs, b) ==
    /\ \A n \in DOMAIN cs : 1 <= cs[n][1] /\ cs[n][1] <= cs[n][2] /\ cs[n][2] < b
    /\ \A m, n \in DOMAIN cs : m < n => cs[m][2] < cs[n][1]
Kept(ls, cs, b) ==
    \A k \in DOMAIN ls : k < b /\ ~ls[k].blank => \E n \in DOMAIN cs : Within(k, cs[n])

\* How far the chunks go: up to the block being collected.
Reached == IF stage = "done" \/ start > Len(lines) THEN Len(lines) + 1 ELSE start
CoverInv ==
    /\ start >= 1 /\ Ordered(chunks, Reached) /\ Kept(lines, chunks, Reached)
    /\ stage \in {"document", "prefixes"} => start <= Len(lines) + 1

\* The fence is the one open before line i, and blocks begin outside fences.
Unfenced(ls, a, b) ==
    /\ OpenFences(ls)[a] = NoFence
    /\ OpenFences(ls)[b + 1] = NoFence \/ b = Len(ls)
FenceInv ==
    kind = "document" =>
      /\ \A n \in DOMAIN chunks : Unfenced(lines, chunks[n][1], chunks[n][2])
      /\ stage = "document" =>
           /\ start <= i /\ i <= Len(lines) + 1
           /\ fence = OpenBefore(i) /\ OpenBefore(start) = NoFence

\* A block that starts in line a has not run on past the target before line b.
Small(ls, a, b) ==
    \A k \in DOMAIN ls : a < k /\ k <= b /\ ls[k].blank /\ OpenFences(ls)[k] = NoFence =>
      Chars(ls, a, k - 1) < TargetChars
\* Line k is no heading, or begins a chunk.
BeginsChunk(ls, cs, k) ==
    ls[k].heading /\ OpenFences(ls)[k] = NoFence => \E n \in DOMAIN cs : cs[n][1] = k
SectionInv ==
    kind = "document" =>
      /\ \A n \in DOMAIN chunks : Small(lines, chunks[n][1], chunks[n][2])
      /\ stage = "document" =>
           /\ size = Chars(lines, start, i - 1) /\ Small(lines, start, i - 1)
           /\ \A k \in DOMAIN lines : k < i => k = start \/ BeginsChunk(lines, chunks, k)
      /\ stage = "done" => \A k \in DOMAIN lines : BeginsChunk(lines, chunks, k)

\* Regions begin at declarations and what is above them, in order.
Aligned == \A k \in DOMAIN lines : ~lines[k].joined
RegionInv ==
    kind = "code" =>
      /\ stage = "code" => start = 1 /\ i = 1 /\ chunks = <<>>
      /\ stage = "fallback" => \A k \in DOMAIN lines : ~Declares(k)
      /\ stage = "prefixes" =>
           /\ \A m, n \in DOMAIN starts : m < n => starts[m] < starts[n]
           /\ start \in Boundaries /\ i >= 1
           /\ i <= Len(starts) => start = 1 /\ chunks = <<>>
           /\ \A n \in DOMAIN chunks : chunks[n][1] \in {1} \cup ToSet(starts)
           /\ Aligned => \A n \in DOMAIN starts :
                /\ n >= i => Declares(starts[n])
                /\ \E d \in DOMAIN lines : PrefixOf(starts[n], d)
      /\ stage = "done" => RegionsBeginAtFunctions

StageInv ==
    /\ kind = "document" => stage \in {"document", "done"}
    /\ kind = "code" => stage \in {"code", "fallback", "prefixes", "done"}
    /\ i >= 1

ChunkingInv ==
    ChunkingTypeOK /\ StageInv /\ CoverInv /\ FenceInv /\ SectionInv /\ RegionInv
=============================================================================
