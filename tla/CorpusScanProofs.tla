-------------------------- MODULE CorpusScanProofs --------------------------
(***************************************************************************)
(* Proofs about Chunking and CorpusScan, for any texts and any corpus.     *)
(***************************************************************************)
EXTENDS CorpusScan, DataLemmas, TLAPS

(* Fences and lengths of a document. *)

FencesTo(f, ls, n) ==
    f = [k \in 1..n |-> IF k = 1 THEN NoFence ELSE FenceAfter(f[k - 1], ls[k - 1])]

\* The fences before the first n lines can be read off one after the other
\* (document_chunks).
LEMMA FencesExist == ASSUME NEW ls, NEW n \in Nat PROVE \E f : FencesTo(f, ls, n)
<1> DEFINE T == {m \in Nat : ~\E f : FencesTo(f, ls, m)}
<1> SUFFICES ASSUME T # {} PROVE FALSE
  OBVIOUS
<1>1. PICK j \in T : \A m \in T : j <= m
  <2>1. T \in SUBSET Nat
    OBVIOUS
  <2> HIDE DEF T
  <2> QED
    BY <2>1, LeastNumber
<1>2. j \in Nat /\ ~\E f : FencesTo(f, ls, j)
  BY <1>1
<1>3. j # 0
  <2>1. FencesTo([k \in 1..0 |-> 0], ls, 0)
    BY DEF FencesTo
  <2> QED
    BY <1>2, <2>1
<1>4. j - 1 \in Nat /\ ~(j <= j - 1)
  BY <1>2, <1>3
<1>5. PICK f : FencesTo(f, ls, j - 1)
  BY <1>1, <1>4
<1> DEFINE more == [k \in 1..j |-> IF k = j THEN IF k = 1 THEN NoFence ELSE FenceAfter(f[k - 1], ls[k - 1])
                                            ELSE f[k]]
<1>6. ASSUME NEW k \in 1..j
      PROVE  more[k] = IF k = 1 THEN NoFence ELSE FenceAfter(more[k - 1], ls[k - 1])
  <2>1. k # 1 => k - 1 \in 1..j /\ k - 1 # j
    BY <1>2
  <2>2. k # 1 => more[k - 1] = f[k - 1]
    BY <2>1
  <2>3. CASE k = j
    BY <2>2, <2>3
  <2>4. CASE k # j
    <3>1. k \in 1..(j - 1) /\ more[k] = f[k]
      BY <1>2, <2>4
    <3>2. f[k] = IF k = 1 THEN NoFence ELSE FenceAfter(f[k - 1], ls[k - 1])
      BY <1>5, <3>1 DEF FencesTo
    <3> QED
      BY <2>2, <3>1, <3>2
  <2> QED
    BY <2>3, <2>4
<1>7. FencesTo(more, ls, j)
  <2>1. more = [k \in 1..j |-> more[k]]
    OBVIOUS
  <2> HIDE DEF more
  <2> QED
    BY <1>6, <2>1 DEF FencesTo
<1> QED
  BY <1>2, <1>7

\* What OpenFences says of each line: none is open before the first, and each line
\* opens or closes one as document_chunks reads it.
LEMMA OpenFencesStep ==
    ASSUME NEW ls, Len(ls) \in Nat
    PROVE  /\ OpenFences(ls)[1] = NoFence
           /\ \A k \in 1..Len(ls) : OpenFences(ls)[k + 1] = FenceAfter(OpenFences(ls)[k], ls[k])
<1> DEFINE n == Len(ls) + 1
           open == CHOOSE open : open = [k \in 1..n |-> IF k = 1 THEN NoFence ELSE FenceAfter(open[k - 1], ls[k - 1])]
<1>1. n \in Nat /\ 1 \in 1..n
  OBVIOUS
<1>2. OpenFences(ls) = open
  BY DEF OpenFences
<1> HIDE DEF n
<1>3. \E f : f = [k \in 1..n |-> IF k = 1 THEN NoFence ELSE FenceAfter(f[k - 1], ls[k - 1])]
  BY <1>1, FencesExist DEF FencesTo
<1>4. open = [k \in 1..n |-> IF k = 1 THEN NoFence ELSE FenceAfter(open[k - 1], ls[k - 1])]
  BY <1>3
<1> HIDE DEF open
<1>5. \A k \in 1..n : open[k] = IF k = 1 THEN NoFence ELSE FenceAfter(open[k - 1], ls[k - 1])
  BY <1>4
<1>6. ASSUME NEW k \in 1..Len(ls) PROVE open[k + 1] = FenceAfter(open[k], ls[k])
  <2>1. k + 1 \in 1..n /\ k + 1 # 1 /\ (k + 1) - 1 = k
    BY DEF n
  <2> QED
    BY <1>5, <2>1
<1> QED
  BY <1>1, <1>2, <1>5, <1>6

\* The length of a block grows by each line that document_chunks adds to it.
LEMMA CharsFacts ==
    ASSUME NEW ls \in Seq(DocLine), NEW a \in 1..Len(ls)
    PROVE  /\ Chars(ls, a, a - 1) = 0
           /\ \A b \in a..Len(ls) : Chars(ls, a, b) = Chars(ls, a, b - 1) + ls[b].chars
           /\ \A b \in (a - 1)..Len(ls) : Chars(ls, a, b) \in Nat
<1> DEFINE Part(b) == [k \in 1..(b + 1 - a) |-> ls[a + k - 1].chars]
<1>0. Len(ls) \in Nat /\ a \in Nat /\ a >= 1
  OBVIOUS
<1>1. \A k \in 1..Len(ls) : ls[k].chars \in Nat
  <2>1. \A k \in 1..Len(ls) : ls[k] \in DocLine
    OBVIOUS
  <2> QED
    BY <2>1 DEF DocLine
<1>2. ASSUME NEW b \in (a - 1)..Len(ls)
      PROVE  Part(b) \in Seq(Nat) /\ Len(Part(b)) = b + 1 - a
  <2>1. b + 1 - a \in Nat /\ Part(b) \in [1..(b + 1 - a) -> Nat]
    <3>1. b + 1 - a \in Nat /\ \A k \in 1..(b + 1 - a) : a + k - 1 \in 1..Len(ls)
      BY <1>0
    <3> QED
      BY <1>1, <3>1
  <2> QED
    BY <2>1, FunctionIsSeq
<1>3. Chars(ls, a, a - 1) = 0
  <2>1. a - 1 + 1 - a = 0
    BY <1>0
  <2>2. Part(a - 1) = <<>>
    BY <2>1
  <2> QED
    BY <2>2, TotalEmpty DEF Chars
<1>4. ASSUME NEW b \in a..Len(ls)
      PROVE  Chars(ls, a, b) = Chars(ls, a, b - 1) + ls[b].chars
  <2>1. b - 1 \in (a - 1)..Len(ls) /\ b \in (a - 1)..Len(ls) /\ b \in 1..Len(ls)
    BY <1>0
  <2>2. Part(b - 1) \in Seq(Nat) /\ Len(Part(b - 1)) = b - a
    BY <1>0, <1>2, <2>1
  <2>3. Part(b) \in Seq(Nat) /\ Len(Part(b)) = b - a + 1
    BY <1>0, <1>2, <2>1
  <2>4. Part(b) = Append(Part(b - 1), ls[b].chars)
    <3> DEFINE p == Part(b - 1)
               q == Part(b)
               x == ls[b].chars
    <3>1. /\ \A k \in 1..(b - a) : p[k] = ls[a + k - 1].chars /\ q[k] = ls[a + k - 1].chars
          /\ q[b - a + 1] = x
      BY <1>0, <2>1
    <3>2. x \in Nat /\ b - a \in Nat
      BY <1>0, <1>1, <2>1
    <3> HIDE DEF p, q, x
    <3>3. /\ Append(p, x) \in Seq(Nat) /\ Len(Append(p, x)) = b - a + 1
          /\ Append(p, x)[b - a + 1] = x /\ \A k \in 1..(b - a) : Append(p, x)[k] = p[k]
      BY <2>2, <3>2, AppendProperties DEF p
    <3>4. \A k \in 1..(b - a + 1) : q[k] = Append(p, x)[k]
      <4> SUFFICES ASSUME NEW k \in 1..(b - a + 1) PROVE q[k] = Append(p, x)[k]
        OBVIOUS
      <4>1. k \in 1..(b - a) \/ k = b - a + 1
        BY <3>2
      <4> QED
        BY <3>1, <3>3, <4>1
    <3>5. q = Append(p, x)
      BY <2>3, <3>3, <3>4, SeqEqual DEF q
    <3> QED
      BY <3>5 DEF p, q, x
  <2>5. Total(Append(Part(b - 1), ls[b].chars)) = Total(Part(b - 1)) + ls[b].chars
    BY <1>1, <2>1, <2>2, TotalAppend
  <2>6. b - 1 + 1 - a = b - a /\ b + 1 - a = b - a + 1
    BY <1>0
  <2> QED
    BY <2>4, <2>5 DEF Chars
<1>5. ASSUME NEW b \in (a - 1)..Len(ls) PROVE Chars(ls, a, b) \in Nat
  <2>1. Part(b) \in Seq(Nat)
    BY <1>2
  <2>2. Total(Part(b)) \in Nat
    <3> HIDE DEF Part
    <3> QED
      BY <2>1, TotalAppend
  <2> QED
    BY <2>2 DEF Chars
<1> QED
  BY <1>3, <1>4, <1>5

-----------------------------------------------------------------------------
(* Chunking. *)

Span == (1..Len(lines)) \X (1..Len(lines))

\* What a block adds to the chunks that end before it (code_chunks and
\* document_chunks): one chunk, unless it is blank.
LEMMA EmitFacts ==
    ASSUME Len(lines) \in Nat, DOMAIN lines = 1..Len(lines), chunks \in Seq(Span),
           NEW a \in 1..(Len(lines) + 1), NEW b \in 0..Len(lines), a <= b + 1,
           Ordered(chunks, a), Kept(lines, chunks, a)
    PROVE  /\ Emit(chunks, a, b) \in Seq(Span)
           /\ Ordered(Emit(chunks, a, b), b + 1)
           /\ Kept(lines, Emit(chunks, a, b), b + 1)
           /\ \A n \in DOMAIN chunks : /\ n \in DOMAIN Emit(chunks, a, b)
                                       /\ Emit(chunks, a, b)[n] = chunks[n]
           /\ \A n \in DOMAIN Emit(chunks, a, b) :
                \/ n \in DOMAIN chunks /\ Emit(chunks, a, b)[n] = chunks[n]
                \/ Emit(chunks, a, b)[n] = <<a, b>> /\ a <= b
           /\ \A k \in a..b : ~lines[k].blank =>
                \E n \in DOMAIN Emit(chunks, a, b) : Emit(chunks, a, b)[n] = <<a, b>>
<1> DEFINE new == Emit(chunks, a, b)
<1>0. DOMAIN chunks = 1..Len(chunks) /\ Len(chunks) \in Nat /\ \A n \in 1..Len(chunks) : chunks[n] \in Span
  OBVIOUS
<1>1. CASE \A k \in a..b : lines[k].blank
  <2>1. new = chunks
    BY <1>1 DEF Emit
  <2>2. Ordered(chunks, b + 1)
    <3> SUFFICES ASSUME NEW n \in DOMAIN chunks PROVE chunks[n][2] < b + 1
      BY DEF Ordered
    <3>1. chunks[n][2] < a /\ chunks[n][2] \in Nat
      BY <1>0 DEF Ordered, Span
    <3> QED
      BY <3>1
  <2>3. Kept(lines, chunks, b + 1)
    <3> SUFFICES ASSUME NEW k \in DOMAIN lines, k < b + 1, ~lines[k].blank
                 PROVE  \E n \in DOMAIN chunks : Within(k, chunks[n])
      BY DEF Kept
    <3>1. k < a
      BY <1>1
    <3> QED
      BY <3>1 DEF Kept
  <2> HIDE DEF new
  <2>4. /\ new \in Seq(Span) /\ Ordered(new, b + 1) /\ Kept(lines, new, b + 1)
        /\ \A n \in DOMAIN chunks : n \in DOMAIN new /\ new[n] = chunks[n]
        /\ \A n \in DOMAIN new : n \in DOMAIN chunks /\ new[n] = chunks[n]
    BY <2>1, <2>2, <2>3
  <2> QED
    BY <1>1, <2>4 DEF new
<1>2. CASE ~\A k \in a..b : lines[k].blank
  <2>1. new = Append(chunks, <<a, b>>)
    BY <1>2 DEF Emit
  <2>2. a <= b /\ <<a, b>> \in Span /\ a \in Nat /\ b \in Nat /\ a >= 1
    BY <1>2 DEF Span
  <2> DEFINE L == Len(chunks)
  <2> HIDE DEF new
  <2>3. /\ new \in Seq(Span) /\ DOMAIN new = 1..(L + 1) /\ new[L + 1] = <<a, b>>
        /\ \A n \in 1..L : new[n] = chunks[n]
    BY <1>0, <2>1, <2>2, AppendProperties
  <2>4. \A n \in DOMAIN new : (n \in 1..L /\ new[n] = chunks[n]) \/ (n = L + 1 /\ new[n] = <<a, b>>)
    BY <1>0, <2>3
  <2>5. \A n \in 1..L : /\ 1 <= chunks[n][1] /\ chunks[n][1] <= chunks[n][2] /\ chunks[n][2] < a
                        /\ chunks[n][2] \in Nat
    <3>1. \A n \in 1..L : chunks[n][2] \in Nat
      BY <1>0 DEF Span
    <3>2. \A n \in 1..L : 1 <= chunks[n][1] /\ chunks[n][1] <= chunks[n][2] /\ chunks[n][2] < a
      BY <1>0 DEF Ordered
    <3> QED
      BY <3>1, <3>2
  <2>6. Ordered(new, b + 1)
    <3>1. ASSUME NEW n \in DOMAIN new
          PROVE  1 <= new[n][1] /\ new[n][1] <= new[n][2] /\ new[n][2] < b + 1
      <4>1. CASE n \in 1..L /\ new[n] = chunks[n]
        BY <2>2, <2>5, <4>1
      <4>2. CASE new[n] = <<a, b>>
        BY <2>2, <4>2
      <4> QED
        BY <2>4, <4>1, <4>2
    <3>2. ASSUME NEW m \in DOMAIN new, NEW n \in DOMAIN new, m < n
          PROVE  new[m][2] < new[n][1]
      <4>0. m \in 1..L /\ new[m] = chunks[m]
        BY <1>0, <2>3, <3>2
      <4>1. CASE n \in 1..L /\ new[n] = chunks[n]
        BY <1>0, <3>2, <4>0, <4>1 DEF Ordered
      <4>2. CASE new[n] = <<a, b>>
        BY <2>5, <4>0, <4>2
      <4> QED
        BY <2>4, <4>1, <4>2
    <3> QED
      BY <3>1, <3>2 DEF Ordered
  <2>7. Kept(lines, new, b + 1)
    <3> SUFFICES ASSUME NEW k \in DOMAIN lines, k < b + 1, ~lines[k].blank
                 PROVE  \E n \in DOMAIN new : Within(k, new[n])
      BY DEF Kept
    <3>0. k \in Nat
      OBVIOUS
    <3>1. CASE k < a
      <4>1. PICK n \in DOMAIN chunks : Within(k, chunks[n])
        BY <3>1 DEF Kept
      <4>2. n \in DOMAIN new /\ new[n] = chunks[n]
        BY <1>0, <2>3
      <4> QED
        BY <4>1, <4>2
    <3>2. CASE k >= a
      <4>1. L + 1 \in DOMAIN new /\ Within(k, <<a, b>>)
        BY <1>0, <2>2, <2>3, <3>0, <3>2 DEF Within
      <4> QED
        BY <2>3, <4>1
    <3> QED
      BY <2>2, <3>0, <3>1, <3>2
  <2>8. L + 1 \in DOMAIN new /\ \A n \in DOMAIN chunks : n \in DOMAIN new /\ new[n] = chunks[n]
    BY <1>0, <2>3
  <2> QED
    BY <1>0, <2>2, <2>3, <2>4, <2>6, <2>7, <2>8 DEF new
<1> QED
  BY <1>1, <1>2

\* The lines of a document or program as sequences of their kind of line.
LEMMA LineFacts ==
    ASSUME ChunkingTypeOK
    PROVE  /\ Len(lines) \in Nat /\ DOMAIN lines = 1..Len(lines) /\ chunks \in Seq(Span)
           /\ kind = "document" => lines \in Seq(DocLine) /\ \A k \in 1..Len(lines) : lines[k] \in DocLine
           /\ kind = "code" => lines \in Seq(CodeLine) /\ \A k \in 1..Len(lines) : lines[k] \in CodeLine
           /\ start \in Nat /\ i \in Nat
<1>0. kind \in {"document", "code"} /\ chunks \in Seq(Span) /\ start \in Nat /\ i \in Nat
  BY DEF ChunkingTypeOK, Span
<1>1. CASE kind = "document"
  <2>1. lines \in Seq(DocLine)
    BY <1>1 DEF ChunkingTypeOK
  <2>2. Len(lines) \in Nat /\ DOMAIN lines = 1..Len(lines) /\ \A k \in 1..Len(lines) : lines[k] \in DocLine
    BY <2>1
  <2> QED
    BY <1>0, <1>1, <2>1, <2>2
<1>2. CASE kind = "code"
  <2>1. lines \in Seq(CodeLine)
    BY <1>2 DEF ChunkingTypeOK
  <2>2. Len(lines) \in Nat /\ DOMAIN lines = 1..Len(lines) /\ \A k \in 1..Len(lines) : lines[k] \in CodeLine
    BY <2>1
  <2> QED
    BY <1>0, <1>2, <2>1, <2>2
<1> QED
  BY <1>0, <1>1, <1>2

\* While document_chunks reads, its block lies within the text read so far.
LEMMA DocumentFacts ==
    ASSUME ChunkingInv, stage = "document"
    PROVE  /\ kind = "document" /\ lines \in Seq(DocLine) /\ Len(lines) \in Nat
           /\ DOMAIN lines = 1..Len(lines) /\ chunks \in Seq(Span)
           /\ \A k \in 1..Len(lines) : lines[k] \in DocLine
           /\ i \in Nat /\ start \in Nat /\ start >= 1 /\ start <= i /\ i <= Len(lines) + 1
           /\ Ordered(chunks, start) /\ Kept(lines, chunks, start)
           /\ fence = OpenFences(lines)[i] /\ OpenFences(lines)[start] = NoFence
           /\ size = Chars(lines, start, i - 1) /\ Small(lines, start, i - 1)
           /\ \A k \in DOMAIN lines : k < i => k = start \/ BeginsChunk(lines, chunks, k)
           /\ \A n \in DOMAIN chunks : /\ Unfenced(lines, chunks[n][1], chunks[n][2])
                                       /\ Small(lines, chunks[n][1], chunks[n][2])
<1>1. ChunkingTypeOK /\ StageInv /\ CoverInv /\ FenceInv /\ SectionInv
  BY DEF ChunkingInv
<1>2. kind = "document"
  BY <1>1 DEF ChunkingTypeOK, StageInv
<1>3. /\ lines \in Seq(DocLine) /\ Len(lines) \in Nat /\ DOMAIN lines = 1..Len(lines)
      /\ chunks \in Seq(Span) /\ i \in Nat /\ start \in Nat
      /\ \A k \in 1..Len(lines) : lines[k] \in DocLine
  BY <1>1, <1>2, LineFacts
<1>4. /\ start <= i /\ i <= Len(lines) + 1 /\ fence = OpenFences(lines)[i]
      /\ OpenFences(lines)[start] = NoFence
      /\ \A n \in DOMAIN chunks : Unfenced(lines, chunks[n][1], chunks[n][2])
  BY <1>1, <1>2 DEF FenceInv, OpenBefore
<1>5. /\ size = Chars(lines, start, i - 1) /\ Small(lines, start, i - 1)
      /\ \A k \in DOMAIN lines : k < i => k = start \/ BeginsChunk(lines, chunks, k)
      /\ \A n \in DOMAIN chunks : Small(lines, chunks[n][1], chunks[n][2])
  BY <1>1, <1>2 DEF SectionInv
<1>6. Reached = start
  BY <1>1, <1>3 DEF Reached, CoverInv
<1>7. start >= 1 /\ Ordered(chunks, start) /\ Kept(lines, chunks, start)
  BY <1>1, <1>6 DEF CoverInv
<1> QED
  BY <1>2, <1>3, <1>4, <1>5, <1>7

\* Reading a line keeps the invariant, whether it is added to the block or cuts it
\* off (document_chunks).
LEMMA ReadLineInv == ASSUME ChunkingInv, ReadLine PROVE ChunkingInv'
<1> DEFINE O == OpenFences(lines)
<1>1. stage = "document" /\ i <= Len(lines) /\ i' = i + 1 /\ fence' = FenceAfter(fence, lines[i])
  BY DEF ReadLine
<1>2. /\ kind = "document" /\ lines \in Seq(DocLine) /\ Len(lines) \in Nat
      /\ DOMAIN lines = 1..Len(lines) /\ chunks \in Seq(Span)
      /\ \A k \in 1..Len(lines) : lines[k] \in DocLine
      /\ i \in Nat /\ start \in Nat /\ start >= 1 /\ start <= i
      /\ Ordered(chunks, start) /\ Kept(lines, chunks, start)
  BY <1>1, DocumentFacts
<1>3. /\ fence = O[i] /\ O[start] = NoFence
      /\ size = Chars(lines, start, i - 1) /\ Small(lines, start, i - 1)
      /\ \A k \in DOMAIN lines : k < i => k = start \/ BeginsChunk(lines, chunks, k)
      /\ \A n \in DOMAIN chunks : /\ Unfenced(lines, chunks[n][1], chunks[n][2])
                                  /\ Small(lines, chunks[n][1], chunks[n][2])
  BY <1>1, DocumentFacts
<1>4. lines' = lines /\ kind' = kind /\ stage' = stage /\ starts' = starts
  BY DEF ReadLine
<1>5. i \in 1..Len(lines) /\ lines[i] \in DocLine
  BY <1>1, <1>2
<1>6. fence' = O[i + 1] /\ fence' \in {"", "tick", "tilde"} \X Nat
  <2>1. O[i + 1] = FenceAfter(O[i], lines[i])
    BY <1>2, <1>5, OpenFencesStep
  <2>2. fence \in {"", "tick", "tilde"} \X Nat /\ lines[i].fence \in {"", "tick", "tilde"} \X Nat
    BY <1>5 DEF ChunkingInv, ChunkingTypeOK, DocLine
  <2> QED
    BY <1>1, <1>3, <2>1, <2>2 DEF FenceAfter, NoFence
<1> HIDE DEF O
<1>7. lines[i].chars \in Nat
  BY <1>5 DEF DocLine
<1>t. ChunkingTypeOK /\ size \in Nat
  BY DEF ChunkingInv, ChunkingTypeOK
<1>8. /\ start' \in 1..i /\ size' = Chars(lines, start', i) /\ size' \in Nat
      /\ O[start'] = NoFence /\ Small(lines, start', i)
      /\ chunks' \in Seq(Span) /\ Ordered(chunks', start') /\ Kept(lines, chunks', start')
      /\ \A n \in DOMAIN chunks' : /\ Unfenced(lines, chunks'[n][1], chunks'[n][2])
                                   /\ Small(lines, chunks'[n][1], chunks'[n][2])
      /\ \A k \in DOMAIN lines : k < i + 1 => k = start' \/ BeginsChunk(lines, chunks', k)
  <2>1. CASE CutHere(lines[i])
    <3>1. /\ chunks' = Emit(chunks, start, i - 1) /\ start' = i /\ size' = lines[i].chars
      BY <2>1 DEF ReadLine
    <3>2. i > start /\ O[i] = NoFence
      BY <1>3, <2>1 DEF CutHere
    <3>3. start \in 1..(Len(lines) + 1) /\ i - 1 \in 0..Len(lines) /\ start <= i - 1 + 1 /\ i - 1 + 1 = i
      BY <1>1, <1>2
    <3>4. /\ chunks' \in Seq(Span) /\ Ordered(chunks', i) /\ Kept(lines, chunks', i)
          /\ \A n \in DOMAIN chunks : n \in DOMAIN chunks' /\ chunks'[n] = chunks[n]
          /\ \A n \in DOMAIN chunks' : \/ n \in DOMAIN chunks /\ chunks'[n] = chunks[n]
                                       \/ chunks'[n] = <<start, i - 1>>
          /\ \A k \in start..(i - 1) : ~lines[k].blank =>
               \E n \in DOMAIN chunks' : chunks'[n] = <<start, i - 1>>
      BY <1>2, <3>1, <3>3, EmitFacts
    <3>5. size' = Chars(lines, i, i)
      <4>1. Chars(lines, i, i - 1) = 0 /\ Chars(lines, i, i) = Chars(lines, i, i - 1) + lines[i].chars
        BY <1>2, <1>5, CharsFacts
      <4> QED
        BY <1>7, <3>1, <4>1
    <3>6. Small(lines, i, i)
      BY <1>2 DEF Small
    <3>7. Unfenced(lines, start, i - 1)
      BY <1>3, <3>2, <3>3 DEF Unfenced, O
    <3>8. ASSUME NEW n \in DOMAIN chunks'
          PROVE  Unfenced(lines, chunks'[n][1], chunks'[n][2]) /\ Small(lines, chunks'[n][1], chunks'[n][2])
      <4>1. CASE n \in DOMAIN chunks /\ chunks'[n] = chunks[n]
        BY <1>3, <4>1
      <4>2. CASE chunks'[n] = <<start, i - 1>>
        BY <1>3, <3>7, <4>2
      <4> QED
        BY <3>4, <4>1, <4>2
    <3>9. ASSUME NEW k \in DOMAIN lines, k < i + 1, k # i
          PROVE  BeginsChunk(lines, chunks', k)
      <4> SUFFICES ASSUME lines[k].heading, OpenFences(lines)[k] = NoFence
                   PROVE  \E n \in DOMAIN chunks' : chunks'[n][1] = k
        BY DEF BeginsChunk
      <4>1. k < i /\ k \in 1..Len(lines)
        BY <1>2, <3>9
      <4>2. CASE BeginsChunk(lines, chunks, k)
        <5>1. PICK n \in DOMAIN chunks : chunks[n][1] = k
          BY <4>2 DEF BeginsChunk
        <5> QED
          BY <3>4, <5>1
      <4>3. CASE k = start
        <5>1. ~lines[k].blank
          BY <1>2, <4>1 DEF DocLine
        <5>2. k \in start..(i - 1)
          BY <1>2, <4>1, <4>3
        <5>3. PICK n \in DOMAIN chunks' : chunks'[n] = <<start, i - 1>>
          BY <3>4, <5>1, <5>2
        <5> QED
          BY <4>3, <5>3
      <4> QED
        BY <1>3, <4>1, <4>2, <4>3
    <3>10. i \in 1..i
      BY <1>2
    <3> QED
      BY <1>7, <3>1, <3>2, <3>4, <3>5, <3>6, <3>8, <3>9, <3>10
  <2>2. CASE ~CutHere(lines[i])
    <3>1. chunks' = chunks /\ start' = start /\ size' = size + lines[i].chars
      BY <2>2 DEF ReadLine
    <3>2. size' = Chars(lines, start, i) /\ size' \in Nat
      <4>1. start \in 1..Len(lines) /\ i \in start..Len(lines)
        BY <1>1, <1>2
      <4>2. Chars(lines, start, i) = Chars(lines, start, i - 1) + lines[i].chars
        BY <1>2, <4>1, CharsFacts
      <4> QED
        BY <1>3, <1>7, <1>t, <3>1, <4>2
    <3>3. Small(lines, start, i)
      <4> SUFFICES ASSUME NEW k \in DOMAIN lines, start < k, k <= i, lines[k].blank, O[k] = NoFence
                   PROVE  Chars(lines, start, k - 1) < TargetChars
        BY DEF Small, O
      <4>1. CASE k <= i - 1
        BY <1>3, <4>1 DEF Small, O
      <4>2. CASE k = i
        <5>1. ~(size >= TargetChars)
          BY <1>3, <2>2, <4>2 DEF CutHere
        <5> QED
          BY <1>3, <1>t, <4>2, <5>1, ChunkingAssumption
      <4> QED
        BY <1>2, <4>1, <4>2
    <3>4. ASSUME NEW k \in DOMAIN lines, k < i + 1, k # start
          PROVE  BeginsChunk(lines, chunks, k)
      <4>1. CASE k < i
        BY <1>3, <3>4, <4>1
      <4>2. CASE k = i
        <5>1. ~(lines[k].heading /\ O[k] = NoFence)
          BY <1>2, <1>3, <2>2, <3>4, <4>2 DEF CutHere
        <5> QED
          BY <5>1 DEF BeginsChunk, O
      <4> QED
        BY <1>2, <3>4, <4>1, <4>2
    <3>5. start \in 1..i
      BY <1>2
    <3> QED
      BY <1>2, <1>3, <3>1, <3>2, <3>3, <3>4, <3>5
  <2> QED
    BY <2>1, <2>2
<1>9. ChunkingTypeOK'
  <2>1. start' \in Nat /\ i' \in Nat /\ size' \in Nat /\ chunks' \in Seq((1..Len(lines)) \X (1..Len(lines)))
    BY <1>1, <1>2, <1>8 DEF Span
  <2> QED
    BY <1>4, <1>6, <1>t, <2>1 DEF ChunkingTypeOK
<1>10. StageInv' /\ RegionInv'
  BY <1>1, <1>2, <1>4 DEF StageInv, RegionInv
<1>11. CoverInv'
  <2>1. start' \in Nat /\ start' >= 1 /\ start' <= Len(lines)
    BY <1>1, <1>2, <1>8
  <2>2. Reached' = start'
    BY <1>1, <1>2, <1>4, <2>1 DEF Reached
  <2> QED
    BY <1>2, <1>4, <1>8, <2>1, <2>2 DEF CoverInv
<1>12. FenceInv'
  <2>1. start' <= i' /\ i' <= Len(lines') + 1
    BY <1>1, <1>2, <1>4, <1>8
  <2>2. OpenBefore(i)' = fence' /\ OpenBefore(start)' = NoFence
    BY <1>1, <1>4, <1>6, <1>8 DEF OpenBefore, O
  <2> QED
    BY <1>4, <1>8, <2>1, <2>2 DEF FenceInv
<1>13. SectionInv'
  <2>1. i' - 1 = i
    BY <1>1, <1>2
  <2>2. stage' # "done"
    BY <1>1, <1>4
  <2> QED
    BY <1>1, <1>4, <1>8, <2>1, <2>2 DEF SectionInv
<1> QED
  BY <1>9, <1>10, <1>11, <1>12, <1>13 DEF ChunkingInv

\* The last block ends with the document (document_chunks).
LEMMA LastBlockInv == ASSUME ChunkingInv, LastBlock PROVE ChunkingInv'
<1> DEFINE L == Len(lines)
<1>1. stage = "document" /\ i > L /\ chunks' = Emit(chunks, start, L) /\ stage' = "done"
  BY DEF LastBlock
<1>2. /\ kind = "document" /\ lines \in Seq(DocLine) /\ L \in Nat
      /\ DOMAIN lines = 1..L /\ chunks \in Seq(Span)
      /\ \A k \in 1..L : lines[k] \in DocLine
      /\ i \in Nat /\ start \in Nat /\ start >= 1 /\ start <= i /\ i <= L + 1
      /\ Ordered(chunks, start) /\ Kept(lines, chunks, start)
  BY <1>1, DocumentFacts
<1>3. /\ OpenFences(lines)[start] = NoFence /\ Small(lines, start, i - 1)
      /\ \A k \in DOMAIN lines : k < i => k = start \/ BeginsChunk(lines, chunks, k)
      /\ \A n \in DOMAIN chunks : /\ Unfenced(lines, chunks[n][1], chunks[n][2])
                                  /\ Small(lines, chunks[n][1], chunks[n][2])
  BY <1>1, DocumentFacts
<1>4. lines' = lines /\ kind' = kind /\ i' = i /\ start' = start
  BY DEF LastBlock
<1>5. start \in 1..(L + 1) /\ L \in 0..L /\ start <= L + 1 /\ i - 1 = L
  BY <1>1, <1>2
<1>6. /\ chunks' \in Seq(Span) /\ Ordered(chunks', L + 1) /\ Kept(lines, chunks', L + 1)
      /\ \A n \in DOMAIN chunks : n \in DOMAIN chunks' /\ chunks'[n] = chunks[n]
      /\ \A n \in DOMAIN chunks' : \/ n \in DOMAIN chunks /\ chunks'[n] = chunks[n]
                                   \/ chunks'[n] = <<start, L>>
      /\ \A k \in start..L : ~lines[k].blank => \E n \in DOMAIN chunks' : chunks'[n] = <<start, L>>
  BY <1>1, <1>2, <1>5, EmitFacts
<1>7. ChunkingTypeOK' /\ StageInv' /\ RegionInv'
  <2>1. chunks' \in Seq((1..Len(lines)) \X (1..Len(lines)))
    BY <1>6 DEF Span
  <2>2. ChunkingTypeOK /\ StageInv /\ UNCHANGED <<size, fence, starts>>
    BY DEF ChunkingInv, LastBlock
  <2>3. ChunkingTypeOK'
    BY <1>1, <1>4, <2>1, <2>2 DEF ChunkingTypeOK
  <2>4. StageInv' /\ RegionInv'
    BY <1>1, <1>2, <1>4, <2>2 DEF StageInv, RegionInv
  <2> QED
    BY <2>3, <2>4
<1>8. CoverInv'
  <2>1. Reached' = L + 1
    BY <1>1, <1>4 DEF Reached
  <2> QED
    BY <1>1, <1>2, <1>4, <1>6, <2>1 DEF CoverInv
<1>9. FenceInv' /\ SectionInv'
  <2>1. ASSUME NEW n \in DOMAIN chunks'
        PROVE  Unfenced(lines, chunks'[n][1], chunks'[n][2]) /\ Small(lines, chunks'[n][1], chunks'[n][2])
    <3>1. CASE n \in DOMAIN chunks /\ chunks'[n] = chunks[n]
      BY <1>3, <3>1
    <3>2. CASE chunks'[n] = <<start, L>>
      <4>1. Unfenced(lines, start, L) /\ Small(lines, start, L)
        BY <1>3, <1>5 DEF Unfenced
      <4> QED
        BY <3>2, <4>1
    <3> QED
      BY <1>6, <3>1, <3>2
  <2>2. ASSUME NEW k \in DOMAIN lines PROVE BeginsChunk(lines, chunks', k)
    <3> SUFFICES ASSUME lines[k].heading, OpenFences(lines)[k] = NoFence
                 PROVE  \E n \in DOMAIN chunks' : chunks'[n][1] = k
      BY DEF BeginsChunk
    <3>1. k < i /\ k \in 1..L
      BY <1>1, <1>2
    <3>2. CASE BeginsChunk(lines, chunks, k)
      <4>1. PICK n \in DOMAIN chunks : chunks[n][1] = k
        BY <3>2 DEF BeginsChunk
      <4> QED
        BY <1>6, <4>1
    <3>3. CASE k = start
      <4>0. ~lines[k].blank
        BY <1>2, <3>1 DEF DocLine
      <4>1. ~lines[k].blank /\ k \in start..L
        BY <1>2, <3>1, <3>3, <4>0
      <4>2. PICK n \in DOMAIN chunks' : chunks'[n] = <<start, L>>
        BY <1>6, <4>1
      <4> QED
        BY <3>3, <4>2
    <3> QED
      BY <1>3, <3>1, <3>2, <3>3
  <2>3. FenceInv'
    BY <1>1, <1>4, <2>1 DEF FenceInv
  <2>4. SectionInv'
    BY <1>1, <1>4, <2>1, <2>2 DEF SectionInv
  <2> QED
    BY <2>3, <2>4
<1> QED
  BY <1>7, <1>8, <1>9 DEF ChunkingInv

\* A program has none of the properties of a document.
LEMMA CodeKeeps ==
    ASSUME kind = "code", kind' = kind
    PROVE  FenceInv' /\ SectionInv'
BY DEF FenceInv, SectionInv

\* A masked line is not below the line it is made of, and the same if masking has
\* joined nothing (mask_non_code).
LEMMA MaskedLineFacts ==
    ASSUME Len(lines) \in Nat, DOMAIN lines = 1..Len(lines), NEW k \in 1..Len(lines)
    PROVE  MaskedLine(k) \in 1..k /\ (Aligned => MaskedLine(k) = k)
<1> DEFINE J == {j \in 1..(k - 1) : lines[j].joined}
<1>1. k \in Nat /\ k >= 1 /\ 1 \in Int /\ k - 1 \in Int
  OBVIOUS
<1>2. IsFiniteSet(1..(k - 1)) /\ Cardinality(1..(k - 1)) = k - 1
  <2>1. IsFiniteSet(1..(k - 1)) /\ Cardinality(1..(k - 1)) = IF 1 > k - 1 THEN 0 ELSE (k - 1) - 1 + 1
    BY <1>1, FS_Interval
  <2> QED
    BY <1>1, <2>1
<1>3. IsFiniteSet(J) /\ Cardinality(J) <= k - 1
  <2> DEFINE K == 1..(k - 1)
  <2>1. J \in SUBSET K /\ IsFiniteSet(K) /\ Cardinality(K) = k - 1
    BY <1>2
  <2> HIDE DEF J, K
  <2>2. IsFiniteSet(J) /\ Cardinality(J) <= Cardinality(K)
    BY <2>1, FS_Subset
  <2> QED
    BY <2>1, <2>2
<1>4. Cardinality(J) \in Nat
  BY <1>3, FS_CardinalityType
<1>5. MaskedLine(k) = k - Cardinality(J)
  BY DEF MaskedLine
<1>6. ASSUME Aligned PROVE Cardinality(J) = 0
  <2>1. J = {}
    BY <1>1, <1>6 DEF Aligned
  <2> QED
    BY <2>1, FS_EmptySet
<1> HIDE DEF J
<1>7. MaskedLine(k) \in 1..k
  BY <1>1, <1>3, <1>4, <1>5
<1> QED
  BY <1>1, <1>5, <1>6, <1>7

\* The declarations, found from top to bottom, are lines of the program
\* (code_chunks).
LEMMA FindDeclarationsInv == ASSUME ChunkingInv, FindDeclarations PROVE ChunkingInv'
<1> DEFINE D == {MaskedLine(k) : k \in {j \in DOMAIN lines : lines[j].decl}}
<1>1. /\ stage = "code" /\ starts' = Ascending(D)
      /\ stage' = IF starts' = <<>> THEN "fallback" ELSE "prefixes"
      /\ UNCHANGED <<lines, kind, i, start, size, fence, chunks>>
  BY DEF FindDeclarations
<1>2. ChunkingTypeOK /\ StageInv /\ CoverInv /\ RegionInv
  BY DEF ChunkingInv
<1>3. kind = "code"
  BY <1>1, <1>2 DEF ChunkingTypeOK, StageInv
<1>4. start = 1 /\ i = 1 /\ chunks = <<>>
  BY <1>1, <1>2, <1>3 DEF RegionInv
<1>5. Len(lines) \in Nat /\ DOMAIN lines = 1..Len(lines)
  BY <1>2, LineFacts
<1>6. D \in SUBSET (1..Len(lines))
  <2> SUFFICES ASSUME NEW k \in DOMAIN lines PROVE MaskedLine(k) \in 1..Len(lines)
    OBVIOUS
  <2>1. k \in 1..Len(lines) /\ MaskedLine(k) \in 1..k
    BY <1>5, MaskedLineFacts
  <2> QED
    BY <1>5, <2>1
<1>7. starts' \in Seq(D) /\ Increasing(starts') /\ (starts' = <<>> => D = {})
  <2> HIDE DEF D
  <2> QED
    BY <1>1, <1>5, <1>6, AscendingFacts
<1>8. /\ starts' \in Seq(1..Len(lines)) /\ DOMAIN starts' = 1..Len(starts')
      /\ \A n \in DOMAIN starts' : starts'[n] \in D
  <2> HIDE DEF D
  <2>1. Len(starts') \in Nat /\ starts' \in [1..Len(starts') -> D] /\ DOMAIN starts' = 1..Len(starts')
    BY <1>7
  <2>2. starts' \in [1..Len(starts') -> 1..Len(lines)]
    BY <1>6, <2>1
  <2> QED
    BY <2>1, <2>2, FunctionIsSeq
<1>9. ChunkingTypeOK' /\ StageInv'
  <2>1. ChunkingTypeOK'
    BY <1>1, <1>2, <1>8 DEF ChunkingTypeOK
  <2> QED
    BY <1>1, <1>2, <1>3, <2>1 DEF StageInv
<1>10. CoverInv'
  <2>1. Reached' = Reached
    BY <1>1 DEF Reached
  <2> QED
    BY <1>1, <1>2, <1>4, <1>5, <2>1 DEF CoverInv
<1>11. RegionInv'
  <2>1. ASSUME stage' = "fallback", NEW k \in DOMAIN lines PROVE ~Declares(k)
    <3>1. D = {}
      BY <1>1, <1>7, <2>1
    <3> QED
      BY <3>1 DEF Declares
  <2>2. ASSUME Aligned, NEW n \in DOMAIN starts'
        PROVE  Declares(starts'[n]) /\ \E d \in DOMAIN lines : PrefixOf(starts'[n], d)
    <3>1. PICK k \in DOMAIN lines : lines[k].decl /\ starts'[n] = MaskedLine(k)
      BY <1>8
    <3>2. MaskedLine(k) = k /\ k \in Nat
      BY <1>5, <2>2, <3>1, MaskedLineFacts
    <3>3. PrefixOf(k, k)
      BY <3>1, <3>2 DEF PrefixOf, Declares
    <3> QED
      BY <3>1, <3>2, <3>3 DEF Declares
  <2>3. stage' # "code" /\ stage' # "done"
    BY <1>1
  <2>4. /\ \A k \in DOMAIN lines : Declares(k)' <=> Declares(k)
        /\ Aligned' <=> Aligned
    BY <1>1 DEF Declares, Aligned
  <2>5. start' \in Boundaries' /\ i' >= 1 /\ start' = 1 /\ chunks' = <<>>
    BY <1>1, <1>4 DEF Boundaries
  <2>6. \A n \in DOMAIN chunks' : chunks'[n][1] \in {1} \cup ToSet(starts')
    BY <1>1, <1>4
  <2>7. ASSUME NEW k, NEW d \in DOMAIN lines, PrefixOf(k, d) PROVE \A a, b : a = k /\ b = d => PrefixOf(a, b)'
    BY <1>1, <2>7 DEF PrefixOf, Declares
  <2>8. \A m, n \in DOMAIN starts' : m < n => starts'[m] < starts'[n]
    BY <1>7 DEF Increasing
  <2>9. Aligned' => \A n \in DOMAIN starts' :
                      /\ n >= i' => Declares(starts[n])'
                      /\ \E d \in DOMAIN lines' : PrefixOf(starts[n], d)'
    BY <1>1, <2>2, <2>4 DEF PrefixOf, Declares
  <2>10. stage' = "fallback" => \A k \in DOMAIN lines' : ~Declares(k)'
    BY <1>1, <2>1 DEF Declares
  <2> QED
    BY <2>3, <2>5, <2>6, <2>8, <2>9, <2>10 DEF RegionInv
<1> QED
  BY <1>1, <1>3, <1>9, <1>10, <1>11, CodeKeeps DEF ChunkingInv

\* Without declarations the program is cut into regions of equal length
\* (code_chunks).
LEMMA FallbackRegionInv == ASSUME ChunkingInv, FallbackRegion PROVE ChunkingInv'
<1> DEFINE L == Len(lines)
           last == IF start + FallbackLines - 1 <= L THEN start + FallbackLines - 1 ELSE L
<1>1. stage = "fallback" /\ UNCHANGED <<lines, kind, i, size, fence, starts>>
  BY DEF FallbackRegion
<1>2. ChunkingTypeOK /\ StageInv /\ CoverInv /\ RegionInv
  BY DEF ChunkingInv
<1>3. kind = "code"
  BY <1>1, <1>2 DEF ChunkingTypeOK, StageInv
<1>4. L \in Nat /\ DOMAIN lines = 1..L /\ chunks \in Seq(Span) /\ start \in Nat /\ start >= 1
  BY <1>2, LineFacts DEF CoverInv
<1>5. FallbackLines \in Nat \ {0}
  BY ChunkingAssumption
<1>6. /\ stage' \in {"fallback", "done"} /\ start' \in Nat /\ start' >= 1 /\ chunks' \in Seq(Span)
      /\ Ordered(chunks', Reached') /\ Kept(lines, chunks', Reached')
  <2>1. CASE start <= L
    <3>1. chunks' = Emit(chunks, start, last) /\ start' = start + FallbackLines /\ stage' = stage
      BY <2>1 DEF FallbackRegion
    <3>2. /\ start \in 1..(L + 1) /\ last \in 0..L /\ start <= last + 1
          /\ start' \in Nat /\ start' >= 1
          /\ (start' > L => last + 1 = L + 1) /\ (~(start' > L) => last + 1 = start')
      BY <1>4, <1>5, <2>1, <3>1
    <3>3. Reached = start /\ Reached' = last + 1
      BY <1>1, <1>4, <2>1, <3>1, <3>2 DEF Reached
    <3> HIDE DEF last
    <3>4. Ordered(chunks, start) /\ Kept(lines, chunks, start)
      BY <1>2, <3>3 DEF CoverInv
    <3>5. chunks' \in Seq(Span) /\ Ordered(chunks', last + 1) /\ Kept(lines, chunks', last + 1)
      BY <1>4, <3>1, <3>2, <3>4, EmitFacts
    <3> QED
      BY <1>1, <3>1, <3>2, <3>3, <3>5
  <2>2. CASE ~(start <= L)
    <3>1. stage' = "done" /\ chunks' = chunks /\ start' = start
      BY <2>2 DEF FallbackRegion
    <3>2. Reached = L + 1 /\ Reached' = L + 1
      BY <1>1, <1>4, <2>2, <3>1 DEF Reached
    <3> QED
      BY <1>2, <1>4, <3>1, <3>2 DEF CoverInv
  <2> QED
    BY <2>1, <2>2
<1>7. ChunkingTypeOK' /\ StageInv'
  <2>1. chunks' \in Seq((1..Len(lines)) \X (1..Len(lines)))
    BY <1>6 DEF Span
  <2>2. ChunkingTypeOK'
    BY <1>1, <1>2, <1>6, <2>1 DEF ChunkingTypeOK
  <2> QED
    BY <1>1, <1>2, <1>3, <1>6, <2>2 DEF StageInv
<1>8. CoverInv'
  BY <1>1, <1>6 DEF CoverInv
<1>9. RegionInv'
  <2>1. \A k \in DOMAIN lines : ~Declares(k)
    BY <1>1, <1>2, <1>3 DEF RegionInv
  <2>2. \A k \in DOMAIN lines' : ~Declares(k)'
    BY <1>1, <2>1 DEF Declares
  <2>3. RegionsBeginAtFunctions'
    BY <2>2 DEF RegionsBeginAtFunctions
  <2> QED
    BY <1>6, <2>2, <2>3 DEF RegionInv
<1> QED
  BY <1>1, <1>3, <1>7, <1>8, <1>9, CodeKeeps DEF ChunkingInv

\* The search upwards for doc comments and attributes ends below the region before
\* (code_chunks, the inner while loop).
LEMMA RegionStartFacts ==
    ASSUME Len(lines) \in Nat, starts \in Seq(1..Len(lines)), Increasing(starts), NEW n \in DOMAIN starts
    PROVE  /\ RegionStart(n) \in 1..starts[n]
           /\ n > 1 => starts[n - 1] < RegionStart(n)
           /\ \A k \in RegionStart(n)..(starts[n] - 1) : lines[k].prefix
<1> DEFINE lower == IF n = 1 THEN 1 ELSE starts[n - 1] + 1
           Above(s) == \A k \in s..(starts[n] - 1) : lines[k].prefix
           T == {s \in lower..starts[n] : Above(s)}
<1>1. n \in 1..Len(starts) /\ Len(starts) \in Nat /\ starts[n] \in Nat /\ starts[n] >= 1
  OBVIOUS
<1>2. n > 1 => n - 1 \in DOMAIN starts /\ starts[n - 1] \in Nat /\ starts[n - 1] < starts[n]
  <2> SUFFICES ASSUME n > 1 PROVE n - 1 \in DOMAIN starts /\ starts[n - 1] \in Nat /\ starts[n - 1] < starts[n]
    OBVIOUS
  <2>1. n - 1 \in 1..Len(starts) /\ n - 1 < n
    BY <1>1
  <2>2. starts[n - 1] \in Nat /\ n - 1 \in DOMAIN starts
    BY <2>1
  <2> QED
    BY <2>1, <2>2 DEF Increasing
<1>3. lower \in Nat /\ lower >= 1 /\ lower <= starts[n]
  BY <1>1, <1>2
<1> HIDE DEF lower
<1>4. PICK s \in T : \A m \in T : s <= m
  <2>1. T \in SUBSET Nat
    BY <1>1, <1>3
  <2>2. starts[n] \in T
    BY <1>1, <1>3
  <2> HIDE DEF T
  <2> QED
    BY <2>1, <2>2, LeastNumber
<1>5. ASSUME s > lower PROVE ~lines[s - 1].prefix
  <2> SUFFICES ASSUME lines[s - 1].prefix PROVE FALSE
    OBVIOUS
  <2>1. s \in Nat /\ s - 1 \in lower..starts[n] /\ ~(s <= s - 1)
    BY <1>1, <1>3, <1>4, <1>5
  <2>2. ASSUME NEW k \in (s - 1)..(starts[n] - 1) PROVE lines[k].prefix
    <3>1. k = s - 1 \/ k \in s..(starts[n] - 1)
      BY <1>1, <2>1
    <3> QED
      BY <1>4, <3>1
  <2>3. s - 1 \in T
    BY <2>1, <2>2
  <2> HIDE DEF T
  <2> QED
    BY <1>4, <2>1, <2>3
<1>6. \E x \in lower..starts[n] : Above(x) /\ (x > lower => ~lines[x - 1].prefix)
  BY <1>4, <1>5
<1>7. RegionStart(n) = CHOOSE x \in lower..starts[n] : Above(x) /\ (x > lower => ~lines[x - 1].prefix)
  BY DEF RegionStart, lower
<1>8. RegionStart(n) \in lower..starts[n] /\ Above(RegionStart(n))
  BY <1>6, <1>7
<1>9. RegionStart(n) \in 1..starts[n]
  BY <1>1, <1>3, <1>8
<1>10. n > 1 => starts[n - 1] < RegionStart(n)
  BY <1>2, <1>8, <1>9 DEF lower
<1> QED
  BY <1>8, <1>9, <1>10

\* While the regions of a program are determined and cut (code_chunks).
LEMMA PrefixesFacts ==
    ASSUME ChunkingInv, stage = "prefixes"
    PROVE  /\ kind = "code" /\ Len(lines) \in Nat /\ DOMAIN lines = 1..Len(lines)
           /\ lines \in Seq(CodeLine) /\ chunks \in Seq(Span)
           /\ starts \in Seq(1..Len(lines)) /\ Increasing(starts)
           /\ start \in Nat /\ start >= 1 /\ start <= Len(lines) + 1 /\ start \in Boundaries
           /\ i \in Nat /\ i >= 1 /\ (i <= Len(starts) => start = 1 /\ chunks = <<>>)
           /\ Reached = start /\ Ordered(chunks, start) /\ Kept(lines, chunks, start)
           /\ \A n \in DOMAIN chunks : chunks[n][1] \in {1} \cup ToSet(starts)
           /\ Aligned => \A n \in DOMAIN starts :
                /\ n >= i => Declares(starts[n])
                /\ \E d \in DOMAIN lines : PrefixOf(starts[n], d)
<1>1. ChunkingTypeOK /\ StageInv /\ CoverInv /\ RegionInv
  BY DEF ChunkingInv
<1>2. kind = "code"
  BY <1>1 DEF ChunkingTypeOK, StageInv
<1>3. /\ lines \in Seq(CodeLine) /\ Len(lines) \in Nat /\ DOMAIN lines = 1..Len(lines)
      /\ chunks \in Seq(Span) /\ i \in Nat /\ start \in Nat
  BY <1>1, <1>2, LineFacts
<1>4. /\ Increasing(starts) /\ start \in Boundaries /\ i >= 1
      /\ (i <= Len(starts) => start = 1 /\ chunks = <<>>)
      /\ \A n \in DOMAIN chunks : chunks[n][1] \in {1} \cup ToSet(starts)
      /\ Aligned => \A n \in DOMAIN starts :
           /\ n >= i => Declares(starts[n])
           /\ \E d \in DOMAIN lines : PrefixOf(starts[n], d)
  BY <1>1, <1>2 DEF RegionInv, Increasing
<1>5. starts \in Seq(1..Len(lines)) /\ start >= 1 /\ start <= Len(lines) + 1
  BY <1>1 DEF ChunkingTypeOK, CoverInv
<1>6. Reached = start
  BY <1>3, <1>5 DEF Reached
<1> QED
  BY <1>1, <1>2, <1>3, <1>4, <1>5, <1>6 DEF CoverInv

\* Moving the start of one region up keeps the regions apart (code_chunks).
LEMMA IncludePrefixesInv == ASSUME ChunkingInv, IncludePrefixes PROVE ChunkingInv'
<1> DEFINE s == RegionStart(i)
<1>1. /\ stage = "prefixes" /\ i <= Len(starts) /\ starts' = [starts EXCEPT ![i] = s] /\ i' = i + 1
      /\ UNCHANGED <<lines, kind, stage, start, size, fence, chunks>>
  BY DEF IncludePrefixes
<1>2. /\ kind = "code" /\ Len(lines) \in Nat /\ DOMAIN lines = 1..Len(lines)
      /\ starts \in Seq(1..Len(lines)) /\ Increasing(starts) /\ i \in Nat /\ i >= 1
      /\ start = 1 /\ chunks = <<>>
  BY <1>1, PrefixesFacts
<1>3. i \in DOMAIN starts /\ DOMAIN starts = 1..Len(starts) /\ Len(starts) \in Nat /\ starts[i] \in 1..Len(lines)
  BY <1>1, <1>2
<1>4. /\ s \in 1..starts[i] /\ (i > 1 => starts[i - 1] < s)
      /\ \A k \in s..(starts[i] - 1) : lines[k].prefix
  BY <1>2, <1>3, RegionStartFacts
<1> HIDE DEF s
<1>5. s \in 1..Len(lines) /\ s <= starts[i]
  BY <1>2, <1>3, <1>4
<1>6. /\ DOMAIN starts' = DOMAIN starts /\ starts'[i] = s
      /\ \A n \in DOMAIN starts : n # i => starts'[n] = starts[n]
  BY <1>1, <1>3
<1>7. starts' \in Seq(1..Len(lines)) /\ Len(starts') = Len(starts)
  <2>1. starts' \in [1..Len(starts) -> 1..Len(lines)]
    BY <1>1, <1>2, <1>3, <1>5
  <2> QED
    BY <1>3, <2>1, FunctionIsSeq
<1>8. \A n \in DOMAIN starts : starts[n] \in Nat
  BY <1>2
<1>9. ASSUME NEW m \in DOMAIN starts, NEW n \in DOMAIN starts, m < n PROVE starts'[m] < starts'[n]
  <2>0. starts[m] < starts[n] /\ starts[m] \in Nat /\ starts[n] \in Nat
    BY <1>2, <1>8, <1>9 DEF Increasing
  <2>1. CASE m = i
    <3>1. starts'[m] = s /\ starts'[n] = starts[n] /\ s \in Nat
      BY <1>3, <1>5, <1>6, <1>9, <2>1
    <3> QED
      BY <1>5, <2>0, <2>1, <3>1
  <2>2. CASE n = i
    <3>1. starts'[n] = s /\ starts'[m] = starts[m] /\ s \in Nat /\ i > 1 /\ i - 1 \in DOMAIN starts
      BY <1>3, <1>5, <1>6, <1>9, <2>2
    <3>2. starts[m] <= starts[i - 1]
      <4>1. CASE m = i - 1
        BY <2>0, <4>1
      <4>2. CASE m # i - 1
        <5>1. m < i - 1
          BY <1>3, <1>9, <2>2, <4>2
        <5>2. starts[m] < starts[i - 1]
          BY <1>2, <3>1, <5>1 DEF Increasing
        <5> QED
          BY <1>8, <3>1, <5>2
      <4> QED
        BY <4>1, <4>2
    <3>3. starts[i - 1] \in Nat /\ starts[i - 1] < s
      BY <1>4, <1>8, <3>1
    <3> QED
      BY <2>0, <3>1, <3>2, <3>3
  <2>3. CASE m # i /\ n # i
    BY <1>6, <2>0, <2>3
  <2> QED
    BY <2>1, <2>2, <2>3
<1>10. ASSUME Aligned, NEW n \in DOMAIN starts
       PROVE  /\ n >= i + 1 => Declares(starts'[n])
              /\ \E d \in DOMAIN lines : PrefixOf(starts'[n], d)
  <2>1. (n >= i => Declares(starts[n])) /\ \E d \in DOMAIN lines : PrefixOf(starts[n], d)
    BY <1>1, <1>10, PrefixesFacts
  <2>2. CASE n = i
    <3>1. Declares(starts[i])
      BY <1>2, <2>1, <2>2
    <3>2. PrefixOf(s, starts[i])
      BY <1>4, <1>5, <3>1 DEF PrefixOf
    <3>3. ~(n >= i + 1) /\ starts[i] \in DOMAIN lines
      BY <1>2, <1>3, <2>2
    <3> QED
      BY <1>6, <2>2, <3>2, <3>3
  <2>3. CASE n # i
    <3>1. starts'[n] = starts[n] /\ (n >= i + 1 => n >= i)
      BY <1>2, <1>3, <1>6, <2>3
    <3> QED
      BY <2>1, <3>1
  <2> QED
    BY <2>2, <2>3
<1>11. ChunkingTypeOK' /\ StageInv'
  <2>1. ChunkingTypeOK /\ StageInv
    BY DEF ChunkingInv
  <2>2. i' \in Nat /\ i' >= 1 /\ starts' \in Seq(1..Len(lines)) /\ Len(lines') = Len(lines)
    BY <1>1, <1>2, <1>7
  <2>3. ChunkingTypeOK'
    <3> USE <1>1
    <3> QED
      BY <2>1, <2>2 DEF ChunkingTypeOK
  <2> QED
    BY <1>1, <1>2, <2>1, <2>2, <2>3 DEF StageInv
<1>12. CoverInv'
  <2>1. CoverInv /\ Reached' = Reached
    BY <1>1 DEF ChunkingInv, Reached
  <2> QED
    BY <1>1, <2>1 DEF CoverInv
<1>13. RegionInv'
  <2>1. start' \in Boundaries' /\ i' >= 1 /\ start' = 1 /\ chunks' = <<>>
    BY <1>1, <1>2 DEF Boundaries
  <2>2. \A m, n \in DOMAIN starts' : m < n => starts'[m] < starts'[n]
    BY <1>6, <1>9
  <2>3. Aligned' => \A n \in DOMAIN starts' :
                      /\ n >= i' => Declares(starts[n])'
                      /\ \E d \in DOMAIN lines' : PrefixOf(starts[n], d)'
    <3>1. Aligned' <=> Aligned
      BY <1>1 DEF Aligned
    <3> QED
      BY <1>1, <1>6, <1>10, <3>1 DEF PrefixOf, Declares
  <2>4. \A n \in DOMAIN chunks' : chunks'[n][1] \in {1} \cup ToSet(starts')
    BY <2>1
  <2>5. stage' = "prefixes"
    BY <1>1
  <2> QED
    BY <2>1, <2>2, <2>3, <2>4, <2>5 DEF RegionInv
<1> QED
  BY <1>1, <1>2, <1>11, <1>12, <1>13, CodeKeeps DEF ChunkingInv

\* The regions between two boundaries become chunks, one after the other
\* (code_chunks).
LEMMA EmitRegionInv == ASSUME ChunkingInv, EmitRegion PROVE ChunkingInv'
<1> DEFINE L == Len(lines)
           later == {b \in Boundaries : b > start}
<1>1. stage = "prefixes" /\ i > Len(starts) /\ UNCHANGED <<lines, kind, i, size, fence, starts>>
  BY DEF EmitRegion
<1>2. /\ kind = "code" /\ L \in Nat /\ DOMAIN lines = 1..L /\ chunks \in Seq(Span)
      /\ starts \in Seq(1..L) /\ Increasing(starts) /\ i \in Nat /\ i >= 1
      /\ start \in Nat /\ start >= 1 /\ start <= L + 1 /\ start \in Boundaries
      /\ Reached = start /\ Ordered(chunks, start) /\ Kept(lines, chunks, start)
  BY <1>1, PrefixesFacts
<1>3. /\ \A n \in DOMAIN chunks : chunks[n][1] \in {1} \cup ToSet(starts)
      /\ Aligned => \A n \in DOMAIN starts :
           /\ n >= i => Declares(starts[n])
           /\ \E d \in DOMAIN lines : PrefixOf(starts[n], d)
  BY <1>1, PrefixesFacts
<1>4. Boundaries \subseteq 1..(L + 1) /\ L + 1 \in Boundaries
  <2>1. ToSet(starts) \subseteq 1..L
    BY <1>2 DEF ToSet
  <2> QED
    BY <1>2, <2>1 DEF Boundaries
<1>5. /\ stage' \in {"prefixes", "done"} /\ start' \in Nat /\ start' >= 1 /\ start' <= L + 1
      /\ start' \in Boundaries /\ chunks' \in Seq(Span)
      /\ Ordered(chunks', Reached') /\ Kept(lines, chunks', Reached')
      /\ \A n \in DOMAIN chunks' : chunks'[n][1] \in {1} \cup ToSet(starts)
  <2>1. CASE later = {}
    <3>1. stage' = "done" /\ chunks' = chunks /\ start' = start
      BY <2>1 DEF EmitRegion
    <3>2. start = L + 1
      BY <1>2, <1>4, <2>1
    <3>3. Reached' = L + 1
      BY <1>1, <3>1 DEF Reached
    <3> QED
      BY <1>2, <1>3, <3>1, <3>2, <3>3
  <2>2. CASE later # {}
    <3> DEFINE m == Min(later)
    <3>1. chunks' = Emit(chunks, start, m - 1) /\ start' = m /\ stage' = stage
      BY <1>2, <2>2 DEF EmitRegion
    <3>2. m \in later
      <4>1. later \in SUBSET Nat
        <5>1. 1..(L + 1) \subseteq Nat
          BY <1>2
        <5> QED
          BY <1>4, <5>1
      <4>2. \E k \in later : \A b \in later : k <= b
        <5> HIDE DEF later
        <5> QED
          BY <2>2, <4>1, LeastNumber
      <4> HIDE DEF later
      <4> QED
        BY <4>2 DEF Min
    <3> HIDE DEF m
    <3>3. m \in Boundaries /\ m > start /\ m \in Nat /\ m <= L + 1 /\ m >= 1
      BY <1>2, <1>4, <3>2
    <3>4. start \in 1..(L + 1) /\ m - 1 \in 0..L /\ start <= m - 1 + 1 /\ m - 1 + 1 = m
      BY <1>2, <3>3
    <3>5. /\ chunks' \in Seq(Span) /\ Ordered(chunks', m) /\ Kept(lines, chunks', m)
          /\ \A n \in DOMAIN chunks' : \/ n \in DOMAIN chunks /\ chunks'[n] = chunks[n]
                                       \/ chunks'[n] = <<start, m - 1>>
      BY <1>2, <3>1, <3>4, EmitFacts
    <3>6. Reached' = m
      <4>1. start' = m /\ stage' = "prefixes" /\ Len(lines') = L
        BY <1>1, <3>1
      <4>2. Reached' = IF m > L THEN L + 1 ELSE m
        BY <4>1 DEF Reached
      <4>3. m \in Nat /\ m <= L + 1 /\ L \in Nat
        BY <1>2, <3>3
      <4> HIDE DEF L
      <4>4. m > L => m = L + 1
        BY <4>3
      <4> QED
        BY <4>2, <4>4
    <3>7. start \in {1} \cup ToSet(starts)
      BY <1>2, <3>3 DEF Boundaries
    <3>8. \A n \in DOMAIN chunks' : chunks'[n][1] \in {1} \cup ToSet(starts)
      BY <1>3, <3>5, <3>7
    <3> QED
      BY <1>1, <3>1, <3>3, <3>5, <3>6, <3>8
  <2> QED
    BY <2>1, <2>2
<1>6. ChunkingTypeOK' /\ StageInv'
  <2>1. chunks' \in Seq((1..Len(lines)) \X (1..Len(lines)))
    BY <1>5 DEF Span
  <2>2. ChunkingTypeOK /\ StageInv
    BY DEF ChunkingInv
  <2>3. ChunkingTypeOK'
    BY <1>1, <1>5, <2>1, <2>2 DEF ChunkingTypeOK
  <2> QED
    BY <1>1, <1>2, <1>5, <2>2, <2>3 DEF StageInv
<1>7. CoverInv'
  BY <1>1, <1>5 DEF CoverInv
<1>8. RegionInv'
  <2>1. Aligned => \A n \in DOMAIN starts : \E d \in DOMAIN lines : PrefixOf(starts[n], d)
    BY <1>3
  <2>2. RegionsBeginAtFunctions'
    <3> SUFFICES ASSUME Aligned, NEW n \in DOMAIN chunks', chunks'[n][1] # 1
                 PROVE  \E d \in DOMAIN lines : PrefixOf(chunks'[n][1], d)
      BY <1>1 DEF RegionsBeginAtFunctions, Aligned, PrefixOf, Declares, ToSet
    <3>1. PICK m \in DOMAIN starts : chunks'[n][1] = starts[m]
      BY <1>5 DEF ToSet
    <3> QED
      BY <2>1, <3>1
  <2>3. start' \in Boundaries' /\ i' >= 1 /\ ~(i' <= Len(starts'))
    BY <1>1, <1>2, <1>5 DEF Boundaries
  <2>4. Aligned' => \A n \in DOMAIN starts' :
                      /\ n >= i' => Declares(starts[n])'
                      /\ \E d \in DOMAIN lines' : PrefixOf(starts[n], d)'
    BY <1>1, <1>3 DEF Aligned, PrefixOf, Declares
  <2>5. \A m, n \in DOMAIN starts' : m < n => starts'[m] < starts'[n]
    BY <1>1, <1>2 DEF Increasing
  <2>6. \A n \in DOMAIN chunks' : chunks'[n][1] \in {1} \cup ToSet(starts')
    BY <1>1, <1>5
  <2>7. stage' # "code" /\ stage' # "fallback"
    BY <1>5
  <2> QED
    BY <2>2, <2>3, <2>4, <2>5, <2>6, <2>7 DEF RegionInv
<1> QED
  BY <1>1, <1>2, <1>6, <1>7, <1>8, CodeKeeps DEF ChunkingInv

-----------------------------------------------------------------------------
(* From the first line to the last. *)

\* A call that has not looked at anything yet, or has nothing to look at.
Fresh ==
    /\ kind \in {"document", "code"} /\ lines \in Seq(IF kind = "document" THEN DocLine ELSE CodeLine)
    /\ stage = kind \/ (stage = "done" /\ lines = <<>>)
    /\ i = 1 /\ start = 1 /\ size = 0 /\ fence = NoFence /\ starts = <<>> /\ chunks = <<>>

\* No block has been collected when document_chunks or code_chunks is called.
LEMMA FreshInv == Fresh => ChunkingInv
<1> SUFFICES ASSUME Fresh PROVE ChunkingInv
  OBVIOUS
<1>1. /\ stage \in {"document", "code", "done"} /\ kind \in {"document", "code"}
      /\ stage # "done" => stage = kind
      /\ stage = "done" => lines = <<>>
      /\ i = 1 /\ start = 1 /\ size = 0 /\ fence = NoFence /\ starts = <<>> /\ chunks = <<>>
  BY DEF Fresh
<1>2. lines \in Seq(IF kind = "document" THEN DocLine ELSE CodeLine)
  BY DEF Fresh
<1>3. Len(lines) \in Nat /\ DOMAIN lines = 1..Len(lines) /\ (stage = "done" => Len(lines) = 0)
  BY <1>1, <1>2
<1>4. DOMAIN chunks = {} /\ DOMAIN starts = {}
  BY <1>1
<1>5. ChunkingTypeOK
  <2>1. starts \in Seq(1..Len(lines)) /\ chunks \in Seq((1..Len(lines)) \X (1..Len(lines)))
    BY <1>1
  <2>2. fence \in {"", "tick", "tilde"} \X Nat
    BY <1>1 DEF NoFence
  <2> QED
    BY <1>1, <1>2, <2>1, <2>2 DEF ChunkingTypeOK
<1>6. StageInv
  BY <1>1 DEF StageInv
<1>7. CoverInv
  <2>1. Reached = 1
    BY <1>1, <1>3 DEF Reached
  <2>2. Ordered(chunks, Reached)
    BY <1>4 DEF Ordered
  <2>3. \A k \in DOMAIN lines : ~(k < 1)
    BY <1>3
  <2>4. Kept(lines, chunks, Reached)
    BY <2>1, <2>3 DEF Kept
  <2> QED
    BY <1>1, <1>3, <2>2, <2>4 DEF CoverInv
<1>8. OpenFences(lines)[1] = NoFence
  BY <1>3, OpenFencesStep
<1>9. FenceInv
  BY <1>1, <1>3, <1>4, <1>8 DEF FenceInv, OpenBefore
<1>10. SectionInv
  <2>1. Chars(lines, 1, 0) = 0
    <3>1. [k \in 1..(0 + 1 - 1) |-> lines[1 + k - 1].chars] = <<>>
      OBVIOUS
    <3> QED
      BY <3>1, TotalEmpty DEF Chars
  <2>2. size = Chars(lines, start, i - 1)
    BY <1>1, <2>1
  <2>3. Small(lines, start, i - 1)
    BY <1>1, <1>3 DEF Small
  <2>4. \A k \in DOMAIN lines : ~(k < i)
    BY <1>1, <1>3
  <2>5. stage = "done" => DOMAIN lines = {}
    BY <1>1
  <2> QED
    BY <1>4, <2>2, <2>3, <2>4, <2>5 DEF SectionInv
<1>11. RegionInv
  <2>1. stage = "done" => RegionsBeginAtFunctions
    BY <1>4 DEF RegionsBeginAtFunctions, ToSet
  <2> QED
    BY <1>1, <2>1 DEF RegionInv
<1> QED
  BY <1>5, <1>6, <1>7, <1>9, <1>10, <1>11 DEF ChunkingInv

\* The same of a call that begins in this step (the calls in build_index).
LEMMA FreshInvNext == Fresh' => ChunkingInv'
BY FreshInv, PTL

\* Every step of document_chunks and code_chunks keeps the invariant.
LEMMA ChunkingNextInv == ASSUME ChunkingInv, ChunkingNext PROVE ChunkingInv'
BY ReadLineInv, LastBlockInv, FindDeclarationsInv, FallbackRegionInv, IncludePrefixesInv, EmitRegionInv
   DEF ChunkingNext

\* The invariant speaks of nothing but the locals of a call (document_chunks,
\* code_chunks).
LEMMA ChunkingStutter == ASSUME ChunkingInv, UNCHANGED chunkingVars PROVE ChunkingInv'
BY DEF chunkingVars, ChunkingInv, ChunkingTypeOK, StageInv, CoverInv, FenceInv, SectionInv, RegionInv,
       Reached, Ordered, Kept, Within, OpenBefore, Unfenced, Small, BeginsChunk, Aligned, Boundaries,
       Declares, PrefixOf, RegionsBeginAtFunctions, Program

\* The invariant covers what the chunks of a finished call promise
\* (document_chunks, code_chunks).
LEMMA ChunkingInvImplies ==
    ChunkingInv => /\ ChunkingTypeOK /\ NothingLost /\ FencesWhole /\ SectionsPacked
                   /\ RegionsBeginAtFunctions
<1> SUFFICES ASSUME ChunkingInv PROVE /\ ChunkingTypeOK /\ NothingLost /\ FencesWhole /\ SectionsPacked
                                      /\ RegionsBeginAtFunctions
  OBVIOUS
<1>0. ChunkingTypeOK /\ StageInv /\ CoverInv /\ FenceInv /\ SectionInv /\ RegionInv
  BY DEF ChunkingInv
<1>1. Len(lines) \in Nat /\ DOMAIN lines = 1..Len(lines)
  BY <1>0, LineFacts
<1>2. \A c \in ToSet(chunks) : \E n \in DOMAIN chunks : c = chunks[n]
  BY DEF ToSet
<1>3. \A n \in DOMAIN chunks : chunks[n] \in ToSet(chunks)
  BY DEF ToSet
<1>4. NothingLost
  <2> SUFFICES ASSUME stage = "done"
               PROVE  /\ \A m, n \in DOMAIN chunks : m < n => chunks[m][2] < chunks[n][1]
                      /\ \A k \in DOMAIN lines : ~lines[k].blank => \E c \in ToSet(chunks) : Within(k, c)
    BY DEF NothingLost
  <2>1. Reached = Len(lines) + 1
    BY DEF Reached
  <2>2. \A k \in DOMAIN lines : k < Reached
    BY <1>1, <2>1
  <2>3. Ordered(chunks, Reached) /\ Kept(lines, chunks, Reached)
    BY <1>0 DEF CoverInv
  <2> QED
    BY <1>3, <2>2, <2>3 DEF Ordered, Kept
<1>5. FencesWhole
  <2> SUFFICES ASSUME kind = "document", NEW n \in DOMAIN chunks
               PROVE  /\ OpenBefore(chunks[n][1]) = NoFence
                      /\ OpenBefore(chunks[n][2] + 1) = NoFence \/ chunks[n][2] = Len(lines)
    BY <1>2 DEF FencesWhole, Document
  <2>1. Unfenced(lines, chunks[n][1], chunks[n][2])
    BY <1>0 DEF FenceInv
  <2> QED
    BY <2>1 DEF Unfenced, OpenBefore
<1>6. SectionsPacked
  <2> SUFFICES ASSUME kind = "document", stage = "done", NEW k \in DOMAIN lines, OpenFences(lines)[k] = NoFence
               PROVE  /\ lines[k].heading => \E c \in ToSet(chunks) : c[1] = k
                      /\ lines[k].blank => \A c \in ToSet(chunks) :
                           Within(k, c) /\ c[1] < k => Chars(lines, c[1], k - 1) < TargetChars
    BY DEF SectionsPacked, Document, OpenBefore
  <2>1. BeginsChunk(lines, chunks, k) /\ \A n \in DOMAIN chunks : Small(lines, chunks[n][1], chunks[n][2])
    BY <1>0 DEF SectionInv
  <2>2. lines[k].heading => \E c \in ToSet(chunks) : c[1] = k
    BY <1>3, <2>1 DEF BeginsChunk
  <2>3. ASSUME lines[k].blank, NEW n \in DOMAIN chunks, Within(k, chunks[n]), chunks[n][1] < k
        PROVE  Chars(lines, chunks[n][1], k - 1) < TargetChars
    BY <2>1, <2>3 DEF Small, Within
  <2> QED
    BY <1>2, <2>2, <2>3
<1>7. RegionsBeginAtFunctions
  BY <1>0 DEF RegionInv, RegionsBeginAtFunctions, Program
<1> QED
  BY <1>0, <1>4, <1>5, <1>6, <1>7

\* document_chunks and code_chunks, called on any source, keep their invariant.
THEOREM ChunkingInvariant == ChunkingSpec => []ChunkingInv
<1>1. ChunkingInit => ChunkingInv
  BY ChunkingAssumption, FreshInv DEF ChunkingInit, Fresh
<1>2. ChunkingInv /\ [ChunkingNext]_chunkingVars => ChunkingInv'
  BY ChunkingNextInv, ChunkingStutter
<1> QED
  BY <1>1, <1>2, PTL DEF ChunkingSpec

\* Called on any source, document_chunks and code_chunks lose no text and keep their
\* chunks apart.
THEOREM ChunksLoseNothing == ChunkingSpec => []NothingLost
BY ChunkingInvariant, ChunkingInvImplies, PTL

-----------------------------------------------------------------------------
(* Lists of files. *)

\* What a file appended to a list adds to it (the lists that build_index fills).
LEMMA AppendSet ==
    ASSUME NEW S, NEW s \in Seq(S), NEW x \in S
    PROVE  /\ Append(s, x) \in Seq(S) /\ Len(s) \in Nat /\ Len(Append(s, x)) = Len(s) + 1
           /\ DOMAIN s = 1..Len(s) /\ DOMAIN Append(s, x) = 1..(Len(s) + 1)
           /\ \A n \in DOMAIN s : n \in DOMAIN Append(s, x) /\ Append(s, x)[n] = s[n]
           /\ Append(s, x)[Len(s) + 1] = x
           /\ \A n \in DOMAIN Append(s, x) : n \in DOMAIN s \/ n = Len(s) + 1
           /\ ToSet(Append(s, x)) = ToSet(s) \cup {x}
<1> DEFINE r == Append(s, x)
<1>1. /\ r \in Seq(S) /\ Len(s) \in Nat /\ Len(r) = Len(s) + 1 /\ r[Len(s) + 1] = x
      /\ \A n \in 1..Len(s) : r[n] = s[n]
  BY AppendProperties
<1> HIDE DEF r
<1>2. DOMAIN s = 1..Len(s) /\ DOMAIN r = 1..(Len(s) + 1)
  BY <1>1
<1>3. \A n \in DOMAIN r : n \in DOMAIN s \/ n = Len(s) + 1
  BY <1>1, <1>2
<1>4. \A n \in DOMAIN s : n \in DOMAIN r /\ r[n] = s[n]
  BY <1>1, <1>2
<1>5. Len(s) + 1 \in DOMAIN r
  BY <1>1, <1>2
<1>6. ToSet(r) = ToSet(s) \cup {x}
  BY <1>1, <1>3, <1>4, <1>5 DEF ToSet
<1> QED
  BY <1>1, <1>2, <1>3, <1>4, <1>6 DEF r

\* What is left of a list when its first file is taken (_iter_files).
LEMMA TailSet ==
    ASSUME NEW S, NEW s \in Seq(S), s # <<>>
    PROVE  /\ Head(s) \in S /\ Tail(s) \in Seq(S) /\ ToSet(s) = {Head(s)} \cup ToSet(Tail(s))
           /\ 1 \in DOMAIN s /\ Head(s) = s[1]
           /\ \A n \in DOMAIN Tail(s) : n \in Nat /\ n >= 1 /\ n + 1 \in DOMAIN s /\ Tail(s)[n] = s[n + 1]
<1> DEFINE r == Tail(s)
<1>0. Len(s) \in Nat /\ Len(s) > 0 /\ DOMAIN s = 1..Len(s)
  BY EmptySeq
<1>1. /\ r \in Seq(S) /\ Len(r) = Len(s) - 1 /\ Head(s) = s[1] /\ 1 \in DOMAIN s
      /\ \A n \in 1..Len(r) : r[n] = s[n + 1]
  BY <1>0, HeadTailProperties
<1> HIDE DEF r
<1>2. DOMAIN r = 1..(Len(s) - 1)
  BY <1>1
<1>3. \A n \in DOMAIN r : n \in Nat /\ n >= 1 /\ n + 1 \in DOMAIN s /\ r[n] = s[n + 1]
  BY <1>0, <1>1, <1>2
<1>4. ASSUME NEW n \in DOMAIN s PROVE n = 1 \/ s[n] \in ToSet(r)
  <2> SUFFICES ASSUME n # 1 PROVE s[n] \in ToSet(r)
    OBVIOUS
  <2>1. n - 1 \in DOMAIN r /\ n - 1 + 1 = n
    BY <1>0, <1>2
  <2> QED
    BY <1>3, <2>1 DEF ToSet
<1>5. ToSet(s) = {Head(s)} \cup ToSet(r)
  <2>1. ToSet(s) \subseteq {Head(s)} \cup ToSet(r)
    <3>1. \A n \in DOMAIN s : s[n] = Head(s) \/ s[n] \in ToSet(r)
      BY <1>1, <1>4
    <3> QED
      BY <3>1 DEF ToSet
  <2>2. ToSet(r) \subseteq ToSet(s)
    BY <1>3 DEF ToSet
  <2>3. Head(s) \in ToSet(s)
    BY <1>1 DEF ToSet
  <2> QED
    BY <2>1, <2>2, <2>3
<1>6. Head(s) \in S
  BY <1>1
<1> QED
  BY <1>1, <1>3, <1>5, <1>6 DEF r

\* The files of two lists one after the other (_iter_files).
LEMMA ConcatSet ==
    ASSUME NEW S, NEW a \in Seq(S), NEW b \in Seq(S)
    PROVE  a \o b \in Seq(S) /\ ToSet(a \o b) = ToSet(a) \cup ToSet(b)
<1> DEFINE r == a \o b
<1>1. /\ r \in Seq(S) /\ Len(r) = Len(a) + Len(b) /\ Len(a) \in Nat /\ Len(b) \in Nat
      /\ \A n \in 1..(Len(a) + Len(b)) : r[n] = IF n <= Len(a) THEN a[n] ELSE b[n - Len(a)]
  BY ConcatProperties
<1> HIDE DEF r
<1>2. DOMAIN r = 1..(Len(a) + Len(b)) /\ DOMAIN a = 1..Len(a) /\ DOMAIN b = 1..Len(b)
  BY <1>1
<1>3. ASSUME NEW n \in DOMAIN r PROVE r[n] \in ToSet(a) \cup ToSet(b)
  <2>1. CASE n <= Len(a)
    BY <1>1, <1>2, <2>1 DEF ToSet
  <2>2. CASE ~(n <= Len(a))
    <3>1. n - Len(a) \in DOMAIN b /\ r[n] = b[n - Len(a)]
      BY <1>1, <1>2, <2>2
    <3> QED
      BY <3>1 DEF ToSet
  <2> QED
    BY <2>1, <2>2
<1>4. ASSUME NEW n \in DOMAIN a PROVE a[n] \in ToSet(r)
  <2>1. n \in DOMAIN r /\ r[n] = a[n]
    BY <1>1, <1>2
  <2> QED
    BY <2>1 DEF ToSet
<1>5. ASSUME NEW n \in DOMAIN b PROVE b[n] \in ToSet(r)
  <2>1. n + Len(a) \in DOMAIN r /\ ~(n + Len(a) <= Len(a)) /\ n + Len(a) - Len(a) = n
    BY <1>1, <1>2
  <2>2. r[n + Len(a)] = b[n]
    BY <1>1, <1>2, <2>1
  <2> QED
    BY <2>1, <2>2 DEF ToSet
<1>6. ToSet(r) \subseteq ToSet(a) \cup ToSet(b)
  BY <1>3 DEF ToSet
<1>7. ToSet(a) \subseteq ToSet(r) /\ ToSet(b) \subseteq ToSet(r)
  BY <1>4, <1>5 DEF ToSet
<1> QED
  BY <1>1, <1>6, <1>7 DEF r

\* A list of directories becomes one of lists of entries of its group (_iter_files).
LEMMA BelowFacts ==
    ASSUME NEW dirs \in Seq(Seq(Paths)), NEW g \in {"project", "tutorial", "pdf"}
    PROVE  Below(dirs, g) \in Seq(Seq(Entry))
<1>1. Len(dirs) \in Nat /\ DOMAIN dirs = 1..Len(dirs) /\ \A n \in DOMAIN dirs : dirs[n] \in Seq(Paths)
  OBVIOUS
<1>2. ASSUME NEW paths \in Seq(Paths) PROVE Entries(paths, g) \in Seq(Entry)
  <2>1. Len(paths) \in Nat /\ DOMAIN paths = 1..Len(paths) /\ \A k \in DOMAIN paths : paths[k] \in Paths
    OBVIOUS
  <2>2. Entries(paths, g) \in [1..Len(paths) -> Entry]
    BY <2>1 DEF Entries, Entry
  <2> QED
    BY <2>1, <2>2, FunctionIsSeq
<1>3. Below(dirs, g) \in [1..Len(dirs) -> Seq(Entry)]
  BY <1>1, <1>2 DEF Below
<1> QED
  BY <1>1, <1>3, FunctionIsSeq

\* os.walk names entries (_iter_files).
LEMMA WalkFacts ==
    ASSUME NEW c \in Corpora
    PROVE  /\ Walk(c) \in Seq(Seq(Entry)) /\ Candidates(c) \subseteq Entry
           /\ c.files \in [Paths -> FileContents] /\ c.edits \in [Paths -> SUBSET FileContents]
<1>1. c \in Corpus
  BY ScanAssumption
<1>2. /\ c.projects \in Seq(Seq(Paths)) /\ c.tutorial \in Seq(Seq(Paths)) /\ c.pdfs \in Seq(Seq(Paths))
      /\ c.files \in [Paths -> FileContents] /\ c.edits \in [Paths -> SUBSET FileContents]
  BY <1>1 DEF Corpus
<1> DEFINE A == Below(c.projects, "project")
           B == Below(c.tutorial, "tutorial")
           C == Below(c.pdfs, "pdf")
<1>3. A \in Seq(Seq(Entry)) /\ B \in Seq(Seq(Entry)) /\ C \in Seq(Seq(Entry))
  BY <1>2, BelowFacts
<1>4. Walk(c) = (A \o B) \o C
  BY DEF Walk
<1> HIDE DEF A, B, C
<1>5. A \o B \in Seq(Seq(Entry))
  BY <1>3, ConcatSet
<1>6. (A \o B) \o C \in Seq(Seq(Entry))
  BY <1>3, <1>5, ConcatSet
<1>7. Walk(c) \in Seq(Seq(Entry))
  BY <1>4, <1>6
<1>8. ASSUME NEW n \in DOMAIN Walk(c) PROVE ToSet(Walk(c)[n]) \subseteq Entry
  <2>1. Walk(c)[n] \in Seq(Entry)
    BY <1>7
  <2> QED
    BY <2>1 DEF ToSet
<1>9. Candidates(c) \subseteq Entry
  BY <1>8 DEF Candidates
<1> QED
  BY <1>2, <1>7, <1>9

\* The elements of s at the positions S, each once.
PicksFrom(r, s, S) ==
    /\ \A e : e \in ToSet(r) <=> \E k \in S : s[k] = e
    /\ \A m, n \in DOMAIN r : \E k, l \in S : r[m] = s[k] /\ r[n] = s[l] /\ (k = l => m = n)

\* What a directory holds is picked from its names (_walk_files).
LEMMA PickedSet ==
    ASSUME NEW E, NEW s \in Seq(E), NEW S \in SUBSET (1..Len(s))
    PROVE  Picked(s, S) \in Seq(E) /\ PicksFrom(Picked(s, S), s, S)
<1> DEFINE at == Ascending(S)
           r == Picked(s, S)
<1>1. Len(s) \in Nat /\ r \in Seq(E)
  BY PickedFacts
<1>2. at \in Seq(S) /\ Increasing(at) /\ Enumerates(at, S) /\ Len(at) = Cardinality(S)
  BY <1>1, AscendingFacts
<1>3. r = [n \in DOMAIN at |-> s[at[n]]]
  BY DEF Picked
<1>4. \A k \in S : \E n \in DOMAIN at : at[n] = k
  BY <1>1, AscendingOnto
<1> HIDE DEF at
<1>5. DOMAIN at = 1..Len(at) /\ Len(at) \in Nat /\ \A n \in DOMAIN at : at[n] \in S
  BY <1>2
<1>6. \A m, n \in DOMAIN at : at[m] = at[n] => m = n
  <2>0. \A k \in S : k \in Nat
    BY <1>1
  <2>1. \A n \in DOMAIN at : at[n] \in Nat
    BY <1>5, <2>0
  <2>2. \A n \in DOMAIN at : n \in Nat
    BY <1>5
  <2> QED
    BY <1>2, <2>1, <2>2 DEF Increasing
<1>7. DOMAIN r = DOMAIN at /\ \A n \in DOMAIN at : r[n] = s[at[n]]
  BY <1>3
<1> HIDE DEF r
<1>8. ASSUME NEW e PROVE e \in ToSet(r) <=> \E k \in S : s[k] = e
  <2>1. ASSUME e \in ToSet(r) PROVE \E k \in S : s[k] = e
    <3>1. PICK n \in DOMAIN at : r[n] = e
      BY <1>7, <2>1 DEF ToSet
    <3>2. at[n] \in S /\ s[at[n]] = e
      BY <1>5, <1>7, <3>1
    <3> QED
      BY <3>2
  <2>2. ASSUME NEW k \in S, s[k] = e PROVE e \in ToSet(r)
    <3>1. PICK n \in DOMAIN at : at[n] = k
      BY <1>4
    <3>2. n \in DOMAIN r /\ r[n] = e
      BY <1>7, <2>2, <3>1
    <3> QED
      BY <3>2 DEF ToSet
  <2> QED
    BY <2>1, <2>2
<1>9. ASSUME NEW m \in DOMAIN r, NEW n \in DOMAIN r
      PROVE  \E k, l \in S : r[m] = s[k] /\ r[n] = s[l] /\ (k = l => m = n)
  <2>1. PICK k \in S : k = at[m]
    BY <1>5, <1>7
  <2>2. PICK l \in S : l = at[n]
    BY <1>5, <1>7
  <2>3. r[m] = s[k] /\ r[n] = s[l] /\ (k = l => m = n)
    BY <1>6, <1>7, <2>1, <2>2
  <2> QED
    BY <2>3
<1>10. PicksFrom(r, s, S)
  BY <1>8, <1>9 DEF PicksFrom
<1> QED
  BY <1>1, <1>10 DEF r

-----------------------------------------------------------------------------
(* What a step leaves alone. *)

\* The files are the same unless somebody edits one (Edit).
LEMMA FilesFrame == ASSUME FilesInv, UNCHANGED <<corpus, touched, disk, edits>> PROVE FilesInv'
BY DEF FilesInv, Held, Versions

\* What the walk has named is the same until it comes to the next directory
\* (_walk_files).
LEMMA DiscoveryFrame ==
    ASSUME DiscoveryInv, UNCHANGED <<corpus, touched, walked>>, Taken' = Taken PROVE DiscoveryInv'
<1>1. NamedSoFar' = NamedSoFar /\ \A p : Held(p)' = Held(p)
  BY DEF NamedSoFar, Held, Versions
<1>2. (walked \in 0..Len(Walk(corpus)))'
  BY DEF DiscoveryInv
<1> QED
  BY <1>1, <1>2 DEF DiscoveryInv

\* The list is the same until the next file is taken (_iter_files).
LEMMA ListingFrame ==
    ASSUME ListingInv, DiscoveryInv, UNCHANGED <<corpus, touched, walked, listing, seen, discovered>>
    PROVE  ListingInv' /\ DiscoveryInv'
<1>1. ListingInv'
  BY DEF ListingInv, PdfsIn, Twice
<1>2. Taken' = Taken
  BY DEF Taken
<1> QED
  BY <1>1, <1>2, DiscoveryFrame

\* The accounts of PDFs rest on these variables alone (build_index).
LEMMA PdfFrame == ASSUME PdfInv, UNCHANGED <<parsed, failed, seen, discovered, current, index>> PROVE PdfInv'
BY DEF PdfInv

\* Recorded chunks stay told apart while nothing is recorded (build_index).
LEMMA IndexFrame ==
    ASSUME IndexInv, UNCHANGED <<index, discovered, current, page>>,
           part'.number = part.number, chunks' = chunks \/ part.number = 1, Built' => Built
    PROVE  IndexInv'
<1>1. ASSUME NEW n \in DOMAIN index PROVE (Recorded(index[n]) /\ Before(index[n]))'
  <2>1. Recorded(index[n]) /\ Before(index[n])
    BY DEF IndexInv
  <2>2. Recorded(index[n])'
    BY <2>1 DEF Recorded
  <2>3. part.number = 1 => 1..(part.number - 1) = {}
    OBVIOUS
  <2>4. Before(index[n])'
    BY <2>1, <2>3 DEF Before
  <2> QED
    BY <2>2, <2>4
<1>2. (\A m, n \in DOMAIN index : Same(index[m], index[n]) => m = n)'
  BY DEF IndexInv, Same
<1>3. (Built => \A n \in DOMAIN index : index[n].id = Identity(index[n]))'
  BY DEF IndexInv, Identity
<1> QED
  BY <1>1, <1>2, <1>3 DEF IndexInv

-----------------------------------------------------------------------------
(* The steps of the scan. *)

\* A PDF that was seen before is passed over (_iter_files).
LEMMA SkipSeenInv == ASSUME ScanInv, SkipSeen PROVE ScanInv'
<1>1. /\ listing # <<>> /\ Head(listing).group = "pdf" /\ Head(listing).path \in seen
      /\ listing' = Tail(listing) /\ status = "scanning" /\ status' = status
  BY DEF SkipSeen, AtPdf, NextFile, Scanning
<1>2. UNCHANGED <<chunkingVars, corpus, touched, disk, edits, walked, seen, current, pages, page, part, index,
                  discovered, parsed, failed>>
  BY DEF SkipSeen, history, files, accounts
<1>3. ChunkingInv /\ FilesInv /\ ListingInv /\ DiscoveryInv /\ CurrentInv /\ PdfInv /\ IndexInv
  BY DEF ScanInv
<1>4. /\ Tail(listing) \in Seq(Entry) /\ ToSet(listing) = {Head(listing)} \cup ToSet(Tail(listing))
      /\ \A n \in DOMAIN Tail(listing) : n \in Nat /\ n + 1 \in DOMAIN listing /\ Tail(listing)[n] = listing[n + 1]
  BY <1>1, <1>3, TailSet DEF ListingInv
<1>5. ListingInv'
  <2>2. \A m, n \in DOMAIN listing' : Twice(listing[m], listing[n])' => m = n
    BY <1>1, <1>3, <1>4 DEF ListingInv, Twice
  <2>3. \A m \in DOMAIN listing' : \A n \in DOMAIN discovered' : ~Twice(listing[m], discovered[n])'
    BY <1>1, <1>2, <1>3, <1>4 DEF ListingInv, Twice
  <2>5. (seen = PdfsIn(discovered))'
    BY <1>2, <1>3 DEF ListingInv, PdfsIn
  <2>6. listing' \in Seq(Entry) /\ discovered' \in Seq(Entry)
    BY <1>1, <1>2, <1>3, <1>4 DEF ListingInv
  <2> QED
    BY <2>2, <2>3, <2>5, <2>6 DEF ListingInv
<1>8. DiscoveryInv'
  <2>1. PICK e \in ToSet(discovered) : e.group = "pdf" /\ e.path = Head(listing).path
    BY <1>1, <1>3 DEF ListingInv, PdfsIn
  <2>2. e \in Entry /\ Head(listing) \in Entry
    BY <1>1, <1>3, <2>1, TailSet DEF ListingInv, ToSet
  <2>3. Head(listing) \in ToSet(discovered)
    BY <1>1, <2>1, <2>2 DEF Entry
  <2>4. Taken' = Taken
    BY <1>1, <1>2, <1>4, <2>3 DEF Taken
  <2> QED
    BY <1>2, <1>3, <2>4, DiscoveryFrame
<1>6. CurrentInv'
  BY <1>1, <1>2, <1>3 DEF CurrentInv, chunkingVars
<1>7. IndexInv'
  BY <1>1, <1>2, <1>3, IndexFrame DEF chunkingVars, Built
<1> QED
  BY <1>2, <1>3, <1>5, <1>6, <1>7, <1>8, ChunkingStutter, FilesFrame, PdfFrame DEF ScanInv

\* An exception leaves everything as it was (build_index).
LEMMA RaiseInv == ASSUME ScanInv, Raise PROVE ScanInv'
<1>1. ChunkingInv /\ FilesInv /\ ListingInv /\ DiscoveryInv /\ CurrentInv /\ PdfInv /\ IndexInv
  BY DEF ScanInv
<1>2. /\ status' = "raised"
      /\ UNCHANGED <<chunkingVars, corpus, touched, disk, edits, walked, listing, seen, current, pages, page, part, index,
                     discovered, parsed, failed>>
  BY DEF Raise, history, files, accounts
<1>3. CurrentInv'
  BY <1>1, <1>2 DEF CurrentInv, chunkingVars
<1>4. IndexInv'
  BY <1>1, <1>2, IndexFrame DEF chunkingVars, Built
<1> QED
  BY <1>1, <1>2, <1>3, <1>4, ChunkingStutter, FilesFrame, ListingFrame, PdfFrame DEF ScanInv

\* Chunking the source at hand changes nothing else (_chunk_code_lines,
\* _chunk_doc_text).
LEMMA ChunkSourceInv == ASSUME ScanInv, ChunkSource PROVE ScanInv'
<1>1. ChunkingInv /\ FilesInv /\ ListingInv /\ DiscoveryInv /\ CurrentInv /\ PdfInv /\ IndexInv
  BY DEF ScanInv
<1>2. /\ status = "scanning" /\ current # NoFile /\ ChunkingNext
      /\ UNCHANGED <<corpus, touched, disk, edits, walked, listing, seen, current, pages, page, part, index,
                     discovered, parsed, failed, status>>
  BY DEF ChunkSource, Reading, Scanning, scanVars
<1>3. stage # "done"
  BY <1>2 DEF ChunkingNext, ReadLine, LastBlock, FindDeclarations, FallbackRegion, IncludePrefixes, EmitRegion
<1>4. part.number = 1 /\ page \in Nat /\ (current.group = "pdf" => page # 0)
  BY <1>1, <1>3 DEF CurrentInv
<1>5. ChunkingInv'
  BY <1>1, <1>2, ChunkingNextInv
<1>6. part'.number \in 1..(Len(chunks') + 1)
  <2>1. ChunkingTypeOK'
    BY <1>5 DEF ChunkingInv
  <2>2. chunks' \in Seq((1..Len(lines')) \X (1..Len(lines')))
    BY <2>1 DEF ChunkingTypeOK
  <2>3. Len(chunks') \in Nat
    BY <2>2
  <2> QED
    BY <1>2, <1>4, <2>3
<1>7. CurrentInv'
  BY <1>1, <1>2, <1>4, <1>6 DEF CurrentInv
<1>8. IndexInv'
  BY <1>1, <1>2, <1>4, IndexFrame DEF Built
<1> QED
  BY <1>1, <1>2, <1>5, <1>7, <1>8, FilesFrame, ListingFrame, PdfFrame DEF ScanInv

\* Expanding an include changes the chunk at hand, not its place (expand_includes).
LEMMA ExpandIncludeInv == ASSUME ScanInv, ExpandInclude PROVE ScanInv'
<1>1. ChunkingInv /\ FilesInv /\ ListingInv /\ DiscoveryInv /\ CurrentInv /\ PdfInv /\ IndexInv
  BY DEF ScanInv
<1>2. /\ status = "scanning" /\ current # NoFile
      /\ UNCHANGED <<chunkingVars, corpus, touched, disk, edits, walked, listing, seen, current, pages, page, index,
                     discovered, parsed, failed, status>>
  BY DEF ExpandInclude, Chunked, Reading, Scanning, history, files, accounts
<1>3. \E k, t, r : part' = [part EXCEPT !.line = k, !.text = t, !.refs = r]
  BY DEF ExpandInclude
<1>4. DOMAIN part = {"number", "line", "text", "refs"}
  BY <1>1 DEF CurrentInv, FirstPart
<1>5. part'.number = part.number /\ DOMAIN part' = DOMAIN part
  BY <1>3, <1>4
<1>6. CurrentInv'
  BY <1>1, <1>2, <1>5 DEF CurrentInv, chunkingVars
<1>7. IndexInv'
  BY <1>1, <1>2, <1>5, IndexFrame DEF chunkingVars, Built
<1> QED
  BY <1>1, <1>2, <1>6, <1>7, ChunkingStutter, FilesFrame, ListingFrame, PdfFrame DEF ScanInv

\* Whatever somebody saves is a version of the file (Edit).
LEMMA EditInv == ASSUME ScanInv, Edit PROVE ScanInv'
<1>1. ChunkingInv /\ FilesInv /\ ListingInv /\ DiscoveryInv /\ CurrentInv /\ PdfInv /\ IndexInv
  BY DEF ScanInv
<1>2. /\ edits < MaxEdits /\ edits' = edits + 1
      /\ UNCHANGED <<chunkingVars, corpus, walked, listing, seen, current, pages, page, part, index,
                     discovered, parsed, failed, status>>
  BY DEF Edit, accounts
<1>3. PICK p \in Paths : \E f \in corpus.edits[p] : disk' = [disk EXCEPT ![p] = f] /\ touched' = touched \cup {p}
  BY DEF Edit
<1>7. \A q : Held(q) \subseteq Held(q)' /\ (q # p => Held(q)' = Held(q)) /\ Held(p)' = Versions(p)
  BY <1>2, <1>3 DEF Held, Versions, VersionsOf
<1>4. FilesInv'
  <2>1. ASSUME NEW q \in Paths PROVE disk'[q] \in Held(q)'
    <3>1. CASE q = p
      BY <1>1, <1>3, <1>7, <3>1 DEF FilesInv, Versions, VersionsOf
    <3>2. CASE q # p
      BY <1>1, <1>3, <1>7, <3>2 DEF FilesInv
    <3> QED
      BY <3>1, <3>2
  <2>2. edits' \in 0..MaxEdits /\ DOMAIN disk' = Paths
    BY <1>1, <1>2, <1>3, ScanAssumption DEF FilesInv
  <2> QED
    BY <1>1, <1>2, <2>1, <2>2 DEF FilesInv
<1>8. ListingInv'
  BY <1>1, <1>2 DEF ListingInv, PdfsIn, Twice
<1>9. DiscoveryInv'
  <2>1. NamedSoFar' = NamedSoFar /\ Taken' = Taken /\ (walked \in 0..Len(Walk(corpus)))'
    BY <1>1, <1>2 DEF NamedSoFar, Taken, DiscoveryInv
  <2>2. \A q : Held(q) # {}
    BY DEF Held, Versions, VersionsOf
  <2>3. \A q : Held(q)' = {NotThere} => Held(q) = {NotThere}
    BY <1>7, <2>2
  <2> QED
    BY <1>1, <1>7, <2>1, <2>3 DEF DiscoveryInv
<1>5. CurrentInv'
  BY <1>1, <1>2 DEF CurrentInv, chunkingVars
<1>6. IndexInv'
  BY <1>1, <1>2, IndexFrame DEF chunkingVars, Built
<1> QED
  BY <1>1, <1>2, <1>4, <1>5, <1>6, <1>8, <1>9, ChunkingStutter, PdfFrame DEF ScanInv

\* The next page is cut from its first line (build_index, _chunk_doc_text).
LEMMA BeginPageInv == ASSUME ScanInv, BeginPage PROVE ScanInv'
<1>1. ChunkingInv /\ FilesInv /\ ListingInv /\ DiscoveryInv /\ CurrentInv /\ PdfInv /\ IndexInv
  BY DEF ScanInv
<1>2. /\ status = "scanning" /\ current # NoFile /\ pages # <<>>
      /\ page' = Head(pages).number /\ pages' = Tail(pages) /\ part' = FirstPart
      /\ UNCHANGED <<corpus, touched, disk, edits, walked, listing, seen, current, index, discovered, parsed, failed, status>>
  BY DEF BeginPage, Emptied, Reading, Scanning, history, files, accounts
<1>3. StartChunker(Head(pages).lines, "document")
  BY DEF BeginPage
<1>4. /\ Head(pages) \in Page /\ Tail(pages) \in Seq(Page) /\ 1 \in DOMAIN pages /\ Head(pages) = pages[1]
      /\ \A n \in DOMAIN Tail(pages) : n \in Nat /\ n >= 1 /\ n + 1 \in DOMAIN pages /\ Tail(pages)[n] = pages[n + 1]
  <2>1. pages \in Seq(Page)
    BY <1>1 DEF CurrentInv
  <2> QED
    BY <1>2, <2>1, TailSet
<1>5. ChunkingInv'
  <2>1. Head(pages).lines \in Seq(DocLine)
    BY <1>4 DEF Page
  <2>2. Fresh'
    BY <1>3, <2>1 DEF StartChunker, Chunker, Fresh
  <2> QED
    BY <2>2, FreshInvNext
<1>6. page \in Nat /\ page' \in Nat /\ page < page' /\ page' # 0
  <2>1. Head(pages).number \in Nat /\ Head(pages).number > page /\ page \in Nat
    BY <1>1, <1>4 DEF CurrentInv, Page
  <2> QED
    BY <1>2, <2>1
<1>7. /\ current.group = "pdf" /\ current \in Entry /\ current \in ToSet(discovered)
      /\ \A n \in DOMAIN discovered : discovered[n].path = current.path => discovered[n] = current
  BY <1>1, <1>2 DEF CurrentInv
<1>8. CurrentInv'
  <2>1. \A n \in DOMAIN pages' : pages'[n].number > page'
    <3> SUFFICES ASSUME NEW n \in DOMAIN Tail(pages) PROVE Tail(pages)[n].number > pages[1].number
      BY <1>2, <1>4
    <3>1. n + 1 \in DOMAIN pages /\ 1 < n + 1 /\ Tail(pages)[n] = pages[n + 1]
      BY <1>4
    <3>2. pages[1].number < pages[n + 1].number /\ pages[1] \in Page /\ pages[n + 1] \in Page
      BY <1>1, <1>4, <3>1 DEF CurrentInv
    <3> QED
      BY <3>1, <3>2 DEF Page
  <2>2. \A m, n \in DOMAIN pages' : m < n => pages'[m].number < pages'[n].number
    <3> SUFFICES ASSUME NEW m \in DOMAIN Tail(pages), NEW n \in DOMAIN Tail(pages), m < n
                 PROVE  Tail(pages)[m].number < Tail(pages)[n].number
      BY <1>2
    <3>1. m + 1 \in DOMAIN pages /\ n + 1 \in DOMAIN pages /\ m + 1 < n + 1
      BY <1>4
    <3>2. pages[m + 1].number < pages[n + 1].number
      BY <1>1, <3>1 DEF CurrentInv
    <3> QED
      BY <1>4, <3>2
  <2>3. part'.number \in 1..(Len(chunks') + 1) /\ part'.number = 1 /\ DOMAIN part' = DOMAIN FirstPart
    <3>1. chunks' = <<>>
      BY <1>3 DEF StartChunker, Chunker
    <3> QED
      BY <1>2, <3>1 DEF FirstPart
  <2>4. current' = current /\ status' = "scanning" /\ current' # NoFile /\ discovered' = discovered
        /\ pages' \in Seq(Page) /\ current'.group = "pdf"
    BY <1>2, <1>4, <1>7
  <2> QED
    BY <1>6, <1>7, <2>1, <2>2, <2>3, <2>4 DEF CurrentInv
<1>9. IndexInv'
  <2>1. ASSUME NEW n \in DOMAIN index PROVE (Recorded(index[n]) /\ Before(index[n]))'
    <3>1. Recorded(index[n]) /\ Before(index[n])
      BY <1>1 DEF IndexInv
    <3>2. Recorded(index[n])'
      BY <1>2, <3>1 DEF Recorded
    <3>3. index[n].page \in Nat
      BY <3>1 DEF Recorded
    <3>4. ASSUME index[n].path = current.path
          PROVE  index[n].page <= page' /\ index[n].page # page'
      <4>1. index[n].page <= page
        BY <1>2, <3>1, <3>4 DEF Before
      <4> QED
        BY <1>6, <3>3, <4>1
    <3>5. Before(index[n])'
      BY <1>2, <3>4 DEF Before
    <3> QED
      BY <3>2, <3>5
  <2>2. (\A m, n \in DOMAIN index : Same(index[m], index[n]) => m = n)'
    BY <1>1, <1>2 DEF IndexInv, Same
  <2>3. ~Built'
    BY <1>2 DEF Built
  <2> QED
    BY <1>1, <1>2, <2>1, <2>2, <2>3 DEF IndexInv
<1> QED
  BY <1>1, <1>2, <1>5, <1>8, <1>9, FilesFrame, ListingFrame, PdfFrame DEF ScanInv

\* After the last chunk of a file the next one is looked for (build_index).
LEMMA EndFileInv == ASSUME ScanInv, EndFile PROVE ScanInv'
<1>1. ChunkingInv /\ FilesInv /\ ListingInv /\ DiscoveryInv /\ CurrentInv /\ PdfInv /\ IndexInv
  BY DEF ScanInv
<1>2. /\ status = "scanning" /\ pages = <<>> /\ current' = NoFile /\ page' = 0 /\ part' = FirstPart
      /\ Chunker(<<>>, "document", "done")
      /\ UNCHANGED <<corpus, touched, disk, edits, walked, listing, seen, pages, index, discovered, parsed, failed, status>>
  BY DEF EndFile, Emptied, Reading, Scanning, history, files, accounts
<1>3. ChunkingInv'
  <2>1. Fresh'
    BY <1>2 DEF Chunker, Fresh
  <2> QED
    BY <2>1, FreshInvNext
<1>4. stage' = "done" /\ chunks' = <<>>
  BY <1>2 DEF Chunker
<1>5. CurrentInv'
  <2>1. part'.number \in 1..(Len(chunks') + 1) /\ DOMAIN part' = DOMAIN FirstPart
    BY <1>2, <1>4 DEF FirstPart
  <2>2. pages' = <<>> /\ pages' \in Seq(Page) /\ DOMAIN pages' = {}
    BY <1>2
  <2>3. current'.group = ""
    BY <1>2 DEF NoFile
  <2> QED
    BY <1>2, <1>4, <2>1, <2>2, <2>3 DEF CurrentInv
<1>6. PdfInv'
  <2>1. current'.group # "pdf"
    BY <1>2 DEF NoFile
  <2> QED
    BY <1>1, <1>2, <2>1 DEF PdfInv
<1>7. IndexInv'
  <2>1. ASSUME NEW n \in DOMAIN index PROVE (Recorded(index[n]) /\ Before(index[n]))'
    BY <1>1, <1>2 DEF IndexInv, Recorded, Before
  <2>2. (\A m, n \in DOMAIN index : Same(index[m], index[n]) => m = n)' /\ ~Built'
    BY <1>1, <1>2 DEF IndexInv, Same, Built
  <2> QED
    BY <1>1, <1>2, <2>1, <2>2 DEF IndexInv
<1> QED
  BY <1>1, <1>2, <1>3, <1>5, <1>6, <1>7, FilesFrame, ListingFrame DEF ScanInv

\* The names that chunks get follow from where they begin (build_index).
LEMMA IdentifyInv == ASSUME ScanInv, Identify PROVE ScanInv'
<1>1. ChunkingInv /\ FilesInv /\ ListingInv /\ DiscoveryInv /\ CurrentInv /\ PdfInv /\ IndexInv
  BY DEF ScanInv
<1>2. /\ current = NoFile /\ listing = <<>> /\ walked = Len(Walk(corpus)) /\ status' = "built"
      /\ index' = [k \in DOMAIN index |-> [index[k] EXCEPT !.id = Identity(index[k])]]
      /\ UNCHANGED <<chunkingVars, corpus, touched, disk, edits, walked, listing, seen, current, pages, page, part,
                     discovered, parsed, failed>>
  BY DEF Identify, history, files, accounts
<1>3. ASSUME NEW k \in DOMAIN index
      PROVE  /\ DOMAIN index'[k] = ChunkFields /\ index'[k].id = Identity(index[k])
             /\ \A x \in ChunkFields \ {"id"} : index'[k][x] = index[k][x]
  <2>1. DOMAIN index[k] = ChunkFields /\ "id" \in ChunkFields
    BY <1>1 DEF IndexInv, Recorded, ChunkFields
  <2> QED
    BY <1>2, <2>1
<1>4. ASSUME NEW k \in DOMAIN index
      PROVE  /\ index'[k].path = index[k].path /\ index'[k].group = index[k].group
             /\ index'[k].page = index[k].page /\ index'[k].first = index[k].first
             /\ index'[k].last = index[k].last /\ index'[k].text = index[k].text
  BY <1>3 DEF ChunkFields
<1>5. DOMAIN index' = DOMAIN index
  BY <1>2
<1>6. CurrentInv'
  BY <1>1, <1>2 DEF CurrentInv, chunkingVars
<1>7. PdfInv'
  <2>1. \A n \in DOMAIN index' : index'[n].group = "pdf" => index'[n].path \in parsed
    BY <1>1, <1>4, <1>5 DEF PdfInv
  <2> QED
    BY <1>1, <1>2, <2>1 DEF PdfInv
<1>8. IndexInv'
  <2>1. index' \in Seq(ToSet(index'))
    <3>1. index \in Seq(ToSet(index))
      BY <1>1 DEF IndexInv
    <3>2. Len(index) \in Nat /\ DOMAIN index = 1..Len(index)
      BY <3>1
    <3>3. index' \in [1..Len(index) -> ToSet(index')]
      BY <1>2, <3>2 DEF ToSet
    <3> QED
      BY <3>2, <3>3, FunctionIsSeq
  <2>2. ASSUME NEW n \in DOMAIN index PROVE (Recorded(index[n]) /\ Before(index[n]))'
    <3>1. Recorded(index[n])
      BY <1>1 DEF IndexInv
    <3>2. Recorded(index[n])'
      BY <1>2, <1>3, <1>4, <3>1 DEF Recorded
    <3>3. Before(index[n])'
      BY <1>2 DEF Before
    <3> QED
      BY <3>2, <3>3
  <2>3. (\A m, n \in DOMAIN index : Same(index[m], index[n]) => m = n)'
    <3> SUFFICES ASSUME NEW m \in DOMAIN index, NEW n \in DOMAIN index, Same(index[m], index[n])' PROVE m = n
      BY <1>5
    <3>1. Same(index[m], index[n])
      BY <1>4 DEF Same
    <3> QED
      BY <1>1, <3>1 DEF IndexInv
  <2>4. \A n \in DOMAIN index' : index'[n].id = Identity(index'[n])
    BY <1>3, <1>4, <1>5 DEF Identity
  <2> QED
    BY <1>5, <2>1, <2>2, <2>3, <2>4 DEF IndexInv
<1> QED
  BY <1>1, <1>2, <1>6, <1>7, <1>8, ChunkingStutter, FilesFrame, ListingFrame DEF ScanInv

\* A recorded chunk begins below those recorded before it on its page (build_index).
LEMMA RecordChunkInv == ASSUME ScanInv, RecordChunk PROVE ScanInv'
<1>1. ChunkingInv /\ FilesInv /\ ListingInv /\ DiscoveryInv /\ CurrentInv /\ PdfInv /\ IndexInv
  BY DEF ScanInv
<1> DEFINE N == part.number
           first == chunks[N][1]
           last == chunks[N][2]
           new == [id |-> <<"chunk", Len(index)>>, path |-> current.path, group |-> current.group,
                   page |-> page, first |-> first, last |-> last, text |-> PartText, refs |-> part.refs]
<1>2. /\ status = "scanning" /\ current # NoFile /\ stage = "done" /\ N <= Len(chunks)
      /\ index' = Append(index, new) /\ part' = [FirstPart EXCEPT !.number = N + 1]
      /\ UNCHANGED <<chunkingVars, corpus, touched, disk, edits, walked, listing, seen, current, pages, page,
                     discovered, parsed, failed, status>>
  BY DEF RecordChunk, Chunked, Reading, Scanning, history, files, accounts
<1>3. /\ current \in Entry /\ current \in ToSet(discovered) /\ page \in Nat /\ N \in 1..(Len(chunks) + 1)
  BY <1>1, <1>2 DEF CurrentInv
<1>4. chunks \in Seq(Span) /\ Len(lines) \in Nat /\ Ordered(chunks, Reached)
  BY <1>1, LineFacts DEF ChunkingInv, CoverInv
<1>5. DOMAIN chunks = 1..Len(chunks) /\ Len(chunks) \in Nat /\ N \in Nat /\ N >= 1 /\ N \in DOMAIN chunks
  BY <1>2, <1>3, <1>4
<1>6. /\ \A n \in DOMAIN chunks : /\ chunks[n][1] \in Nat /\ chunks[n][2] \in Nat /\ 1 <= chunks[n][1]
                                  /\ chunks[n][1] <= chunks[n][2]
      /\ \A m, n \in DOMAIN chunks : m < n => chunks[m][2] < chunks[n][1]
  <2>1. \A n \in DOMAIN chunks : chunks[n] \in Span
    BY <1>4
  <2>2. \A n \in DOMAIN chunks : chunks[n][1] \in Nat /\ chunks[n][2] \in Nat
    BY <1>4, <2>1 DEF Span
  <2> QED
    BY <1>4, <2>2 DEF Ordered
<1>8. /\ DOMAIN new = ChunkFields /\ new.path = current.path /\ new.group = current.group
      /\ new.page = page /\ new.first = first /\ new.last = last
  BY DEF ChunkFields
<1>9. \A m \in DOMAIN chunks : m < N => chunks[m][1] < first
  BY <1>5, <1>6
<1>10. first \in Nat /\ last \in Nat /\ first \in 1..last
  BY <1>5, <1>6
<1> HIDE DEF first, last
<1>11. Recorded(new)
  <2>1. \E k \in DOMAIN discovered : discovered[k] = [path |-> new.path, group |-> new.group]
    <3>1. PICK k \in DOMAIN discovered : discovered[k] = current
      BY <1>3 DEF ToSet
    <3>2. current = [path |-> current.path, group |-> current.group]
      BY <1>3 DEF Entry
    <3> QED
      BY <1>8, <3>1, <3>2
  <2> HIDE DEF new
  <2> QED
    BY <1>3, <1>8, <1>10, <2>1 DEF Recorded
<1> HIDE DEF new
<1>12. ASSUME NEW n \in DOMAIN index PROVE ~Same(index[n], new)
  <2> SUFFICES ASSUME Same(index[n], new) PROVE FALSE
    OBVIOUS
  <2>1. Recorded(index[n]) /\ Before(index[n])
    BY <1>1 DEF IndexInv
  <2>2. index[n].path = current.path /\ index[n].page = page /\ index[n].first = first
    BY <1>8 DEF Same
  <2>4. PICK m \in 1..(N - 1) : index[n].first = chunks[m][1]
    BY <1>2, <2>1, <2>2 DEF Before
  <2>5. m \in DOMAIN chunks /\ m < N
    BY <1>5
  <2> QED
    BY <1>6, <1>9, <1>10, <2>2, <2>4, <2>5
<1>13. part'.number = N + 1 /\ DOMAIN part' = DOMAIN FirstPart
  BY <1>2 DEF FirstPart
<1>14. CurrentInv'
  <2>1. part'.number \in 1..(Len(chunks') + 1) /\ stage' = "done"
    BY <1>2, <1>5, <1>13 DEF chunkingVars
  <2> QED
    BY <1>1, <1>2, <1>13, <2>1 DEF CurrentInv, chunkingVars
<1> DEFINE S == ToSet(index) \cup {new}
<1>15. /\ index' \in Seq(S) /\ ToSet(index') = S /\ Len(index) \in Nat
       /\ \A n \in DOMAIN index : n \in DOMAIN index' /\ index'[n] = index[n]
       /\ index'[Len(index) + 1] = new
       /\ \A n \in DOMAIN index' : n \in DOMAIN index \/ n = Len(index) + 1
  <2>1. index \in Seq(ToSet(index)) /\ ToSet(index) \subseteq S /\ new \in S
    BY <1>1 DEF IndexInv
  <2> HIDE DEF S
  <2>2. index \in Seq(S)
    BY <2>1, SeqMonotonic
  <2>3. ToSet(index') = ToSet(index) \cup {new}
    BY <1>2, <2>1, <2>2, AppendSet
  <2> QED
    BY <1>2, <2>1, <2>2, <2>3, AppendSet DEF S
<1> HIDE DEF S
<1>16. PdfInv'
  <2>1. new.group = "pdf" => new.path \in parsed
    BY <1>1, <1>8 DEF PdfInv
  <2>2. \A n \in DOMAIN index' : index'[n].group = "pdf" => index'[n].path \in parsed
    BY <1>1, <1>15, <2>1 DEF PdfInv
  <2> QED
    BY <1>1, <1>2, <2>2 DEF PdfInv
<1>17. IndexInv'
  <2>1. ASSUME NEW n \in DOMAIN index' PROVE (Recorded(index[n]) /\ Before(index[n]))'
    <3>1. CASE n \in DOMAIN index
      <4>1. Recorded(index[n]) /\ Before(index[n]) /\ index'[n] = index[n]
        BY <1>1, <1>15, <3>1 DEF IndexInv
      <4>2. Recorded(index[n])'
        BY <1>2, <4>1 DEF Recorded
      <4>3. 1..(N - 1) \subseteq 1..(part'.number - 1)
        BY <1>5, <1>13
      <4>4. Before(index[n])'
        BY <1>2, <4>1, <4>3 DEF Before, chunkingVars
      <4> QED
        BY <4>2, <4>4
    <3>2. CASE n = Len(index) + 1
      <4>1. index'[n] = new
        BY <1>15, <3>2
      <4>2. Recorded(index[n])'
        BY <1>2, <1>11, <4>1 DEF Recorded
      <4>3. N \in 1..(part'.number - 1) /\ new.first = chunks[N][1]
        BY <1>5, <1>8, <1>13 DEF first
      <4>4. new.page <= page
        BY <1>3, <1>8
      <4>5. Before(index[n])'
        BY <1>2, <4>1, <4>3, <4>4 DEF Before, chunkingVars
      <4> QED
        BY <4>2, <4>5
    <3> QED
      BY <1>15, <3>1, <3>2
  <2>2. ASSUME NEW m \in DOMAIN index', NEW n \in DOMAIN index', Same(index'[m], index'[n]) PROVE m = n
    <3>1. CASE m \in DOMAIN index /\ n \in DOMAIN index
      <4>1. index'[m] = index[m] /\ index'[n] = index[n]
        BY <1>15, <3>1
      <4>2. Same(index[m], index[n])
        BY <2>2, <4>1
      <4> QED
        BY <1>1, <3>1, <4>2 DEF IndexInv
    <3>2. CASE m \in DOMAIN index /\ n = Len(index) + 1
      BY <1>12, <1>15, <2>2, <3>2
    <3>3. CASE m = Len(index) + 1 /\ n \in DOMAIN index
      <4>1. Same(index'[n], index'[m])
        BY <2>2 DEF Same
      <4> QED
        BY <1>12, <1>15, <3>3, <4>1
    <3> QED
      BY <1>15, <3>1, <3>2, <3>3
  <2>3. ~Built'
    BY <1>2 DEF Built
  <2> QED
    BY <1>15, <2>1, <2>2, <2>3 DEF IndexInv
<1> QED
  BY <1>1, <1>2, <1>14, <1>16, <1>17, ChunkingStutter, FilesFrame, ListingFrame DEF ScanInv

\* The walk begins with nothing named or discovered (_iter_files).
LEMMA ListingStart ==
    ASSUME NEW c \in Corpora, corpus = c, walked = 0, listing = <<>>, seen = {}, discovered = <<>>
    PROVE  ListingInv /\ DiscoveryInv
<1>1. listing \in Seq(Entry) /\ DOMAIN listing = {} /\ discovered \in Seq(Entry) /\ DOMAIN discovered = {}
  OBVIOUS
<1>2. ToSet(discovered) = {} /\ ToSet(listing) = {} /\ NamedSoFar = {}
  BY <1>1 DEF ToSet, NamedSoFar
<1>3. ListingInv
  BY <1>1, <1>2 DEF ListingInv, PdfsIn
<1>4. walked \in 0..Len(Walk(corpus))
  <2>1. Len(Walk(corpus)) \in Nat
    BY WalkFacts
  <2> QED
    BY <2>1
<1> QED
  BY <1>2, <1>3, <1>4 DEF DiscoveryInv, Taken

\* So it does when a scan begins again (_iter_files).
LEMMA ListingStartNext ==
    (corpus \in Corpora /\ walked = 0 /\ listing = <<>> /\ seen = {} /\ discovered = <<>>)'
      => ListingInv' /\ DiscoveryInv'
<1>1. corpus \in Corpora /\ walked = 0 /\ listing = <<>> /\ seen = {} /\ discovered = <<>>
        => ListingInv /\ DiscoveryInv
  BY ListingStart
<1> QED
  BY <1>1, PTL

\* Scanning again starts as the first scan did (build_index).
LEMMA RescanInv == ASSUME ScanInv, Rescan PROVE ScanInv'
<1>1. ChunkingInv /\ FilesInv /\ ListingInv /\ DiscoveryInv /\ CurrentInv /\ PdfInv /\ IndexInv
  BY DEF ScanInv
<1>2. /\ status = "built" /\ walked' = 0 /\ seen' = {} /\ index' = <<>>
      /\ discovered' = <<>> /\ parsed' = {} /\ failed' = <<>> /\ status' = "scanning"
      /\ UNCHANGED <<chunkingVars, corpus, touched, disk, edits, listing, current, pages, page, part>>
  BY DEF Rescan, files
<1>3. current = NoFile /\ listing = <<>>
  BY <1>1, <1>2 DEF CurrentInv
<1>4. corpus \in Corpora
  BY <1>1 DEF FilesInv
<1>5. ListingInv' /\ DiscoveryInv'
  BY <1>2, <1>3, <1>4, ListingStartNext
<1>6. CurrentInv'
  BY <1>1, <1>2, <1>3 DEF CurrentInv, chunkingVars
<1>7. PdfInv'
  <2>1. IsFiniteSet({}) /\ Cardinality({}) = 0
    BY FS_EmptySet
  <2>2. failed' \in Seq(Paths) /\ Len(failed') = 0 /\ ToSet(failed') = {}
    BY <1>2 DEF ToSet
  <2>3. {k \in DOMAIN discovered' : discovered'[k].group = "pdf"} = {} /\ DOMAIN index' = {}
    BY <1>2
  <2>4. current'.group # "pdf"
    BY <1>2, <1>3 DEF NoFile
  <2> QED
    BY <1>2, <2>1, <2>2, <2>3, <2>4 DEF PdfInv
<1>8. IndexInv'
  <2>1. index' \in Seq(ToSet(index')) /\ DOMAIN index' = {}
    BY <1>2
  <2> QED
    BY <2>1 DEF IndexInv
<1> QED
  BY <1>1, <1>2, <1>5, <1>6, <1>7, <1>8, ChunkingStutter, FilesFrame DEF ScanInv

\* What the walk has named is in the corpus (_iter_files).
LEMMA TakenFacts ==
    ASSUME FilesInv, DiscoveryInv
    PROVE  Taken \subseteq Candidates(corpus) /\ NamedSoFar \subseteq Candidates(corpus)
<1>1. corpus \in Corpora /\ walked \in 0..Len(Walk(corpus))
  BY DEF FilesInv, DiscoveryInv
<1>2. Walk(corpus) \in Seq(Seq(Entry))
  BY <1>1, WalkFacts
<1>3. 1..walked \subseteq DOMAIN Walk(corpus)
  BY <1>1, <1>2
<1>4. NamedSoFar \subseteq Candidates(corpus)
  BY <1>3 DEF NamedSoFar, Candidates
<1> QED
  BY <1>4 DEF DiscoveryInv

\* Taking a file from the list adds it to the discovered ones (build_index).
LEMMA TakeFile ==
    ASSUME ScanInv, NextFile, listing' = Tail(listing), discovered' = Append(discovered, Head(listing)),
           UNCHANGED <<corpus, touched, walked>>,
           IF Head(listing).group = "pdf"
           THEN Head(listing).path \notin seen /\ seen' = seen \cup {Head(listing).path}
           ELSE seen' = seen
    PROVE  /\ ListingInv' /\ DiscoveryInv' /\ Head(listing) \in Entry /\ Head(listing) \in Candidates(corpus)
           /\ ToSet(discovered') = ToSet(discovered) \cup {Head(listing)}
           /\ DOMAIN discovered \subseteq DOMAIN discovered'
           /\ \A n \in DOMAIN discovered : discovered'[n] = discovered[n]
           /\ LET D == {k \in DOMAIN discovered : discovered[k].group = "pdf"}
                  E == {k \in DOMAIN discovered' : discovered'[k].group = "pdf"}
              IN  IsFiniteSet(D) /\ IF Head(listing).group = "pdf"
                                    THEN Cardinality(E) = Cardinality(D) + 1 ELSE E = D
           /\ \A n \in DOMAIN discovered : discovered[n].path # Head(listing).path
           /\ \A n \in DOMAIN discovered' : discovered'[n].path = Head(listing).path => discovered'[n] = Head(listing)
<1> DEFINE e == Head(listing)
           rest == Tail(listing)
           L == Len(discovered) + 1
<1>1. /\ listing # <<>> /\ listing \in Seq(Entry) /\ discovered \in Seq(Entry)
      /\ seen = PdfsIn(discovered) /\ DiscoveryInv /\ Taken \subseteq Candidates(corpus)
  BY TakenFacts DEF ScanInv, ListingInv, NextFile
<1>2. /\ e \in Entry /\ rest \in Seq(Entry) /\ ToSet(listing) = {e} \cup ToSet(rest)
      /\ 1 \in DOMAIN listing /\ e = listing[1]
      /\ \A n \in DOMAIN rest : n \in Nat /\ n >= 1 /\ n + 1 \in DOMAIN listing /\ rest[n] = listing[n + 1]
  BY <1>1, TailSet
<1> HIDE DEF e, rest
<1>3. listing' = rest /\ discovered' = Append(discovered, e)
  BY DEF e, rest
<1>4. /\ discovered' \in Seq(Entry) /\ Len(discovered) \in Nat /\ L \in DOMAIN discovered'
      /\ DOMAIN discovered = 1..Len(discovered)
      /\ \A n \in DOMAIN discovered : n \in DOMAIN discovered' /\ discovered'[n] = discovered[n]
      /\ discovered'[L] = e /\ \A n \in DOMAIN discovered' : n \in DOMAIN discovered \/ n = L
      /\ ToSet(discovered') = ToSet(discovered) \cup {e}
  <2>1. /\ discovered' \in Seq(Entry) /\ Len(discovered) \in Nat
        /\ DOMAIN discovered = 1..Len(discovered) /\ DOMAIN discovered' = 1..(Len(discovered) + 1)
        /\ \A n \in DOMAIN discovered : n \in DOMAIN discovered' /\ discovered'[n] = discovered[n]
        /\ discovered'[Len(discovered) + 1] = e
        /\ \A n \in DOMAIN discovered' : n \in DOMAIN discovered \/ n = Len(discovered) + 1
        /\ ToSet(discovered') = ToSet(discovered) \cup {e}
    BY <1>1, <1>2, <1>3, AppendSet
  <2>2. L \in DOMAIN discovered'
    BY <2>1
  <2> QED
    BY <2>1, <2>2
<1>5. L \notin DOMAIN discovered
  BY <1>4
<1> HIDE DEF L
<1>6. DiscoveryInv'
  <2>1. Taken' = Taken
    BY <1>2, <1>3, <1>4 DEF Taken
  <2> QED
    BY <1>1, <2>1, DiscoveryFrame
<1>7. PdfsIn(discovered)' = IF e.group = "pdf" THEN {e.path} \cup PdfsIn(discovered) ELSE PdfsIn(discovered)
  BY <1>4 DEF PdfsIn
<1>8. IF e.group = "pdf" THEN e.path \notin seen /\ seen' = seen \cup {e.path} ELSE seen' = seen
  BY DEF e
<1>9. ListingInv'
  <2>1. (seen = PdfsIn(discovered))'
    BY <1>1, <1>7, <1>8
  <2>4. (\A m, n \in DOMAIN listing : Twice(listing[m], listing[n]) => m = n)'
    <3> SUFFICES ASSUME NEW m \in DOMAIN rest, NEW n \in DOMAIN rest, Twice(rest[m], rest[n]) PROVE m = n
      BY <1>3 DEF Twice
    <3>1. m + 1 = n + 1
      BY <1>2 DEF ScanInv, ListingInv
    <3> QED
      BY <1>2, <3>1
  <2>5. ASSUME NEW m \in DOMAIN rest, NEW n \in DOMAIN discovered' PROVE ~Twice(rest[m], discovered'[n])
    <3>1. m + 1 \in DOMAIN listing /\ rest[m] = listing[m + 1] /\ m + 1 # 1
      BY <1>2
    <3>2. CASE n \in DOMAIN discovered
      BY <1>4, <3>1, <3>2 DEF ScanInv, ListingInv
    <3>3. CASE n = L
      <4>1. ~Twice(listing[m + 1], listing[1])
        BY <1>2, <3>1 DEF ScanInv, ListingInv
      <4> QED
        BY <1>2, <1>4, <3>1, <3>3, <4>1
    <3> QED
      BY <1>4, <3>2, <3>3
  <2>6. (\A m \in DOMAIN listing : \A n \in DOMAIN discovered : ~Twice(listing[m], discovered[n]))'
    BY <1>3, <2>5 DEF Twice
  <2>7. listing' \in Seq(Entry) /\ discovered' \in Seq(Entry)
    BY <1>2, <1>3, <1>4
  <2> QED
    BY <2>1, <2>4, <2>6, <2>7 DEF ListingInv
<1> DEFINE D == {k \in DOMAIN discovered : discovered[k].group = "pdf"}
           E == {k \in DOMAIN discovered' : discovered'[k].group = "pdf"}
<1>10. IsFiniteSet(D)
  <2>1. IsFiniteSet(1..Len(discovered))
    BY <1>4, FS_Interval
  <2>2. D \subseteq 1..Len(discovered)
    BY <1>4
  <2> QED
    BY <2>1, <2>2, FS_Subset
<1>11. IF e.group = "pdf" THEN Cardinality(E) = Cardinality(D) + 1 ELSE E = D
  <2>1. E = (IF e.group = "pdf" THEN D \cup {L} ELSE D) /\ L \notin D
    BY <1>4, <1>5
  <2> HIDE DEF D, E
  <2> QED
    BY <1>10, <2>1, FS_AddElement
<1>12. ASSUME NEW n \in DOMAIN discovered PROVE discovered[n].path # e.path
  <2>1. ~Twice(listing[1], discovered[n])
    BY <1>2 DEF ScanInv, ListingInv
  <2>2. discovered[n].path = e.path => e.group = "pdf" /\ discovered[n].group = "pdf"
    BY <1>2, <2>1 DEF Twice
  <2>3. discovered[n].group = "pdf" => discovered[n].path \in PdfsIn(discovered)
    BY DEF PdfsIn, ToSet
  <2> QED
    BY <1>1, <1>8, <2>2, <2>3
<1>13. e \in Candidates(corpus) /\ DOMAIN discovered \subseteq DOMAIN discovered'
  BY <1>1, <1>2, <1>4 DEF Taken
<1>14. \A n \in DOMAIN discovered' : discovered'[n].path = e.path => discovered'[n] = e
  BY <1>4, <1>12
<1> QED
  BY <1>2, <1>4, <1>6, <1>9, <1>10, <1>11, <1>12, <1>13, <1>14 DEF e

\* No chunk of a file is recorded before the file is read (build_index).
LEMMA IndexOfOthers ==
    ASSUME IndexInv, UNCHANGED index, DOMAIN discovered \subseteq DOMAIN discovered',
           \A n \in DOMAIN discovered : discovered'[n] = discovered[n],
           current' # NoFile => \A n \in DOMAIN discovered : discovered[n].path # current'.path,
           ~Built'
    PROVE  IndexInv'
<1>1. ASSUME NEW n \in DOMAIN index PROVE (Recorded(index[n]) /\ Before(index[n]))'
  <2>1. Recorded(index[n])
    BY DEF IndexInv
  <2>2. PICK k \in DOMAIN discovered : discovered[k] = [path |-> index[n].path, group |-> index[n].group]
    BY <2>1 DEF Recorded
  <2>3. Recorded(index[n])'
    BY <2>1, <2>2 DEF Recorded
  <2>4. ~(current' # NoFile /\ index[n].path = current'.path)
    BY <2>2
  <2>5. Before(index[n])'
    BY <2>4 DEF Before
  <2> QED
    BY <2>3, <2>5
<1>2. (\A m, n \in DOMAIN index : Same(index[m], index[n]) => m = n)'
  BY DEF IndexInv, Same
<1> QED
  BY <1>1, <1>2 DEF IndexInv

\* No file is at hand, or one that has been listed (build_index).
LEMMA EntryFacts == ASSUME NEW e \in Entry PROVE e.path \in Paths /\ e # NoFile
<1>1. e.path \in Paths /\ e.group # ""
  BY DEF Entry
<1>2. NoFile.group = ""
  BY DEF NoFile
<1> QED
  BY <1>1, <1>2

\* What is read is a version of the file (_read_text, _read_pdf_pages).
LEMMA DiskVersion == ASSUME FilesInv, NEW p \in Paths PROVE disk[p] \in Versions(p)
BY DEF FilesInv, Held, Versions, VersionsOf

\* Code and documents are chunked from their first line (build_index, _read_text).
LEMMA OpenTextInv == ASSUME ScanInv, OpenText PROVE ScanInv'
<1>1. ChunkingInv /\ FilesInv /\ ListingInv /\ DiscoveryInv /\ CurrentInv /\ PdfInv /\ IndexInv
  BY DEF ScanInv
<1> DEFINE e == Head(listing)
           g == IF e.group = "project" THEN "code" ELSE "document"
<1>2. /\ NextFile /\ e.group # "pdf" /\ disk[e.path] # NotThere /\ current = NoFile /\ status = "scanning"
      /\ current' = e /\ listing' = Tail(listing) /\ discovered' = Append(discovered, e)
      /\ UNCHANGED <<corpus, touched, disk, edits, walked, seen, pages, page, part, index, parsed, failed,
                     status>>
  BY DEF OpenText, NextFile, Scanning, history, files
<1>3. StartChunker(disk[e.path].lines, g)
  BY DEF OpenText
<1>4. /\ ListingInv' /\ DiscoveryInv' /\ e \in Entry /\ e \in Candidates(corpus)
      /\ ToSet(discovered') = ToSet(discovered) \cup {e}
      /\ DOMAIN discovered \subseteq DOMAIN discovered' /\ \A n \in DOMAIN discovered : discovered'[n] = discovered[n]
      /\ \A n \in DOMAIN discovered : discovered[n].path # e.path
      /\ \A n \in DOMAIN discovered' : discovered'[n].path = e.path => discovered'[n] = e
  BY <1>2, TakeFile
<1>5. {k \in DOMAIN discovered' : discovered'[k].group = "pdf"} = {k \in DOMAIN discovered : discovered[k].group = "pdf"}
  BY <1>2, TakeFile
<1> HIDE DEF e
<1>6. e.path \in Paths /\ e # NoFile
  BY <1>4, EntryFacts
<1>7. disk[e.path] \in Source(e.group)
  <2>1. corpus \in Corpora /\ disk[e.path] \in Versions(e.path)
    BY <1>1, <1>6, DiskVersion DEF FilesInv
  <2>2. Versions(e.path) \subseteq {NotThere} \cup Source(e.group)
    BY <1>2, <1>4, <2>1, ScanAssumption DEF Versions
  <2> QED
    BY <1>2, <2>1, <2>2
<1>8. ChunkingInv'
  <2>1. disk[e.path].lines \in Seq(IF g = "document" THEN DocLine ELSE CodeLine) /\ g \in {"document", "code"}
    BY <1>2, <1>7 DEF TextOf, Source
  <2> HIDE DEF g
  <2>2. Fresh'
    BY <1>3, <2>1 DEF StartChunker, Chunker, Fresh
  <2> QED
    BY <2>2, FreshInvNext
<1>9. CurrentInv'
  <2>1. pages = <<>> /\ page = 0 /\ part = FirstPart
    BY <1>1, <1>2 DEF CurrentInv
  <2>2. chunks' = <<>>
    BY <1>3 DEF StartChunker, Chunker
  <2>3. part'.number = 1 /\ part'.number \in 1..(Len(chunks') + 1) /\ DOMAIN part' = DOMAIN FirstPart
    BY <1>2, <2>1, <2>2 DEF FirstPart
  <2>4. pages' = <<>> /\ pages' \in Seq(Page) /\ DOMAIN pages' = {} /\ page' = 0
    BY <1>2, <2>1
  <2>5. /\ current' \in Entry /\ current' \in ToSet(discovered') /\ current' # NoFile /\ current'.group # "pdf"
        /\ status' = "scanning"
        /\ \A n \in DOMAIN discovered' : discovered'[n].path = current'.path => discovered'[n] = current'
    BY <1>2, <1>4, <1>6
  <2> QED
    BY <2>3, <2>4, <2>5 DEF CurrentInv
<1>10. PdfInv'
  BY <1>1, <1>2, <1>5 DEF PdfInv
<1>11. IndexInv'
  <2>1. ~Built'
    BY <1>2 DEF Built
  <2> QED
    BY <1>1, <1>2, <1>4, <2>1, IndexOfOthers
<1> QED
  BY <1>1, <1>2, <1>4, <1>8, <1>9, <1>10, <1>11, FilesFrame DEF ScanInv

\* The pages with text come in the order of the file (_read_pdf_pages).
LEMMA PdfPagesFacts ==
    ASSUME NEW f \in FileContents
    PROVE  /\ PdfPages(f) \in Seq(Page)
           /\ \A m, n \in DOMAIN PdfPages(f) : m < n => PdfPages(f)[m].number < PdfPages(f)[n].number
<1>1. CASE f.type # "pdf" \/ ~f.readable
  <2>1. PdfPages(f) = <<>>
    BY <1>1 DEF PdfPages
  <2> QED
    BY <2>1
<1>2. CASE ~(f.type # "pdf" \/ ~f.readable)
  <2> DEFINE S == {k \in DOMAIN f.pages : f.pages[k] # <<>>}
             kept == Ascending(S)
             ps == [n \in DOMAIN kept |-> [number |-> kept[n], lines |-> f.pages[kept[n]]]]
  <2>1. PdfPages(f) = ps
    BY <1>2 DEF PdfPages
  <2>2. f.pages \in Seq(Seq(DocLine))
    BY <1>2 DEF FileContents, NotThere, TextOf, PdfFile
  <2>3. Len(f.pages) \in Nat /\ DOMAIN f.pages = 1..Len(f.pages) /\ \A k \in DOMAIN f.pages : f.pages[k] \in Seq(DocLine)
    BY <2>2
  <2>4. S \in SUBSET (1..Len(f.pages)) /\ \A k \in S : k \in Nat \ {0} /\ f.pages[k] \in Seq(DocLine)
    BY <2>3
  <2> HIDE DEF S
  <2>5. kept \in Seq(S) /\ Increasing(kept)
    BY <2>3, <2>4, AscendingFacts
  <2> HIDE DEF kept
  <2>6. Len(kept) \in Nat /\ DOMAIN kept = 1..Len(kept) /\ \A n \in DOMAIN kept : kept[n] \in S
    BY <2>5
  <2>7. ps \in [1..Len(kept) -> Page]
    BY <2>4, <2>6 DEF Page
  <2>8. ps \in Seq(Page)
    BY <2>6, <2>7, FunctionIsSeq
  <2>9. \A m, n \in DOMAIN ps : m < n => ps[m].number < ps[n].number
    BY <2>5 DEF Increasing
  <2> QED
    BY <2>1, <2>8, <2>9
<1> QED
  BY <1>1, <1>2

\* Every version of a file is one that the scan can read (_read_text, _read_pdf_pages).
LEMMA DiskFacts == ASSUME FilesInv, NEW p \in Paths PROVE disk[p] \in FileContents
<1>1. corpus \in Corpora /\ disk[p] \in Versions(p)
  BY DiskVersion DEF FilesInv
<1>2. corpus.files \in [Paths -> FileContents] /\ corpus.edits \in [Paths -> SUBSET FileContents]
  BY <1>1, WalkFacts
<1>3. Versions(p) \subseteq FileContents
  BY <1>2 DEF Versions, VersionsOf
<1> QED
  BY <1>1, <1>3

\* A PDF is entered in one account or the other (build_index).
LEMMA ReadPdfInv == ASSUME ScanInv, ReadPdf PROVE ScanInv'
<1>1. ChunkingInv /\ FilesInv /\ ListingInv /\ DiscoveryInv /\ CurrentInv /\ PdfInv /\ IndexInv
  BY DEF ScanInv
<1> DEFINE e == Head(listing)
           p == e.path
           D == {k \in DOMAIN discovered : discovered[k].group = "pdf"}
           E == {k \in DOMAIN discovered' : discovered'[k].group = "pdf"}
<1>2. /\ NextFile /\ e.group = "pdf" /\ p \notin seen /\ current = NoFile /\ status = "scanning"
      /\ listing' = Tail(listing) /\ discovered' = Append(discovered, e) /\ seen' = seen \cup {p}
      /\ UNCHANGED <<chunkingVars, corpus, touched, disk, edits, walked, page, part, index, status>>
  BY DEF ReadPdf, DiscoverPdf, AtPdf, NextFile, Scanning, history, files
<1>3. SkipPdf \/ OpenPdf
  BY DEF ReadPdf
<1>4. /\ ListingInv' /\ DiscoveryInv' /\ e \in Entry /\ ToSet(discovered') = ToSet(discovered) \cup {e}
      /\ DOMAIN discovered \subseteq DOMAIN discovered' /\ \A n \in DOMAIN discovered : discovered'[n] = discovered[n]
      /\ \A n \in DOMAIN discovered : discovered[n].path # p
      /\ \A n \in DOMAIN discovered' : discovered'[n].path = p => discovered'[n] = e
      /\ IsFiniteSet(D) /\ Cardinality(E) = Cardinality(D) + 1
  BY <1>2, TakeFile
<1>5. ASSUME SkipPdf
      PROVE  /\ failed' = Append(failed, p) /\ parsed' = parsed
             /\ current' = NoFile /\ current'.group = "" /\ pages' = pages
  <2>1. failed' = Append(failed, p) /\ parsed' = parsed /\ current' = current /\ pages' = pages
    BY <1>5 DEF SkipPdf
  <2> QED
    BY <1>2, <2>1 DEF NoFile
<1>6. OpenPdf => failed' = failed /\ parsed' = parsed \cup {p} /\ current' = e /\ pages' = PdfPages(disk[p])
  BY DEF OpenPdf
<1> HIDE DEF e
<1>7. p \in Paths /\ e # NoFile
  BY <1>4, EntryFacts
<1> HIDE DEF p, D, E
<1>8. /\ pages = <<>> /\ page = 0 /\ part = FirstPart /\ stage = "done" /\ chunks = <<>>
  BY <1>1, <1>2 DEF CurrentInv
<1>9. CurrentInv'
  <2>1. part'.number = 1 /\ part'.number \in 1..(Len(chunks') + 1) /\ DOMAIN part' = DOMAIN FirstPart
        /\ stage' = "done" /\ chunks' = <<>> /\ page' = 0 /\ status' = "scanning"
    BY <1>2, <1>8 DEF FirstPart, chunkingVars
  <2>2. CASE SkipPdf
    <3>1. current' = NoFile /\ current'.group = "" /\ pages' = <<>>
      BY <1>5, <1>8, <2>2
    <3>2. <<>> \in Seq(Page) /\ DOMAIN <<>> = {}
      BY EmptySeq
    <3>3. pages' \in Seq(Page) /\ DOMAIN pages' = {}
      BY <3>1, <3>2
    <3>4. part' = FirstPart
      BY <1>2, <1>8
    <3> QED
      BY <2>1, <3>1, <3>3, <3>4 DEF CurrentInv
  <2>3. CASE OpenPdf
    <3>1. current' = e /\ pages' = PdfPages(disk[p]) /\ current'.group = "pdf" /\ e \in ToSet(discovered')
      BY <1>2, <1>4, <1>6, <2>3
    <3>5. \A n \in DOMAIN discovered' : discovered'[n].path = current'.path => discovered'[n] = current'
      BY <1>4, <3>1 DEF p
    <3>2. disk[p] \in FileContents
      BY <1>1, <1>7, DiskFacts
    <3>3. pages' \in Seq(Page) /\ \A m, n \in DOMAIN pages' : m < n => pages'[m].number < pages'[n].number
      BY <3>1, <3>2, PdfPagesFacts
    <3>4. \A n \in DOMAIN pages' : pages'[n].number > page'
      <4>1. \A n \in DOMAIN pages' : pages'[n] \in Page
        BY <3>3
      <4> QED
        BY <2>1, <4>1 DEF Page
    <3> QED
      BY <1>4, <1>7, <2>1, <3>1, <3>3, <3>4, <3>5 DEF CurrentInv
  <2> QED
    BY <1>3, <2>2, <2>3
<1>10. PdfInv'
  <2>1. /\ parsed \subseteq Paths /\ IsFiniteSet(parsed) /\ failed \in Seq(Paths)
        /\ parsed \cap ToSet(failed) = {} /\ parsed \cup ToSet(failed) = seen
        /\ Cardinality(D) = Cardinality(parsed) + Len(failed)
        /\ \A n \in DOMAIN index : index[n].group = "pdf" => index[n].path \in parsed
    BY <1>1 DEF PdfInv, D
  <2>2. p \notin parsed /\ p \notin ToSet(failed)
    BY <1>2, <2>1
  <2>3. Cardinality(parsed) \in Nat /\ Len(failed) \in Nat
    BY <2>1, FS_CardinalityType
  <2>4. CASE SkipPdf
    <3>0. failed' = Append(failed, p) /\ failed \in Seq(Paths) /\ p \in Paths
      BY <1>5, <1>7, <2>1, <2>4
    <3>1. /\ failed' \in Seq(Paths) /\ Len(failed') = Len(failed) + 1 /\ ToSet(failed') = ToSet(failed) \cup {p}
      BY <3>0, AppendSet
    <3>2. parsed' = parsed /\ current'.group # "pdf"
      BY <1>5, <2>4
    <3>3. Cardinality(E) = Cardinality(parsed') + Len(failed')
      BY <1>4, <2>1, <2>3, <3>1, <3>2
    <3>4. parsed' \cap ToSet(failed') = {} /\ parsed' \cup ToSet(failed') = seen'
      BY <1>2, <2>1, <2>2, <3>1, <3>2
    <3> QED
      BY <1>2, <2>1, <3>1, <3>2, <3>3, <3>4 DEF PdfInv, E
  <2>5. CASE OpenPdf
    <3>1. parsed' = parsed \cup {p} /\ failed' = failed /\ current' = e
      BY <1>6, <2>5
    <3>2. IsFiniteSet(parsed') /\ Cardinality(parsed') = Cardinality(parsed) + 1
      BY <2>1, <2>2, <3>1, FS_AddElement
    <3>3. Cardinality(E) = Cardinality(parsed') + Len(failed')
      BY <1>4, <2>1, <2>3, <3>1, <3>2
    <3>4. parsed' \cap ToSet(failed') = {} /\ parsed' \cup ToSet(failed') = seen' /\ parsed' \subseteq Paths
      BY <1>2, <1>7, <2>1, <2>2, <3>1
    <3>5. current'.path \in parsed'
      BY <3>1 DEF p
    <3> QED
      BY <1>2, <2>1, <3>1, <3>2, <3>3, <3>4, <3>5 DEF PdfInv, E
  <2> QED
    BY <1>3, <2>4, <2>5
<1>11. IndexInv'
  <2>1. ~Built'
    BY <1>2 DEF Built
  <2>2. current' # NoFile => current' = e
    BY <1>2, <1>3, <1>5, <1>6
  <2>3. current' # NoFile => \A n \in DOMAIN discovered : discovered[n].path # current'.path
    BY <1>4, <2>2 DEF p
  <2> QED
    BY <1>1, <1>2, <1>4, <2>1, <2>3, IndexOfOthers
<1> QED
  BY <1>1, <1>2, <1>4, <1>9, <1>10, <1>11, ChunkingStutter, FilesFrame DEF ScanInv

\* A directory that is listed names files that were not named before (_walk_files).
LEMMA ListDirectoryInv == ASSUME ScanInv, ListDirectory PROVE ScanInv'
<1>1. ChunkingInv /\ FilesInv /\ ListingInv /\ DiscoveryInv /\ CurrentInv /\ PdfInv /\ IndexInv
  BY DEF ScanInv
<1> DEFINE names == Walk(corpus)[walked + 1]
           S == {k \in DOMAIN names : disk[names[k].path] # NotThere}
<1>2. /\ status = "scanning" /\ current = NoFile /\ listing = <<>> /\ walked < Len(Walk(corpus))
      /\ walked' = walked + 1 /\ listing' = Picked(names, S)
      /\ UNCHANGED <<chunkingVars, corpus, touched, disk, edits, seen, current, pages, page, part, index,
                     discovered, parsed, failed, status>>
  BY DEF ListDirectory, Scanning, history, files, accounts
<1>3. /\ corpus \in Corpora /\ walked \in 0..Len(Walk(corpus)) /\ Walk(corpus) \in Seq(Seq(Entry))
      /\ seen = PdfsIn(discovered) /\ discovered \in Seq(Entry)
  BY <1>1, WalkFacts DEF FilesInv, DiscoveryInv, ListingInv
<1>4. /\ walked \in Nat /\ walked + 1 \in DOMAIN Walk(corpus) /\ names \in Seq(Entry) /\ walked' \in 0..Len(Walk(corpus))
      /\ 1..walked \subseteq DOMAIN Walk(corpus) /\ 1..(walked + 1) = 1..walked \cup {walked + 1}
  BY <1>2, <1>3
<1>5. DOMAIN names = 1..Len(names) /\ S \in SUBSET (1..Len(names)) /\ \A k \in DOMAIN names : names[k] \in Entry
  BY <1>4
<1>6. /\ listing' \in Seq(Entry) /\ \A e : e \in ToSet(listing') <=> \E k \in S : names[k] = e
      /\ \A m, n \in DOMAIN listing' : \E k, l \in S :
           listing'[m] = names[k] /\ listing'[n] = names[l] /\ (k = l => m = n)
  <2> HIDE DEF names, S
  <2>1. PICK s, T : s = names /\ T = S /\ s \in Seq(Entry)
    BY <1>4
  <2>2. PICK r : r = Picked(s, T)
    OBVIOUS
  <2>3. T \in SUBSET (1..Len(s))
    BY <1>5, <2>1
  <2>4. r \in Seq(Entry) /\ PicksFrom(r, s, T)
    BY <2>1, <2>2, <2>3, PickedSet
  <2>5. listing' = r
    BY <1>2, <2>1, <2>2
  <2> QED
    BY <2>1, <2>4, <2>5 DEF PicksFrom
<1>7. \A m \in DOMAIN Walk(corpus) : \A k \in DOMAIN names, l \in DOMAIN Walk(corpus)[m] :
        Twice(names[k], Walk(corpus)[m][l]) => m = walked + 1 /\ k = l
  BY <1>3, <1>4, ScanAssumption
<1>8. \A k, l \in DOMAIN names : Twice(names[k], names[l]) => k = l
  BY <1>4, <1>7
<1>9. \A k \in DOMAIN names : k \in S <=> disk[names[k].path] # NotThere
  OBVIOUS
<1>10. NamedSoFar' = NamedSoFar \cup ToSet(names)
  <2>1. NamedSoFar' = UNION {ToSet(Walk(corpus)[n]) : n \in 1..(walked + 1)}
    BY <1>2 DEF NamedSoFar
  <2> QED
    BY <1>4, <2>1 DEF NamedSoFar
<1>11. ASSUME NEW k \in DOMAIN names, NEW e \in NamedSoFar PROVE ~Twice(names[k], e)
  <2>1. PICK m \in 1..walked : e \in ToSet(Walk(corpus)[m])
    BY DEF NamedSoFar
  <2>2. PICK l \in DOMAIN Walk(corpus)[m] : e = Walk(corpus)[m][l]
    BY <2>1 DEF ToSet
  <2>3. m \in DOMAIN Walk(corpus) /\ m # walked + 1
    BY <1>4
  <2> QED
    BY <1>7, <2>2, <2>3
<1>12. \A k \in DOMAIN names : names[k] \in ToSet(names) /\ names[k].path \in Paths
  BY <1>5, EntryFacts DEF ToSet
<1>13. \A e \in ToSet(names) : \E k \in DOMAIN names : names[k] = e
  BY DEF ToSet
<1> HIDE DEF names, S
<1>14. ListingInv'
  <2>1. ASSUME NEW m \in DOMAIN listing', NEW n \in DOMAIN listing', Twice(listing'[m], listing'[n]) PROVE m = n
    BY <1>5, <1>6, <1>8, <2>1
  <2>2. ASSUME NEW m \in DOMAIN listing', NEW n \in DOMAIN discovered' PROVE ~Twice(listing'[m], discovered'[n])
    <3>1. PICK k \in DOMAIN names : listing'[m] = names[k]
      BY <1>5, <1>6
    <3>2. discovered'[n] \in NamedSoFar
      BY <1>1, <1>2 DEF DiscoveryInv, Taken, ToSet
    <3> QED
      BY <1>11, <3>1, <3>2
  <2>3. (\A m, n \in DOMAIN listing : Twice(listing[m], listing[n]) => m = n)'
    BY <2>1 DEF Twice
  <2>4. (\A m \in DOMAIN listing : \A n \in DOMAIN discovered : ~Twice(listing[m], discovered[n]))'
    BY <2>2 DEF Twice
  <2>5. (seen = PdfsIn(discovered))' /\ listing' \in Seq(Entry) /\ discovered' \in Seq(Entry)
    BY <1>2, <1>3, <1>6 DEF PdfsIn
  <2> QED
    BY <2>3, <2>4, <2>5 DEF ListingInv
<1>15. DiscoveryInv'
  <2>1. \A p : Held(p)' = Held(p)
    BY <1>2 DEF Held, Versions
  <2>2. \A p \in Paths : disk[p] \in Held(p) /\ (disk[p] = NotThere => NotThere \in Held(p))
    BY <1>1 DEF FilesInv
  <2>3. Taken = ToSet(discovered)
    BY <1>2 DEF Taken, ToSet
  <2>4. Taken' = ToSet(discovered) \cup ToSet(listing')
    BY <1>2 DEF Taken
  <2>5. ASSUME NEW e \in NamedSoFar', NotThere \notin Held(e.path) PROVE e \in Taken'
    <3>1. CASE e \in NamedSoFar
      BY <1>1, <2>3, <2>4, <2>5, <3>1 DEF DiscoveryInv
    <3>2. CASE e \in ToSet(names)
      <4>1. PICK k \in DOMAIN names : names[k] = e
        BY <1>13, <3>2
      <4>2. k \in S
        BY <1>9, <1>12, <2>2, <2>5, <4>1
      <4> QED
        BY <1>6, <2>4, <4>1, <4>2
    <3> QED
      BY <1>10, <3>1, <3>2
  <2>6. ASSUME NEW e \in Taken' PROVE e \in NamedSoFar' /\ Held(e.path) # {NotThere}
    <3>1. CASE e \in ToSet(discovered)
      BY <1>1, <1>10, <2>3, <3>1 DEF DiscoveryInv
    <3>2. CASE e \in ToSet(listing')
      <4>1. PICK k \in S : names[k] = e
        BY <1>6, <3>2
      <4>2. k \in DOMAIN names /\ disk[e.path] # NotThere /\ e.path \in Paths /\ e \in ToSet(names)
        BY <1>5, <1>9, <1>12, <4>1
      <4> QED
        BY <1>10, <2>2, <4>2
    <3> QED
      BY <2>4, <3>1, <3>2
  <2>7. (walked \in 0..Len(Walk(corpus)))'
    BY <1>2, <1>4
  <2> QED
    BY <2>1, <2>5, <2>6, <2>7 DEF DiscoveryInv
<1>16. CurrentInv'
  BY <1>1, <1>2 DEF CurrentInv, chunkingVars
<1>17. IndexInv'
  BY <1>1, <1>2, IndexFrame DEF chunkingVars, Built
<1> QED
  BY <1>1, <1>2, <1>14, <1>15, <1>16, <1>17, ChunkingStutter, FilesFrame, PdfFrame DEF ScanInv

\* Every step of a scan keeps the invariant (build_index).
LEMMA ScanNextInv == ASSUME ScanInv, ScanNext PROVE ScanInv'
<1>1. CASE FileRaises \/ IncludeRaises
  BY <1>1, RaiseInv DEF FileRaises, IncludeRaises
<1> QED
  BY <1>1, ListDirectoryInv, SkipSeenInv, OpenTextInv, ReadPdfInv, ChunkSourceInv, ExpandIncludeInv, RecordChunkInv,
     BeginPageInv, EndFileInv, IdentifyInv, EditInv, RescanInv DEF ScanNext

\* The invariant speaks of the state of a scan alone (build_index).
LEMMA ScanStutter == ASSUME ScanInv, UNCHANGED <<chunkingVars, scanVars>> PROVE ScanInv'
<1>1. ChunkingInv /\ FilesInv /\ ListingInv /\ DiscoveryInv /\ CurrentInv /\ PdfInv /\ IndexInv
  BY DEF ScanInv
<1>2. UNCHANGED <<chunkingVars, corpus, touched, disk, edits, walked, listing, seen, current, pages, page, part, index,
                  discovered, parsed, failed, status>>
  BY DEF scanVars
<1>3. CurrentInv'
  BY <1>1, <1>2 DEF CurrentInv, chunkingVars
<1>4. IndexInv'
  BY <1>1, <1>2, IndexFrame DEF chunkingVars, Built
<1> QED
  BY <1>1, <1>2, <1>3, <1>4, ChunkingStutter, FilesFrame, ListingFrame, PdfFrame DEF ScanInv

\* Before the first file is taken nothing is discovered, at hand or recorded
\* (build_index).
LEMMA ScanInitInv == ScanInit => ScanInv
<1> SUFFICES ASSUME NEW c \in Corpora, ScanInitOf(c) PROVE ScanInv
  BY DEF ScanInit
<1>1. /\ corpus = c /\ disk = c.files /\ edits = 0 /\ walked = 0 /\ listing = <<>> /\ seen = {} /\ touched = {}
      /\ current = NoFile /\ pages = <<>> /\ page = 0 /\ part = FirstPart /\ index = <<>>
      /\ discovered = <<>> /\ parsed = {} /\ failed = <<>> /\ status = "scanning"
  BY DEF ScanInitOf
<1>2. /\ lines = <<>> /\ kind = "document" /\ stage = "done" /\ i = 1 /\ start = 1 /\ size = 0
      /\ fence = NoFence /\ starts = <<>> /\ chunks = <<>>
  BY DEF ScanInitOf
<1>3. c.files \in [Paths -> FileContents]
  BY WalkFacts
<1>4. ChunkingInv
  <2>1. Fresh
    BY <1>2 DEF Fresh
  <2> QED
    BY <2>1, FreshInv
<1>5. FilesInv
  <2>1. edits \in 0..MaxEdits
    BY <1>1, ScanAssumption
  <2> QED
    BY <1>1, <1>3, <2>1 DEF FilesInv, Held
<1>6. ListingInv /\ DiscoveryInv
  BY <1>1, ListingStart
<1>7. CurrentInv
  <2>1. part.number \in 1..(Len(chunks) + 1) /\ DOMAIN part = DOMAIN FirstPart
    BY <1>1, <1>2 DEF FirstPart
  <2>2. pages \in Seq(Page) /\ DOMAIN pages = {}
    BY <1>1
  <2>3. current.group = ""
    BY <1>1 DEF NoFile
  <2> QED
    BY <1>1, <1>2, <2>1, <2>2, <2>3 DEF CurrentInv
<1>8. PdfInv
  <2>1. IsFiniteSet({}) /\ Cardinality({}) = 0
    BY FS_EmptySet
  <2>2. failed \in Seq(Paths) /\ Len(failed) = 0 /\ ToSet(failed) = {}
    BY <1>1 DEF ToSet
  <2>3. {k \in DOMAIN discovered : discovered[k].group = "pdf"} = {} /\ DOMAIN index = {}
    BY <1>1
  <2>4. current.group # "pdf"
    BY <1>1 DEF NoFile
  <2> QED
    BY <1>1, <2>1, <2>2, <2>3, <2>4 DEF PdfInv
<1>9. IndexInv
  <2>1. index \in Seq(ToSet(index)) /\ DOMAIN index = {}
    BY <1>1
  <2> QED
    BY <2>1 DEF IndexInv
<1> QED
  BY <1>4, <1>5, <1>6, <1>7, <1>8, <1>9 DEF ScanInv

\* A scan of any corpus, with any edits while it runs, keeps its invariant
\* (build_index).
THEOREM ScanInvariant == ScanSpec => []ScanInv
<1>1. ScanInit => ScanInv
  BY ScanInitInv
<1>2. ScanInv /\ [ScanNext]_<<chunkingVars, scanVars>> => ScanInv'
  BY ScanNextInv, ScanStutter
<1> QED
  BY <1>1, <1>2, PTL DEF ScanSpec

\* The state of a scan has the types that build_index gives it.
THEOREM ScanTypes == ScanSpec => []ScanTypeOK
<1>1. ScanInv => ScanTypeOK
  <2> SUFFICES ASSUME ScanInv PROVE ScanTypeOK
    OBVIOUS
  <2>1. ChunkingInv /\ FilesInv /\ ListingInv /\ DiscoveryInv /\ CurrentInv /\ PdfInv /\ IndexInv
    BY DEF ScanInv
  <2>2. ChunkingTypeOK
    BY <2>1 DEF ChunkingInv
  <2>3. DOMAIN disk = Paths /\ edits \in 0..MaxEdits /\ walked \in 0..Len(Walk(corpus))
    BY <2>1 DEF FilesInv, DiscoveryInv
  <2>4. seen \subseteq Paths /\ parsed \subseteq Paths /\ failed \in Seq(Paths)
    BY <2>1 DEF PdfInv, ToSet
  <2>5. \A e \in ToSet(listing) \cup ToSet(discovered) :
          e.path \in Paths /\ e.group \in {"project", "tutorial", "pdf"}
    <3>1. ToSet(listing) \subseteq Entry /\ ToSet(discovered) \subseteq Entry
      BY <2>1 DEF ListingInv, ToSet
    <3> QED
      BY <3>1 DEF Entry
  <2>6. \A c \in ToSet(index) : c.path \in Paths /\ c.page \in Nat /\ c.first \in 1..c.last
    <3> SUFFICES ASSUME NEW n \in DOMAIN index
                 PROVE  index[n].path \in Paths /\ index[n].page \in Nat /\ index[n].first \in 1..index[n].last
      BY DEF ToSet
    <3>1. Recorded(index[n])
      BY <2>1 DEF IndexInv
    <3>2. PICK k \in DOMAIN discovered : discovered[k] = [path |-> index[n].path, group |-> index[n].group]
      BY <3>1 DEF Recorded
    <3>3. discovered[k] \in Entry
      BY <2>1 DEF ListingInv
    <3>4. index[n].path \in Paths
      BY <3>2, <3>3 DEF Entry
    <3> QED
      BY <3>1, <3>4 DEF Recorded
  <2>7. part.number \in 1..(Len(chunks) + 1) /\ status \in {"scanning", "built", "raised"}
    BY <2>1 DEF CurrentInv
  <2> QED
    BY <2>2, <2>3, <2>4, <2>5, <2>6, <2>7 DEF ScanTypeOK
<1> QED
  BY <1>1, ScanInvariant, PTL

\* "without splitting fenced code" (chunking.py), for every text that a scan meets.
THEOREM FencesStayWhole == ScanSpec => []FencesWhole
<1>1. ScanInv => FencesWhole
  BY ChunkingInvImplies DEF ScanInv
<1> QED
  BY <1>1, ScanInvariant, PTL

\* Sections begin chunks and chunks stop at the first blank line past the target
\* (document_chunks), for every text that a scan meets.
THEOREM SectionsStayPacked == ScanSpec => []SectionsPacked
<1>1. ScanInv => SectionsPacked
  BY ChunkingInvImplies DEF ScanInv
<1> QED
  BY <1>1, ScanInvariant, PTL

\* "Boundaries are function declaration lines" (chunking.py), for every program that
\* a scan meets in which masking joins no lines.
THEOREM RegionsAtFunctions == ScanSpec => []RegionsBeginAtFunctions
<1>1. ScanInv => RegionsBeginAtFunctions
  BY ChunkingInvImplies DEF ScanInv
<1> QED
  BY <1>1, ScanInvariant, PTL

\* "Unrecognized regions remain searchable" (chunking.py): only blank lines of a
\* source that a scan meets are in none of its chunks.
THEOREM ScanLosesNothing == ScanSpec => []NothingLost
<1>1. ScanInv => NothingLost
  BY ChunkingInvImplies DEF ScanInv
<1> QED
  BY <1>1, ScanInvariant, PTL

\* At the end of the walk every directory has been listed (_iter_files).
LEMMA AllNamed ==
    ASSUME corpus \in Corpora, listing = <<>>, walked = Len(Walk(corpus))
    PROVE  Taken = ToSet(discovered) /\ NamedSoFar = Candidates(corpus)
<1>1. Walk(corpus) \in Seq(Seq(Entry))
  BY WalkFacts
<1>2. DOMAIN Walk(corpus) = 1..walked
  BY <1>1
<1>3. NamedSoFar = Candidates(corpus)
  BY <1>2 DEF NamedSoFar, Candidates
<1> QED
  BY <1>3 DEF Taken, ToSet

\* A PDF that was below the roots all along is parsed or has failed when the scan is
\* over, and so is whatever else was discovered (pdf_indexing in build_index).
THEOREM PdfsAccounted == ScanSpec => []PdfAccounted
<1>1. ScanInv => PdfAccounted
  <2> SUFFICES ASSUME ScanInv, Built PROVE PdfAccounted
    BY DEF PdfAccounted
  <2> DEFINE found == {k \in DOMAIN discovered : discovered[k].group = "pdf"}
             paths == {discovered[k].path : k \in found}
  <2>1. FilesInv /\ ListingInv /\ DiscoveryInv /\ CurrentInv /\ PdfInv
    BY DEF ScanInv
  <2>2. listing = <<>> /\ walked = Len(Walk(corpus))
    BY <2>1 DEF CurrentInv, Built
  <2>3. Taken = ToSet(discovered) /\ NamedSoFar = Candidates(corpus)
    BY <2>1, <2>2, AllNamed DEF FilesInv
  <2>4. paths = {e.path : e \in {x \in ToSet(discovered) : x.group = "pdf"}}
    BY DEF ToSet
  <2>5. paths = seen
    BY <2>1, <2>4 DEF ListingInv, PdfsIn
  <2>6. \A c \in ToSet(index) : c.group = "pdf" => c.path \in parsed
    BY <2>1 DEF PdfInv, ToSet
  <2>7. /\ parsed \cap ToSet(failed) = {} /\ parsed \cup ToSet(failed) = seen
        /\ Cardinality(found) = Cardinality(parsed) + Len(failed)
    BY <2>1 DEF PdfInv
  <2>8. {p \in PdfPaths : NotThere \notin Held(p)} \subseteq paths
    <3>1. \A e \in Candidates(corpus) : NotThere \notin Held(e.path) => e \in ToSet(discovered)
      BY <2>1, <2>3 DEF DiscoveryInv
    <3> QED
      BY <2>4, <3>1 DEF PdfPaths
  <2>9. paths \subseteq {p \in PdfPaths : Held(p) # {NotThere}}
    <3>1. \A e \in ToSet(discovered) : e \in Candidates(corpus) /\ Held(e.path) # {NotThere}
      BY <2>1, <2>3 DEF DiscoveryInv
    <3> QED
      BY <2>4, <3>1 DEF PdfPaths
  <2> QED
    BY <2>5, <2>6, <2>7, <2>8, <2>9 DEF PdfAccounted
<1> QED
  BY <1>1, ScanInvariant, PTL

\* No two chunks of an index get the same name, although PDF roots may list a file
\* twice (the ids of build_index).
THEOREM IdsAreUnique == ScanSpec => []UniqueIds
<1>1. ScanInv => UniqueIds
  <2> SUFFICES ASSUME ScanInv, Built, NEW k \in DOMAIN index, NEW m \in DOMAIN index, index[k].id = index[m].id
               PROVE  k = m
    BY DEF UniqueIds
  <2>1. IndexInv
    BY DEF ScanInv
  <2>2. Identity(index[k]) = Identity(index[m])
    BY <2>1 DEF IndexInv
  <2>3. Same(index[k], index[m])
    BY <2>2 DEF Identity, Same
  <2> QED
    BY <2>1, <2>3 DEF IndexInv
<1> QED
  BY <1>1, ScanInvariant, PTL

-----------------------------------------------------------------------------
(* The text of the chunks. *)

\* The same chunks under other names, and others behind them.
Grows(ix, jx) ==
    \A n \in DOMAIN ix :
      /\ n \in DOMAIN jx /\ jx[n].path = ix[n].path /\ jx[n].group = ix[n].group /\ jx[n].page = ix[n].page
      /\ jx[n].first = ix[n].first /\ jx[n].last = ix[n].last /\ jx[n].text = ix[n].text

\* What is in the index stays there when chunks are added or named (build_index).
LEMMA CoveredKept == ASSUME NEW ix, NEW jx, Grows(ix, jx), NEW p, NEW b, Covered(ix, p, b) PROVE Covered(jx, p, b)
BY DEF Covered, Grows

\* Chunks of other files do not matter to a file (build_index).
LEMMA FaithfulKept ==
    ASSUME NEW ix, NEW jx, Grows(ix, jx), NEW p, NEW f, Faithful(ix, p, f),
           \A n \in DOMAIN jx : n \in DOMAIN ix \/ jx[n].path # p
    PROVE  Faithful(jx, p, f)
<1> SUFFICES ASSUME NEW n \in DOMAIN jx, jx[n].path = p PROVE \E b \in Bodies(f) : Repeats(jx[n], b)
  BY DEF Faithful
<1>1. n \in DOMAIN ix /\ ix[n].path = p
  BY DEF Grows
<1>2. PICK b \in Bodies(f) : Repeats(ix[n], b)
  BY <1>1 DEF Faithful
<1>3. /\ jx[n].group = ix[n].group /\ jx[n].page = ix[n].page
      /\ jx[n].first = ix[n].first /\ jx[n].last = ix[n].last /\ jx[n].text = ix[n].text
  BY <1>1 DEF Grows
<1>4. Repeats(jx[n], b)
  BY <1>2, <1>3 DEF Repeats
<1> QED
  BY <1>4

\* A file that is in the index as a whole stays so (build_index).
LEMMA WholeKept ==
    ASSUME NEW ix, NEW jx, Grows(ix, jx), NEW p, NEW versions, Whole(ix, p, versions),
           \A n \in DOMAIN jx : n \in DOMAIN ix \/ jx[n].path # p
    PROVE  Whole(jx, p, versions)
<1>1. PICK f \in versions : Faithful(ix, p, f) /\ \A b \in Bodies(f) : Covered(ix, p, b)
  BY DEF Whole
<1>2. Faithful(jx, p, f)
  BY <1>1, FaithfulKept
<1>3. \A b \in Bodies(f) : Covered(jx, p, b)
  BY <1>1, CoveredKept
<1> QED
  BY <1>2, <1>3 DEF Whole

\* What the versions of a file say, kind by kind (_read_text, _read_pdf_pages).
LEMMA BodiesFacts ==
    ASSUME NEW f
    PROVE  /\ f.type = "absent" => Bodies(f) = {}
           /\ f.type = "text" => Bodies(f) = {BodyOf(0, f.lines)}
           /\ f.type = "pdf" /\ ~f.readable => Bodies(f) = {}
           /\ f.type = "pdf" /\ f.readable => Bodies(f) = {BodyOf(k, f.pages[k]) : k \in DOMAIN f.pages}
BY DEF Bodies, BodyOf

\* Nothing about the texts changes when none of this does (build_index).
LEMMA SourceFrame ==
    ASSUME SourceInv, UNCHANGED <<corpus, index, discovered, current, page, pages, part, lines, chunks, stage>>
    PROVE  SourceInv'
<1>1. (\A n \in DOMAIN discovered : discovered[n] # current =>
         Whole(index, discovered[n].path, Versions(discovered[n].path)))'
  BY DEF SourceInv, Versions
<1>2. (current # NoFile => \E f \in Versions(current.path) : FromVersion(f))'
  BY DEF SourceInv, Versions, FromVersion
<1>3. (current # NoFile => \A n \in 1..(part.number - 1) : Recording(index, current.path, page, chunks[n]))'
  BY DEF SourceInv
<1>4. PartInv'
  BY DEF SourceInv, PartInv, PartLines, Line, Said
<1> QED
  BY <1>1, <1>2, <1>3, <1>4 DEF SourceInv

\* A chunk of which nothing is copied yet (build_index before it calls expand_includes).
LEMMA NothingCopied ==
    ChunkingTypeOK /\ part.line = 0 /\ part.text = <<>> /\ part.number \in Nat \ {0} => PartInv
<1> SUFFICES ASSUME ChunkingTypeOK, part.line = 0, part.text = <<>>, part.number \in Nat \ {0} PROVE PartInv
  OBVIOUS
<1>1. ASSUME part.number <= Len(chunks) PROVE part.line <= Cardinality(PartLines)
  <2>1. chunks \in Seq(Span) /\ Len(lines) \in Nat
    BY LineFacts
  <2>2. part.number \in 1..Len(chunks)
    BY <1>1, <2>1
  <2>3. chunks[part.number] \in Span
    BY <2>1, <2>2
  <2>4. chunks[part.number][1] \in Int /\ chunks[part.number][2] \in Int
    BY <2>1, <2>3 DEF Span
  <2> DEFINE w == chunks[part.number][2] - chunks[part.number][1] + 1
  <2>5. w \in Int /\ PartLines = 1..w
    BY <2>4 DEF PartLines
  <2> HIDE DEF w
  <2>6. 1 \in Int /\ IsFiniteSet(PartLines)
    BY <2>5, FS_Interval
  <2>7. Cardinality(PartLines) \in Nat
    BY <2>6, FS_CardinalityType
  <2> QED
    BY <2>7
<1>2. part.text \in Seq(ToSet(part.text)) /\ Len(part.text) = part.line /\ 1..part.line = {}
  OBVIOUS
<1> QED
  BY <1>1, <1>2 DEF PartInv

\* The same after a step.
LEMMA NothingCopiedNext ==
    (ChunkingTypeOK /\ part.line = 0 /\ part.text = <<>> /\ part.number \in Nat \ {0})' => PartInv'
BY NothingCopied, PTL

\* Cutting a source into chunks changes neither its text nor the index (_chunk_doc_text,
\* _chunk_code).
LEMMA ChunkSourceKeeps == ASSUME ScanInv, SourceInv, ChunkSource PROVE SourceInv'
<1>1. /\ ChunkingNext /\ UNCHANGED <<corpus, current, pages, page, part, index, discovered>>
  BY DEF ChunkSource, scanVars
<1>2. stage # "done" /\ lines' = lines
  BY <1>1 DEF ChunkingNext, ReadLine, LastBlock, FindDeclarations, FallbackRegion, IncludePrefixes, EmitRegion
<1>3. CurrentInv /\ PartInv
  BY DEF ScanInv, SourceInv
<1>4. part.number = 1 /\ part.line = 0 /\ part.text = <<>>
  BY <1>2, <1>3 DEF CurrentInv, PartInv
<1>5. ChunkingTypeOK'
  <2>1. ScanInv'
    BY ChunkSourceInv
  <2> QED
    BY <2>1 DEF ScanInv, ChunkingInv
<1>6. PartInv'
  BY <1>1, <1>4, <1>5, NothingCopiedNext
<1>7. (\A n \in DOMAIN discovered : discovered[n] # current =>
         Whole(index, discovered[n].path, Versions(discovered[n].path)))'
  BY <1>1 DEF SourceInv, Versions
<1>8. (current # NoFile => \E f \in Versions(current.path) : FromVersion(f))'
  BY <1>1, <1>2 DEF SourceInv, Versions, FromVersion
<1>9. 1..(part'.number - 1) = {}
  BY <1>1, <1>4
<1> QED
  BY <1>6, <1>7, <1>8, <1>9 DEF SourceInv

\* Once all chunks of a text are recorded, all of the text is in the index (build_index).
LEMMA AllCovered ==
    ASSUME ScanInv, SourceInv, Emptied PROVE Covered(index, current.path, BodyOf(page, lines))
<1>1. current # NoFile /\ stage = "done" /\ part.number > Len(chunks)
  BY DEF Emptied, Reading
<1>2. ChunkingInv /\ ChunkingTypeOK /\ CurrentInv
  BY DEF ScanInv, ChunkingInv
<1>3. NothingLost
  BY <1>2, ChunkingInvImplies
<1>4. chunks \in Seq(Span) /\ part.number \in 1..(Len(chunks) + 1)
  BY <1>2, LineFacts DEF CurrentInv
<1>5. DOMAIN chunks = 1..(part.number - 1)
  BY <1>1, <1>4
<1> SUFFICES ASSUME NEW k \in DOMAIN lines, ~lines[k].blank
             PROVE  \E n \in DOMAIN index : /\ index[n].path = current.path /\ index[n].page = page
                                            /\ index[n].first <= k /\ k <= index[n].last
  BY DEF Covered, BodyOf
<1>6. PICK m \in DOMAIN chunks : Within(k, chunks[m])
  BY <1>1, <1>3 DEF NothingLost, ToSet
<1>7. Recording(index, current.path, page, chunks[m])
  BY <1>1, <1>5, <1>6 DEF SourceInv
<1> QED
  BY <1>6, <1>7 DEF Recording, Within

\* A file is in the index as a whole when its last text is recorded (build_index).
LEMMA EndFileKeeps == ASSUME ScanInv, SourceInv, EndFile PROVE SourceInv'
<1>1. /\ Emptied /\ pages = <<>> /\ current' = NoFile /\ part' = FirstPart
      /\ UNCHANGED <<corpus, index, discovered>>
  BY DEF EndFile, history, accounts
<1>2. current # NoFile
  BY <1>1 DEF Emptied, Reading
<1>3. PICK f \in Versions(current.path) : FromVersion(f)
  BY <1>2 DEF SourceInv
<1>4. Covered(index, current.path, BodyOf(page, lines))
  BY <1>1, AllCovered
<1>5. DOMAIN pages = {}
  BY <1>1
<1>6. \A b \in Bodies(f) : Covered(index, current.path, b)
  BY <1>3, <1>4, <1>5 DEF FromVersion
<1>7. Whole(index, current.path, Versions(current.path))
  BY <1>3, <1>6 DEF FromVersion, Whole
<1>8. (\A n \in DOMAIN discovered : discovered[n] # current =>
         Whole(index, discovered[n].path, Versions(discovered[n].path)))'
  <2> SUFFICES ASSUME NEW n \in DOMAIN discovered
               PROVE  Whole(index, discovered[n].path, Versions(discovered[n].path))
    BY <1>1 DEF Versions
  <2> QED
    BY <1>7 DEF SourceInv
<1>9. PartInv'
  <2>1. ScanInv'
    BY EndFileInv
  <2>2. ChunkingTypeOK'
    BY <2>1 DEF ScanInv, ChunkingInv
  <2>3. part'.line = 0 /\ part'.text = <<>> /\ part'.number \in Nat \ {0}
    BY <1>1 DEF FirstPart
  <2> QED
    BY <2>2, <2>3, NothingCopiedNext
<1> QED
  BY <1>1, <1>8, <1>9 DEF SourceInv

\* The text of the next page is one of those read with the file (_read_pdf_pages).
LEMMA BeginPageKeeps == ASSUME ScanInv, SourceInv, BeginPage PROVE SourceInv'
<1>1. /\ Emptied /\ pages # <<>> /\ page' = Head(pages).number /\ pages' = Tail(pages)
      /\ StartChunker(Head(pages).lines, "document") /\ part' = FirstPart
      /\ UNCHANGED <<corpus, current, index, discovered>>
  BY DEF BeginPage, history, accounts
<1>2. current # NoFile /\ lines' = Head(pages).lines
  BY <1>1 DEF Emptied, Reading, StartChunker, Chunker
<1>3. PICK f \in Versions(current.path) : FromVersion(f)
  BY <1>2 DEF SourceInv
<1>4. /\ 1 \in DOMAIN pages /\ Head(pages) = pages[1]
      /\ \A n \in DOMAIN Tail(pages) : n \in Nat /\ n >= 1 /\ n + 1 \in DOMAIN pages /\ Tail(pages)[n] = pages[n + 1]
  <2>1. pages \in Seq(Page)
    BY DEF ScanInv, CurrentInv
  <2> QED
    BY <1>1, <2>1, TailSet
<1>5. Covered(index, current.path, BodyOf(page, lines))
  BY <1>1, AllCovered
<1>6. \A n \in DOMAIN pages : n = 1 \/ \E m \in DOMAIN Tail(pages) : Tail(pages)[m] = pages[n]
  <2>1. pages \in Seq(Page) /\ pages # <<>>
    BY <1>1 DEF ScanInv, CurrentInv
  <2>2. Len(pages) \in Nat /\ DOMAIN pages = 1..Len(pages) /\ Len(Tail(pages)) = Len(pages) - 1 /\ Tail(pages) \in Seq(Page)
    BY <2>1
  <2>3. DOMAIN Tail(pages) = 1..(Len(pages) - 1)
    BY <2>2
  <2> SUFFICES ASSUME NEW n \in DOMAIN pages, n # 1 PROVE \E m \in DOMAIN Tail(pages) : Tail(pages)[m] = pages[n]
    OBVIOUS
  <2>4. n - 1 \in DOMAIN Tail(pages) /\ (n - 1) + 1 = n
    BY <2>2, <2>3
  <2> QED
    BY <1>4, <2>4
<1>7. FromVersion(f)'
  <2>1. Faithful(index', current'.path, f)
    BY <1>1, <1>3 DEF FromVersion
  <2>2. BodyOf(page', lines') \in Bodies(f)
    BY <1>1, <1>2, <1>3, <1>4 DEF FromVersion
  <2>3. \A n \in DOMAIN pages' : BodyOf(pages'[n].number, pages'[n].lines) \in Bodies(f)
    BY <1>1, <1>3, <1>4 DEF FromVersion
  <2>4. ASSUME NEW b \in Bodies(f)
        PROVE  \/ b = BodyOf(page', lines') \/ Covered(index', current'.path, b)
               \/ \E n \in DOMAIN pages' : b = BodyOf(pages'[n].number, pages'[n].lines)
    <3>1. CASE b = BodyOf(page, lines)
      BY <1>1, <1>5, <3>1
    <3>2. CASE Covered(index, current.path, b)
      BY <1>1, <3>2
    <3>3. CASE \E n \in DOMAIN pages : b = BodyOf(pages[n].number, pages[n].lines)
      <4>1. PICK n \in DOMAIN pages : b = BodyOf(pages[n].number, pages[n].lines)
        BY <3>3
      <4> QED
        BY <1>1, <1>2, <1>4, <1>6, <4>1
    <3> QED
      BY <1>3, <3>1, <3>2, <3>3 DEF FromVersion
  <2> QED
    BY <2>1, <2>2, <2>3, <2>4 DEF FromVersion
<1>8. (\A n \in DOMAIN discovered : discovered[n] # current =>
         Whole(index, discovered[n].path, Versions(discovered[n].path)))'
  BY <1>1 DEF SourceInv, Versions
<1>9. PartInv' /\ 1..(part'.number - 1) = {}
  <2>1. ScanInv'
    BY BeginPageInv
  <2>2. ChunkingTypeOK'
    BY <2>1 DEF ScanInv, ChunkingInv
  <2>3. part'.line = 0 /\ part'.text = <<>> /\ part'.number = 1
    BY <1>1 DEF FirstPart
  <2> QED
    BY <2>2, <2>3, NothingCopiedNext
<1>10. (\E v \in Versions(current.path) : FromVersion(v))'
  <2>1. f \in Versions(current.path)'
    BY <1>1, <1>3 DEF Versions
  <2> QED
    BY <1>7, <2>1
<1> QED
  BY <1>8, <1>9, <1>10 DEF SourceInv

\* Renaming or adding chunks of one file leaves the others as they are (build_index).
LEMMA IdentifyKeeps == ASSUME ScanInv, SourceInv, Identify PROVE SourceInv'
<1>1. /\ current = NoFile /\ index' = [k \in DOMAIN index |-> [index[k] EXCEPT !.id = Identity(index[k])]]
      /\ UNCHANGED <<chunkingVars, corpus, current, discovered, part>>
  BY DEF Identify, history, accounts
<1>2. DOMAIN index' = DOMAIN index
  BY <1>1
<1>3. Grows(index, index')
  <2> SUFFICES ASSUME NEW n \in DOMAIN index
               PROVE  /\ index'[n].path = index[n].path /\ index'[n].group = index[n].group
                      /\ index'[n].page = index[n].page /\ index'[n].first = index[n].first
                      /\ index'[n].last = index[n].last /\ index'[n].text = index[n].text
    BY <1>2 DEF Grows
  <2>1. DOMAIN index[n] = ChunkFields
    BY DEF ScanInv, IndexInv, Recorded
  <2>2. \A x \in ChunkFields \ {"id"} : index'[n][x] = index[n][x]
    BY <1>1, <2>1
  <2> QED
    BY <2>2 DEF ChunkFields
<1>4. ASSUME NEW n \in DOMAIN discovered, discovered[n] # current, NEW p, p = discovered[n].path
      PROVE  Whole(index', p, Versions(p))
  <2>1. Whole(index, p, Versions(p))
    BY <1>4 DEF SourceInv
  <2> QED
    BY <1>2, <1>3, <2>1, WholeKept
<1>5. (\A n \in DOMAIN discovered : discovered[n] # current =>
         Whole(index, discovered[n].path, Versions(discovered[n].path)))'
  BY <1>1, <1>4 DEF Versions
<1>6. PartInv'
  BY <1>1 DEF SourceInv, PartInv, PartLines, Line, Said, chunkingVars
<1> QED
  BY <1>1, <1>5, <1>6 DEF SourceInv

\* A new scan has discovered nothing (build_index).
LEMMA RescanKeeps == ASSUME ScanInv, SourceInv, Rescan PROVE SourceInv'
<1>1. status = "built" /\ discovered' = <<>> /\ UNCHANGED <<chunkingVars, current, part>>
  BY DEF Rescan
<1>2. current = NoFile
  BY <1>1 DEF ScanInv, CurrentInv
<1>3. PartInv'
  BY <1>1 DEF SourceInv, PartInv, PartLines, Line, Said, chunkingVars
<1> QED
  BY <1>1, <1>2, <1>3 DEF SourceInv

\* The lines of the chunk at hand (expand_includes).
LEMMA PartFacts ==
    ASSUME ScanInv, Chunked
    PROVE  /\ part.number \in DOMAIN chunks /\ part.number \in Nat \ {0} /\ current # NoFile /\ stage = "done"
           /\ chunks[part.number][1] \in Nat \ {0} /\ chunks[part.number][2] \in Nat
           /\ chunks[part.number][1] <= chunks[part.number][2] /\ chunks[part.number][2] <= Len(lines)
           /\ DOMAIN lines = 1..Len(lines) /\ Len(lines) \in Nat
           /\ PartLines = 1..Cardinality(PartLines) /\ Cardinality(PartLines) \in Nat
           /\ Cardinality(PartLines) = chunks[part.number][2] - chunks[part.number][1] + 1
<1>1. current # NoFile /\ stage = "done" /\ part.number <= Len(chunks)
  BY DEF Chunked, Reading
<1>2. ChunkingTypeOK /\ CurrentInv /\ CoverInv
  BY DEF ScanInv, ChunkingInv
<1>3. chunks \in Seq(Span) /\ Len(lines) \in Nat /\ DOMAIN lines = 1..Len(lines) /\ Ordered(chunks, Reached)
  BY <1>2, LineFacts DEF CoverInv
<1>4. part.number \in 1..(Len(chunks) + 1)
  BY <1>2 DEF CurrentInv
<1>5. part.number \in DOMAIN chunks /\ part.number \in Nat \ {0}
  BY <1>1, <1>3, <1>4
<1>6. chunks[part.number] \in Span
  BY <1>3, <1>5
<1>7. chunks[part.number][1] \in 1..Len(lines) /\ chunks[part.number][2] \in 1..Len(lines)
  BY <1>6 DEF Span
<1>8. chunks[part.number][1] <= chunks[part.number][2]
  BY <1>3, <1>5 DEF Ordered
<1> DEFINE w == chunks[part.number][2] - chunks[part.number][1] + 1
<1>9. w \in Nat /\ w >= 1 /\ PartLines = 1..w
  BY <1>3, <1>7, <1>8 DEF PartLines
<1>10. Cardinality(PartLines) = w
  <2> HIDE DEF w
  <2>1. 1 \in Int /\ w \in Int
    BY <1>9
  <2> QED
    BY <1>9, <2>1, FS_Interval
<1> QED
  BY <1>1, <1>3, <1>5, <1>7, <1>8, <1>9, <1>10

\* What expand_includes has copied up to a line of the chunk.
LEMMA CopiedFacts ==
    ASSUME PartInv, NEW m \in Nat, part.line <= m
    PROVE  /\ \E T : CopiedTo(m) \in Seq(T)
           /\ Len(CopiedTo(m)) = m
           /\ \A k \in 1..part.line : CopiedTo(m)[k] = part.text[k]
           /\ \A k \in 1..m : (current.group = "tutorial" /\ IsInclude(Line(k).text)) \/ CopiedTo(m)[k] = Said(k)
<1>1. /\ part.line \in Nat /\ part.text \in Seq(ToSet(part.text)) /\ Len(part.text) = part.line
      /\ \A k \in 1..part.line : (current.group = "tutorial" /\ IsInclude(Line(k).text)) \/ part.text[k] = Said(k)
  BY DEF PartInv
<1> DEFINE d == m - part.line
           more == [k \in 1..d |-> Said(part.line + k)]
           T == ToSet(part.text) \cup {Said(part.line + k) : k \in 1..d}
<1>2. d \in Nat /\ part.line + d = m
  BY <1>1
<1>3. more \in [1..d -> T] /\ ToSet(part.text) \subseteq T
  OBVIOUS
<1>4. CopiedTo(m) = part.text \o more /\ \A k \in 1..d : more[k] = Said(part.line + k)
  BY DEF CopiedTo
<1> HIDE DEF d, more, T
<1>5. more \in Seq(T) /\ Len(more) = d
  BY <1>2, <1>3, FunctionIsSeq
<1>6. part.text \in Seq(T)
  BY <1>1, <1>3, SeqMonotonic
<1>7. /\ part.text \o more \in Seq(T) /\ Len(part.text \o more) = m
      /\ \A k \in 1..m : (part.text \o more)[k] = IF k <= part.line THEN part.text[k] ELSE more[k - part.line]
  <2> DEFINE t == part.text
             L == Len(t) + Len(more)
  <2>1. t \in Seq(T) /\ Len(t) = part.line /\ L = m
    BY <1>1, <1>2, <1>5, <1>6
  <2> HIDE DEF t
  <2>2. t \o more \in Seq(T) /\ Len(t \o more) = L
    BY <1>5, <2>1, ConcatProperties
  <2>3. \A k \in 1..L : (t \o more)[k] = IF k <= Len(t) THEN t[k] ELSE more[k - Len(t)]
    BY <1>5, <2>1, ConcatProperties
  <2> QED
    BY <2>1, <2>2, <2>3 DEF t
<1>8. ASSUME NEW k \in 1..m
      PROVE  (current.group = "tutorial" /\ IsInclude(Line(k).text)) \/ CopiedTo(m)[k] = Said(k)
  <2>1. CASE k <= part.line
    <3>1. k \in 1..part.line /\ CopiedTo(m)[k] = part.text[k]
      BY <1>1, <1>4, <1>7, <2>1
    <3> QED
      BY <1>1, <3>1
  <2>2. CASE ~(k <= part.line)
    <3>1. k - part.line \in 1..d /\ part.line + (k - part.line) = k
      BY <1>1, <1>2, <2>2
    <3>2. CopiedTo(m)[k] = more[k - part.line]
      BY <1>4, <1>7, <2>2
    <3> QED
      BY <1>4, <3>1, <3>2
  <2> QED
    BY <2>1, <2>2
<1>9. \A k \in 1..part.line : k \in 1..m /\ k <= part.line
  BY <1>1
<1> QED
  BY <1>4, <1>7, <1>8, <1>9

\* An include is replaced where it stands, and the lines before it are copied
\* (expand_includes).
LEMMA ExpandIncludeKeeps == ASSUME ScanInv, SourceInv, ExpandInclude PROVE SourceInv'
<1> DEFINE k == Min(Pending)
<1>1. /\ Chunked /\ Pending # {}
      /\ UNCHANGED <<chunkingVars, corpus, current, pages, page, index, discovered>>
  BY DEF ExpandInclude, history, accounts
<1>2. \E x, r : part' = [part EXCEPT !.line = k, !.text = Append(CopiedTo(k - 1), x), !.refs = r]
  BY DEF ExpandInclude
<1> HIDE DEF k
<1>3. PICK x, r : part' = [part EXCEPT !.line = k, !.text = Append(CopiedTo(k - 1), x), !.refs = r]
  BY <1>2
<1>4. DOMAIN part = {"number", "line", "text", "refs"} /\ PartInv
  BY DEF ScanInv, CurrentInv, FirstPart, SourceInv
<1>5. part'.number = part.number /\ part'.line = k /\ part'.text = Append(CopiedTo(k - 1), x)
  BY <1>3, <1>4
<1>6. /\ part.number \in DOMAIN chunks /\ stage = "done"
      /\ PartLines = 1..Cardinality(PartLines) /\ Cardinality(PartLines) \in Nat
  BY <1>1, PartFacts
<1>7. k \in Pending
  <2>1. Pending \in SUBSET Nat
    BY <1>6 DEF Pending
  <2>2. \E n \in Pending : \A m \in Pending : n <= m
    BY <1>1, <2>1, LeastNumber
  <2> QED
    BY <2>2 DEF k, Min
<1>8. /\ k \in PartLines /\ k > part.line /\ part.line \in Nat
      /\ current.group = "tutorial" /\ IsInclude(Line(k).text)
  BY <1>4, <1>7 DEF Pending, PartInv
<1>9. k \in Nat /\ k - 1 \in Nat /\ part.line <= k - 1 /\ k <= Cardinality(PartLines) /\ (k - 1) + 1 = k
  BY <1>6, <1>8
<1> DEFINE c == CopiedTo(k - 1)
<1>10. /\ \E T : c \in Seq(T)
       /\ Len(c) = k - 1
       /\ \A j \in 1..(k - 1) : (current.group = "tutorial" /\ IsInclude(Line(j).text)) \/ c[j] = Said(j)
  BY <1>4, <1>9, CopiedFacts
<1> HIDE DEF c
<1>11. PICK T : c \in Seq(T)
  BY <1>10
<1> DEFINE S == T \cup {x}
           t == Append(c, x)
<1>12. c \in Seq(S) /\ x \in S
  BY <1>11, SeqMonotonic
<1> HIDE DEF S
<1>13. t \in Seq(S) /\ Len(t) = k /\ \A j \in 1..(k - 1) : t[j] = c[j]
  BY <1>9, <1>10, <1>12, AppendProperties
<1> HIDE DEF t
<1>14. t \in Seq(ToSet(t))
  <2>1. t \in [1..k -> ToSet(t)]
    BY <1>13 DEF ToSet
  <2> QED
    BY <1>9, <2>1, FunctionIsSeq
<1>15. ASSUME NEW j \in 1..k PROVE (current.group = "tutorial" /\ IsInclude(Line(j).text)) \/ t[j] = Said(j)
  <2>1. CASE j = k
    BY <1>8, <2>1
  <2>2. CASE j # k
    <3>1. j \in 1..(k - 1)
      BY <1>9, <2>2
    <3> QED
      BY <1>10, <1>13, <3>1
  <2> QED
    BY <2>1, <2>2
<1>16. PartInv'
  <2>1. /\ part'.text = t /\ part'.line = k /\ part'.number = part.number
        /\ UNCHANGED <<current, chunks, lines, stage>>
    BY <1>1, <1>5 DEF t, c, chunkingVars
  <2>2. PartLines' = PartLines /\ part'.line <= Cardinality(PartLines)
    BY <1>9, <2>1 DEF PartLines
  <2>3. \A j : Line(j)' = Line(j) /\ Said(j)' = Said(j)
    BY <2>1 DEF Line, Said
  <2>4. \A j \in 1..part'.line : (current'.group = "tutorial" /\ IsInclude(Line(j).text)') \/ part'.text[j] = Said(j)'
    BY <1>15, <2>1, <2>3
  <2>5. ~(stage' # "done" \/ part'.number > Len(chunks'))
    <3>1. part.number <= Len(chunks) /\ part.number \in Nat /\ Len(chunks) \in Nat
      <4>1. chunks \in Seq(Span)
        BY LineFacts DEF ScanInv, ChunkingInv
      <4> QED
        BY <1>6, <4>1
    <3> QED
      BY <1>6, <2>1, <3>1
  <2> QED
    BY <1>9, <1>13, <1>14, <2>1, <2>2, <2>4, <2>5 DEF PartInv
<1>17. (\A n \in DOMAIN discovered : discovered[n] # current =>
         Whole(index, discovered[n].path, Versions(discovered[n].path)))'
  BY <1>1 DEF SourceInv, Versions
<1>18. (current # NoFile => \E f \in Versions(current.path) : FromVersion(f))'
  BY <1>1 DEF SourceInv, Versions, FromVersion, chunkingVars
<1>19. (current # NoFile => \A n \in 1..(part.number - 1) : Recording(index, current.path, page, chunks[n]))'
  BY <1>1, <1>5 DEF SourceInv, chunkingVars
<1> QED
  BY <1>16, <1>17, <1>18, <1>19 DEF SourceInv

\* What is recorded of a chunk repeats its lines, but for the includes (build_index).
LEMMA PartRepeats ==
    ASSUME ScanInv, SourceInv, Chunked, NEW new, new.group = current.group, new.page = page,
           new.first = chunks[part.number][1], new.last = chunks[part.number][2], new.text = PartText
    PROVE  Repeats(new, BodyOf(page, lines))
<1> DEFINE first == chunks[part.number][1]
           last == chunks[part.number][2]
           w == Cardinality(PartLines)
<1>1. /\ first \in Nat \ {0} /\ last \in Nat /\ first <= last /\ last <= Len(lines)
      /\ w \in Nat /\ w = last - first + 1
  BY PartFacts
<1>2. PartInv /\ part.line <= w
  <2>1. part.number <= Len(chunks)
    BY DEF Chunked
  <2> QED
    BY <2>1 DEF SourceInv, PartInv
<1>3. PartText = CopiedTo(w)
  BY DEF PartText
<1> HIDE DEF w
<1>4. /\ \E T : PartText \in Seq(T)
      /\ Len(PartText) = w
      /\ \A k \in 1..w : (current.group = "tutorial" /\ IsInclude(Line(k).text)) \/ PartText[k] = Said(k)
  BY <1>1, <1>2, <1>3, CopiedFacts
<1>5. DOMAIN PartText = 1..w
  BY <1>4
<1>6. \A k : Line(k) = lines[first + k - 1] /\ Said(k) = <<Line(k).text>>
  BY DEF Line, Said
<1>7. new.first = first /\ new.last = last
  OBVIOUS
<1> HIDE DEF first, last
<1>8. \A k \in DOMAIN PartText : \/ current.group = "tutorial" /\ IsInclude(lines[first + k - 1].text)
                                 \/ PartText[k] = <<lines[first + k - 1].text>>
  BY <1>4, <1>5, <1>6
<1> QED
  BY <1>1, <1>4, <1>7, <1>8 DEF Repeats, BodyOf

\* A chunk is recorded with the lines it names, of the version that was read
\* (build_index).
LEMMA RecordChunkKeeps == ASSUME ScanInv, SourceInv, RecordChunk PROVE SourceInv'
<1> DEFINE N == part.number
           first == chunks[N][1]
           last == chunks[N][2]
           new == [id |-> <<"chunk", Len(index)>>, path |-> current.path, group |-> current.group,
                   page |-> page, first |-> first, last |-> last, text |-> PartText, refs |-> part.refs]
<1>1. /\ Chunked /\ index' = Append(index, new) /\ part' = [FirstPart EXCEPT !.number = N + 1]
      /\ UNCHANGED <<chunkingVars, corpus, current, pages, page, discovered>>
  BY DEF RecordChunk, history, accounts
<1>2. /\ N \in DOMAIN chunks /\ N \in Nat \ {0} /\ current # NoFile
      /\ first \in Nat \ {0} /\ last \in Nat /\ first <= last /\ last <= Len(lines)
      /\ Cardinality(PartLines) \in Nat /\ Cardinality(PartLines) = last - first + 1
  BY <1>1, PartFacts
<1>3. /\ PartInv /\ CurrentInv /\ ChunkingTypeOK /\ IndexInv
  BY DEF ScanInv, SourceInv, ChunkingInv
<1>4. /\ new.path = current.path /\ new.group = current.group /\ new.page = page
      /\ new.first = first /\ new.last = last /\ new.text = PartText
  OBVIOUS
<1> HIDE DEF new
<1>5. Repeats(new, BodyOf(page, lines))
  BY <1>1, <1>4, PartRepeats
<1> HIDE DEF first, last
<1>6. /\ \A n \in DOMAIN index : n \in DOMAIN index' /\ index'[n] = index[n]
      /\ Len(index) + 1 \in DOMAIN index' /\ index'[Len(index) + 1] = new
      /\ \A n \in DOMAIN index' : n \in DOMAIN index \/ index'[n] = new
  <2> DEFINE S == ToSet(index) \cup {new}
  <2>1. index \in Seq(ToSet(index)) /\ ToSet(index) \subseteq S /\ new \in S
    BY <1>3 DEF IndexInv
  <2> HIDE DEF S
  <2>2. index \in Seq(S)
    BY <2>1, SeqMonotonic
  <2>3. Len(index) + 1 \in 1..(Len(index) + 1)
    BY <2>2
  <2> QED
    BY <1>1, <2>1, <2>2, <2>3, AppendSet
<1>7. Grows(index, index')
  BY <1>6 DEF Grows
<1>8. (\A n \in DOMAIN discovered : discovered[n] # current =>
         Whole(index, discovered[n].path, Versions(discovered[n].path)))'
  <2> SUFFICES ASSUME NEW n \in DOMAIN discovered, discovered[n] # current, NEW p, p = discovered[n].path
               PROVE  Whole(index', p, Versions(p))
    BY <1>1 DEF Versions
  <2>1. p # current.path
    BY <1>2, <1>3 DEF CurrentInv
  <2>2. Whole(index, p, Versions(p))
    BY DEF SourceInv
  <2>3. \A m \in DOMAIN index' : m \in DOMAIN index \/ index'[m].path # p
    BY <1>4, <1>6, <2>1
  <2> QED
    BY <1>7, <2>2, <2>3, WholeKept
<1>9. PICK f \in Versions(current.path) : FromVersion(f)
  BY <1>2 DEF SourceInv
<1>10. BodyOf(page, lines) \in Bodies(f)
  <2>1. chunks # <<>>
    BY <1>2
  <2>2. page # 0 \/ current.group # "pdf"
    BY <1>3, <2>1 DEF CurrentInv
  <2> QED
    BY <1>9, <2>2 DEF FromVersion
<1>11. FromVersion(f)'
  <2>1. UNCHANGED <<lines, page, pages, current>>
    BY <1>1 DEF chunkingVars
  <2>2. Faithful(index', current.path, f)
    <3> SUFFICES ASSUME NEW n \in DOMAIN index', index'[n].path = current.path
                 PROVE  \E b \in Bodies(f) : Repeats(index'[n], b)
      BY DEF Faithful
    <3>1. CASE n \in DOMAIN index
      <4>1. index'[n] = index[n]
        BY <1>6, <3>1
      <4> QED
        BY <1>9, <3>1, <4>1 DEF FromVersion, Faithful
    <3>2. CASE index'[n] = new
      BY <1>5, <1>10, <3>2
    <3> QED
      BY <1>6, <3>1, <3>2
  <2>3. \A b \in Bodies(f) : Covered(index, current.path, b) => Covered(index', current.path, b)
    BY <1>7, CoveredKept
  <2> QED
    BY <1>9, <2>1, <2>2, <2>3 DEF FromVersion
<1>12. (\E v \in Versions(current.path) : FromVersion(v))'
  <2>1. f \in Versions(current.path)'
    BY <1>1, <1>9 DEF Versions
  <2> QED
    BY <1>11, <2>1
<1>13. part'.number = N + 1 /\ part'.line = 0 /\ part'.text = <<>>
  BY <1>1 DEF FirstPart
<1>14. (\A n \in 1..(part.number - 1) : Recording(index, current.path, page, chunks[n]))'
  <2> SUFFICES ASSUME NEW n \in 1..N PROVE Recording(index', current.path, page, chunks[n])
    BY <1>1, <1>2, <1>13 DEF chunkingVars
  <2>1. CASE n = N
    <3>1. new.first = chunks[n][1] /\ new.last = chunks[n][2]
      BY <1>4, <2>1 DEF first, last
    <3> QED
      BY <1>4, <1>6, <3>1 DEF Recording
  <2>2. CASE n # N
    <3>1. n \in 1..(N - 1)
      BY <1>2, <2>2
    <3>2. Recording(index, current.path, page, chunks[n])
      BY <1>2, <3>1 DEF SourceInv
    <3> QED
      BY <1>7, <3>2 DEF Recording, Grows
  <2> QED
    BY <2>1, <2>2
<1>15. PartInv'
  <2>1. ScanInv'
    BY RecordChunkInv
  <2>2. ChunkingTypeOK'
    BY <2>1 DEF ScanInv, ChunkingInv
  <2>3. part'.number \in Nat \ {0}
    BY <1>2, <1>13
  <2> QED
    BY <1>13, <2>2, <2>3, NothingCopiedNext
<1> QED
  BY <1>8, <1>12, <1>14, <1>15 DEF SourceInv

\* The file that is read is a version of its source, and the index has nothing of it yet
\* (build_index, _iter_files).
LEMMA NewFile ==
    ASSUME ScanInv, NextFile, NEW e, e = Head(listing), e \in Entry, e \in Candidates(corpus),
           \A n \in DOMAIN discovered : discovered[n].path # e.path
    PROVE  /\ disk[e.path] \in Versions(e.path) /\ disk[e.path] \in {NotThere} \cup Source(e.group)
           /\ disk[e.path] \in FileContents
           /\ \A f : Faithful(index, e.path, f)
<1>1. FilesInv /\ IndexInv
  BY DEF ScanInv
<1>2. e.path \in Paths
  BY EntryFacts
<1>3. corpus \in Corpora /\ disk[e.path] \in Versions(e.path)
  BY <1>1, <1>2, DiskVersion DEF FilesInv
<1>4. Versions(e.path) \subseteq {NotThere} \cup Source(e.group)
  BY <1>3, ScanAssumption DEF Versions
<1>5. disk[e.path] \in FileContents
  BY <1>1, <1>2, DiskFacts
<1>6. ASSUME NEW n \in DOMAIN index PROVE index[n].path # e.path
  <2>1. PICK k \in DOMAIN discovered : discovered[k] = [path |-> index[n].path, group |-> index[n].group]
    BY <1>1 DEF IndexInv, Recorded
  <2> QED
    BY <2>1
<1> QED
  BY <1>3, <1>4, <1>5, <1>6 DEF Faithful

\* The files discovered before are in the index as they were (build_index).
LEMMA OthersKept ==
    ASSUME ScanInv, SourceInv, NextFile, UNCHANGED <<corpus, index>>, NEW e,
           ToSet(discovered') = ToSet(discovered) \cup {e}
    PROVE  \A n \in DOMAIN discovered' :
             discovered'[n] # e => Whole(index', discovered'[n].path, Versions(discovered'[n].path))
<1> SUFFICES ASSUME NEW n \in DOMAIN discovered', discovered'[n] # e
             PROVE  Whole(index, discovered'[n].path, Versions(discovered'[n].path))
  OBVIOUS
<1>1. discovered'[n] \in ToSet(discovered)
  BY DEF ToSet
<1>2. PICK m \in DOMAIN discovered : discovered[m] = discovered'[n]
  BY <1>1 DEF ToSet
<1>3. discovered \in Seq(Entry) /\ current = NoFile
  BY DEF ScanInv, ListingInv, NextFile
<1>4. discovered[m] \in Entry
  BY <1>2, <1>3
<1>5. discovered[m] # current
  BY <1>3, <1>4, EntryFacts
<1>6. Whole(index, discovered[m].path, Versions(discovered[m].path))
  BY <1>5 DEF SourceInv
<1> QED
  BY <1>2, <1>6

\* What is chunked of code or of a document is all of what was read (_read_text).
LEMMA OpenTextKeeps == ASSUME ScanInv, SourceInv, OpenText PROVE SourceInv'
<1>1. PICK e : e = Head(listing)
  OBVIOUS
<1>2. /\ NextFile /\ e.group # "pdf" /\ disk[e.path] # NotThere /\ current = NoFile
      /\ current' = e /\ listing' = Tail(listing) /\ discovered' = Append(discovered, e)
      /\ UNCHANGED <<corpus, touched, disk, walked, seen, pages, page, part, index>>
  BY <1>1 DEF OpenText, NextFile, history, files
<1>3. lines' = disk[e.path].lines
  BY <1>1 DEF OpenText, StartChunker, Chunker
<1>4. /\ e \in Entry /\ e \in Candidates(corpus) /\ ToSet(discovered') = ToSet(discovered) \cup {e}
      /\ \A n \in DOMAIN discovered : discovered[n].path # e.path
  BY <1>1, <1>2, TakeFile
<1>5. pages = <<>> /\ page = 0 /\ part = FirstPart
  BY <1>2 DEF ScanInv, CurrentInv
<1>6. PICK f : f = disk[e.path]
  OBVIOUS
<1>7. f \in Versions(e.path) /\ f \in {NotThere} \cup Source(e.group) /\ Faithful(index, e.path, f)
  BY <1>1, <1>2, <1>4, <1>6, NewFile
<1>8. f.type = "text"
  BY <1>2, <1>6, <1>7 DEF Source, TextOf
<1>9. Bodies(f) = {BodyOf(0, f.lines)}
  BY <1>8, BodiesFacts
<1>10. FromVersion(f)'
  <2>1. BodyOf(page', lines') = BodyOf(0, f.lines)
    BY <1>2, <1>3, <1>5, <1>6
  <2>2. DOMAIN pages' = {}
    BY <1>2, <1>5
  <2>3. Faithful(index', current'.path, f)
    BY <1>2, <1>7
  <2> QED
    BY <1>9, <2>1, <2>2, <2>3 DEF FromVersion
<1>11. (\E v \in Versions(current.path) : FromVersion(v))'
  <2>1. f \in Versions(current.path)'
    BY <1>2, <1>7 DEF Versions
  <2> QED
    BY <1>10, <2>1
<1>12. (\A n \in DOMAIN discovered : discovered[n] # current =>
         Whole(index, discovered[n].path, Versions(discovered[n].path)))'
  <2>1. \A n \in DOMAIN discovered' :
          discovered'[n] # e => Whole(index', discovered'[n].path, Versions(discovered'[n].path))
    BY <1>2, <1>4, OthersKept
  <2> QED
    BY <1>2, <2>1 DEF Versions
<1>13. PartInv' /\ 1..(part'.number - 1) = {}
  <2>1. ScanInv'
    BY OpenTextInv
  <2>2. ChunkingTypeOK'
    BY <2>1 DEF ScanInv, ChunkingInv
  <2>3. part'.line = 0 /\ part'.text = <<>> /\ part'.number = 1
    BY <1>2, <1>5 DEF FirstPart
  <2> QED
    BY <2>2, <2>3, NothingCopiedNext
<1> QED
  BY <1>11, <1>12, <1>13 DEF SourceInv

\* The pages to be chunked are the texts of the file, but for empty ones (_read_pdf_pages).
LEMMA PdfBodies ==
    ASSUME NEW f \in FileContents, f \in {NotThere} \cup Source("pdf")
    PROVE  /\ \A n \in DOMAIN PdfPages(f) : BodyOf(PdfPages(f)[n].number, PdfPages(f)[n].lines) \in Bodies(f)
           /\ \A b \in Bodies(f) : \/ b.lines = <<>>
                                   \/ \E n \in DOMAIN PdfPages(f) : b = BodyOf(PdfPages(f)[n].number, PdfPages(f)[n].lines)
<1>1. CASE f = NotThere
  <2>1. f.type = "absent"
    BY <1>1 DEF NotThere
  <2>2. PdfPages(f) = <<>> /\ Bodies(f) = {}
    BY <2>1, BodiesFacts DEF PdfPages
  <2> QED
    BY <2>2
<1>2. CASE f \in PdfFile /\ ~f.readable
  <2>1. f.type = "pdf"
    BY <1>2 DEF PdfFile
  <2>2. PdfPages(f) = <<>> /\ Bodies(f) = {}
    BY <1>2, <2>1, BodiesFacts DEF PdfPages
  <2> QED
    BY <2>2
<1>3. CASE f \in PdfFile /\ f.readable
  <2> DEFINE S == {k \in DOMAIN f.pages : f.pages[k] # <<>>}
             kept == Ascending(S)
             ps == [n \in DOMAIN kept |-> [number |-> kept[n], lines |-> f.pages[kept[n]]]]
  <2>1. f.type = "pdf" /\ f.pages \in Seq(Seq(DocLine))
    BY <1>3 DEF PdfFile
  <2>2. PdfPages(f) = ps
    BY <1>3, <2>1 DEF PdfPages
  <2>3. Bodies(f) = {BodyOf(k, f.pages[k]) : k \in DOMAIN f.pages}
    BY <1>3, <2>1, BodiesFacts
  <2>4. Len(f.pages) \in Nat /\ DOMAIN f.pages = 1..Len(f.pages)
    BY <2>1
  <2>5. S \in SUBSET (1..Len(f.pages))
    BY <2>4
  <2>6. kept \in Seq(S) /\ \A k \in S : \E m \in DOMAIN kept : kept[m] = k
    <3> HIDE DEF S
    <3>1. kept \in Seq(S)
      BY <2>4, <2>5, AscendingFacts
    <3>2. ASSUME NEW k \in S PROVE \E m \in DOMAIN kept : kept[m] = k
      <4>1. Enumerates(kept, S)
        BY <2>4, <2>5, AscendingFacts
      <4>2. PICK l \in Nat : S \in SUBSET (1..l)
        BY <2>4, <2>5
      <4> HIDE DEF kept
      <4> QED
        BY <4>1, <4>2, EnumeratesAll
    <3> QED
      BY <3>1, <3>2
  <2> HIDE DEF kept
  <2>7. \A n \in DOMAIN kept : kept[n] \in S
    BY <2>6
  <2>8. \A n \in DOMAIN ps : BodyOf(ps[n].number, ps[n].lines) = BodyOf(kept[n], f.pages[kept[n]]) /\ kept[n] \in S
    BY <2>7
  <2>9. DOMAIN ps = DOMAIN kept
    OBVIOUS
  <2> HIDE DEF ps
  <2>10. \A n \in DOMAIN ps : BodyOf(ps[n].number, ps[n].lines) \in Bodies(f)
    BY <2>3, <2>8
  <2>11. ASSUME NEW b \in Bodies(f), b.lines # <<>>
         PROVE  \E n \in DOMAIN ps : b = BodyOf(ps[n].number, ps[n].lines)
    <3>1. PICK k \in DOMAIN f.pages : b = BodyOf(k, f.pages[k])
      BY <2>3
    <3>2. k \in S
      BY <2>11, <3>1 DEF BodyOf
    <3>3. PICK m \in DOMAIN kept : kept[m] = k
      BY <2>6, <3>2
    <3> QED
      BY <2>8, <2>9, <3>1, <3>3
  <2> QED
    BY <2>2, <2>10, <2>11
<1> QED
  BY <1>1, <1>2, <1>3 DEF Source

\* Every page of a PDF is to be chunked, or is empty, or the PDF has no text at all
\* (build_index, _read_pdf_pages).
LEMMA ReadPdfKeeps == ASSUME ScanInv, SourceInv, ReadPdf PROVE SourceInv'
<1>1. PICK e : e = Head(listing)
  OBVIOUS
<1>2. /\ NextFile /\ e.group = "pdf" /\ e.path \notin seen /\ current = NoFile
      /\ listing' = Tail(listing) /\ discovered' = Append(discovered, e) /\ seen' = seen \cup {e.path}
      /\ UNCHANGED <<chunkingVars, corpus, touched, disk, walked, page, part, index>>
  BY <1>1 DEF ReadPdf, DiscoverPdf, AtPdf, NextFile, history, files
<1>3. PICK f : f = disk[e.path]
  OBVIOUS
<1>4. \/ PdfPages(f) = <<>> /\ current' = current /\ pages' = pages
      \/ current' = e /\ pages' = PdfPages(f)
  BY <1>1, <1>3 DEF ReadPdf, SkipPdf, OpenPdf
<1>5. /\ e \in Entry /\ e \in Candidates(corpus) /\ ToSet(discovered') = ToSet(discovered) \cup {e}
      /\ \A n \in DOMAIN discovered : discovered[n].path # e.path
  BY <1>1, <1>2, TakeFile
<1>6. /\ f \in Versions(e.path) /\ f \in {NotThere} \cup Source("pdf") /\ f \in FileContents
      /\ Faithful(index, e.path, f)
  BY <1>1, <1>2, <1>3, <1>5, NewFile
<1>7. /\ \A n \in DOMAIN PdfPages(f) : BodyOf(PdfPages(f)[n].number, PdfPages(f)[n].lines) \in Bodies(f)
      /\ \A b \in Bodies(f) : \/ b.lines = <<>>
                              \/ \E n \in DOMAIN PdfPages(f) : b = BodyOf(PdfPages(f)[n].number, PdfPages(f)[n].lines)
  BY <1>6, PdfBodies
<1>8. \A b : b.lines = <<>> => Covered(index, e.path, b)
  BY DEF Covered
<1>9. page = 0 /\ part = FirstPart
  BY <1>2 DEF ScanInv, CurrentInv
<1>10. \A n \in DOMAIN discovered' :
         discovered'[n] # e => Whole(index', discovered'[n].path, Versions(discovered'[n].path))
  BY <1>2, <1>5, OthersKept
<1>11. PartInv' /\ 1..(part'.number - 1) = {}
  <2>1. ScanInv'
    BY ReadPdfInv
  <2>2. ChunkingTypeOK'
    BY <2>1 DEF ScanInv, ChunkingInv
  <2>3. part'.line = 0 /\ part'.text = <<>> /\ part'.number = 1
    BY <1>2, <1>9 DEF FirstPart
  <2> QED
    BY <2>2, <2>3, NothingCopiedNext
<1>12. CASE PdfPages(f) = <<>> /\ current' = current
  <2>1. \A b \in Bodies(f) : Covered(index, e.path, b)
    BY <1>7, <1>8, <1>12
  <2>2. Whole(index, e.path, Versions(e.path))
    BY <1>6, <2>1 DEF Whole
  <2>3. (\A n \in DOMAIN discovered : discovered[n] # current =>
           Whole(index, discovered[n].path, Versions(discovered[n].path)))'
    BY <1>2, <1>10, <2>2 DEF Versions
  <2> QED
    BY <1>2, <1>11, <1>12, <2>3 DEF SourceInv
<1>13. CASE current' = e /\ pages' = PdfPages(f)
  <2>1. FromVersion(f)'
    <3>1. Faithful(index', current'.path, f)
      BY <1>2, <1>6, <1>13
    <3>2. \A n \in DOMAIN pages' : BodyOf(pages'[n].number, pages'[n].lines) \in Bodies(f)
      BY <1>7, <1>13
    <3>3. \A b \in Bodies(f) : \/ Covered(index', current'.path, b)
                               \/ \E n \in DOMAIN pages' : b = BodyOf(pages'[n].number, pages'[n].lines)
      BY <1>2, <1>7, <1>8, <1>13
    <3>4. ~(page' # 0 \/ current'.group # "pdf")
      BY <1>2, <1>9, <1>13
    <3> QED
      BY <3>1, <3>2, <3>3, <3>4 DEF FromVersion
  <2>2. (\E v \in Versions(current.path) : FromVersion(v))'
    <3>1. f \in Versions(current.path)'
      BY <1>2, <1>6, <1>13 DEF Versions
    <3> QED
      BY <2>1, <3>1
  <2>3. (\A n \in DOMAIN discovered : discovered[n] # current =>
           Whole(index, discovered[n].path, Versions(discovered[n].path)))'
    BY <1>2, <1>10, <1>13 DEF Versions
  <2> QED
    BY <1>11, <2>2, <2>3 DEF SourceInv
<1> QED
  BY <1>4, <1>12, <1>13

\* Every step of the scan keeps the texts of the chunks true (build_index).
LEMMA ScanNextKeeps == ASSUME ScanInv, SourceInv, [ScanNext]_<<chunkingVars, scanVars>> PROVE SourceInv'
<1>1. CASE ListDirectory \/ SkipSeen \/ FileRaises \/ IncludeRaises \/ Edit \/ UNCHANGED <<chunkingVars, scanVars>>
  <2>1. UNCHANGED <<corpus, index, discovered, current, page, pages, part, lines, chunks, stage>>
    BY <1>1 DEF ListDirectory, SkipSeen, FileRaises, IncludeRaises, Raise, Edit, chunkingVars, scanVars, history, accounts
  <2> QED
    BY <2>1, SourceFrame
<1>2. CASE OpenText \/ ReadPdf \/ ChunkSource \/ ExpandInclude \/ RecordChunk \/ BeginPage \/ EndFile
  BY <1>2, OpenTextKeeps, ReadPdfKeeps, ChunkSourceKeeps, ExpandIncludeKeeps, RecordChunkKeeps, BeginPageKeeps,
     EndFileKeeps
<1>3. CASE Identify \/ Rescan
  BY <1>3, IdentifyKeeps, RescanKeeps
<1> QED
  BY <1>1, <1>2, <1>3 DEF ScanNext

\* Whatever is edited meanwhile, what the index has of a file is one version of it, as
\* far as the scan has come (build_index with expand_includes, on all of ScanSpec).
THEOREM SourceInvariant == ScanSpec => []SourceInv
<1>1. ScanInit => SourceInv
  <2> SUFFICES ASSUME ScanInit PROVE SourceInv
    OBVIOUS
  <2>1. discovered = <<>> /\ current = NoFile /\ part = FirstPart /\ ScanInv
    BY ScanInitInv DEF ScanInit, ScanInitOf
  <2>2. ChunkingTypeOK /\ part.line = 0 /\ part.text = <<>> /\ part.number \in Nat \ {0}
    BY <2>1 DEF ScanInv, ChunkingInv, FirstPart
  <2>3. PartInv
    BY <2>2, NothingCopied
  <2> QED
    BY <2>1, <2>3 DEF SourceInv
<1>2. ScanInv /\ SourceInv /\ [ScanNext]_<<chunkingVars, scanVars>> => SourceInv'
  BY ScanNextKeeps
<1> QED
  BY <1>1, <1>2, ScanInvariant, PTL DEF ScanSpec

\* "source-preserving" (chunker_version): in every index all chunks of a file come from
\* one version of it, under its own line and page numbers, and together hold all its
\* text, however files change while they are scanned.
THEOREM SourcesPreserved == ScanSpec => []SourcePreserving
<1>1. ScanInv /\ SourceInv => SourcePreserving
  <2> SUFFICES ASSUME ScanInv, SourceInv PROVE SourcePreserving
    OBVIOUS
  <2>1. NothingLost
    BY ChunkingInvImplies DEF ScanInv
  <2>2. ASSUME Built, NEW e \in ToSet(discovered)
        PROVE  \E f \in Versions(e.path) :
                 /\ \A c \in ChunksOf(e.path) : \E b \in Bodies(f) : Repeats(c, b)
                 /\ \A b \in Bodies(f) : \A k \in DOMAIN b.lines : ~b.lines[k].blank =>
                      \E c \in ChunksOf(e.path) : c.page = b.page /\ c.first <= k /\ k <= c.last
    <3>1. PICK n \in DOMAIN discovered : discovered[n] = e
      BY <2>2 DEF ToSet
    <3>2. discovered \in Seq(Entry) /\ current = NoFile
      BY <2>2 DEF ScanInv, ListingInv, CurrentInv, Built
    <3>3. discovered[n] \in Entry
      BY <3>1, <3>2
    <3>4. discovered[n] # current
      BY <3>2, <3>3, EntryFacts
    <3>5. Whole(index, e.path, Versions(e.path))
      BY <3>1, <3>4 DEF SourceInv
    <3>6. PICK f \in Versions(e.path) : Faithful(index, e.path, f) /\ \A b \in Bodies(f) : Covered(index, e.path, b)
      BY <3>5 DEF Whole
    <3>7. \A c \in ChunksOf(e.path) : \E b \in Bodies(f) : Repeats(c, b)
      BY <3>6 DEF Faithful, ChunksOf, ToSet
    <3>8. ASSUME NEW b \in Bodies(f), NEW k \in DOMAIN b.lines, ~b.lines[k].blank
          PROVE  \E c \in ChunksOf(e.path) : c.page = b.page /\ c.first <= k /\ k <= c.last
      <4>1. PICK m \in DOMAIN index : /\ index[m].path = e.path /\ index[m].page = b.page
                                      /\ index[m].first <= k /\ k <= index[m].last
        BY <3>6, <3>8 DEF Covered
      <4>2. index[m] \in ChunksOf(e.path)
        BY <4>1 DEF ChunksOf, ToSet
      <4> QED
        BY <4>1, <4>2
    <3> QED
      BY <3>7, <3>8
  <2> QED
    BY <2>1, <2>2 DEF SourcePreserving
<1> QED
  BY <1>1, ScanInvariant, SourceInvariant, PTL

-----------------------------------------------------------------------------
(* Includes. *)

\* f holds the first 1, 2, ... n of the sequences s, put together.
JoinedTo(f, s, n) == f = [k \in 1..n |-> IF k = 1 THEN s[k] ELSE f[k - 1] \o s[k]]

\* Sequences can be put together one after the other (include_references of build_index).
LEMMA JoinsExist == ASSUME NEW s, NEW n \in Nat PROVE \E f : JoinedTo(f, s, n)
<1> DEFINE T == {m \in Nat : ~\E f : JoinedTo(f, s, m)}
<1> SUFFICES ASSUME T # {} PROVE FALSE
  OBVIOUS
<1>1. PICK j \in T : \A m \in T : j <= m
  <2>1. T \in SUBSET Nat
    OBVIOUS
  <2> HIDE DEF T
  <2> QED
    BY <2>1, LeastNumber
<1>2. j \in Nat /\ ~\E f : JoinedTo(f, s, j)
  BY <1>1
<1>3. j # 0
  <2>1. JoinedTo([k \in 1..0 |-> 0], s, 0)
    BY DEF JoinedTo
  <2> QED
    BY <1>2, <2>1
<1>4. j - 1 \in Nat /\ ~(j <= j - 1)
  BY <1>2, <1>3
<1>5. PICK f : JoinedTo(f, s, j - 1)
  BY <1>1, <1>4
<1> DEFINE more == [k \in 1..j |-> IF k = j THEN IF k = 1 THEN s[k] ELSE f[k - 1] \o s[k] ELSE f[k]]
<1>6. ASSUME NEW k \in 1..j PROVE more[k] = IF k = 1 THEN s[k] ELSE more[k - 1] \o s[k]
  <2>1. k # 1 => k - 1 \in 1..j /\ k - 1 # j
    BY <1>2
  <2>2. k # 1 => more[k - 1] = f[k - 1]
    BY <2>1
  <2>3. CASE k = j
    BY <2>2, <2>3
  <2>4. CASE k # j
    <3>1. k \in 1..(j - 1) /\ more[k] = f[k]
      BY <1>2, <2>4
    <3>2. f[k] = IF k = 1 THEN s[k] ELSE f[k - 1] \o s[k]
      BY <1>5, <3>1 DEF JoinedTo
    <3> QED
      BY <2>2, <3>1, <3>2
  <2> QED
    BY <2>3, <2>4
<1>7. JoinedTo(more, s, j)
  <2>1. more = [k \in 1..j |-> more[k]]
    OBVIOUS
  <2> HIDE DEF more
  <2> QED
    BY <1>6, <2>1 DEF JoinedTo
<1> QED
  BY <1>2, <1>7

\* The references of all chunks, by the last step of putting them together (build_index).
LEMMA FlattenIsLast ==
    ASSUME NEW s, Len(s) \in Nat \ {0} PROVE \E f : JoinedTo(f, s, Len(s)) /\ FlattenSeq(s) = f[Len(s)]
<1> DEFINE n == Len(s)
           joined == CHOOSE f : f = [k \in 1..n |-> IF k = 1 THEN s[k] ELSE f[k - 1] \o s[k]]
<1>1. FlattenSeq(s) = joined[n] /\ n \in Nat
  BY DEF FlattenSeq
<1> HIDE DEF n
<1>2. \E f : f = [k \in 1..n |-> IF k = 1 THEN s[k] ELSE f[k - 1] \o s[k]]
  BY <1>1, JoinsExist DEF JoinedTo
<1>3. joined = [k \in 1..n |-> IF k = 1 THEN s[k] ELSE joined[k - 1] \o s[k]]
  BY <1>2
<1> HIDE DEF joined
<1>4. JoinedTo(joined, s, n)
  BY <1>3 DEF JoinedTo
<1> QED
  BY <1>1, <1>4 DEF n

\* One more chunk adds its references at the end (build_index).
LEMMA FlattenNext ==
    ASSUME NEW s, NEW t, Len(s) \in Nat, Len(t) = Len(s) + 1, \A k \in 1..Len(s) : t[k] = s[k]
    PROVE  FlattenSeq(t) = IF Len(s) = 0 THEN t[1] ELSE FlattenSeq(s) \o t[Len(t)]
<1> DEFINE n == Len(s)
<1>1. n \in Nat /\ Len(t) = n + 1 /\ n + 1 \in Nat \ {0} /\ \A k \in 1..n : t[k] = s[k]
  OBVIOUS
<1> HIDE DEF n
<1>2. PICK g : JoinedTo(g, t, n + 1) /\ FlattenSeq(t) = g[n + 1]
  BY <1>1, FlattenIsLast
<1>3. \A k \in 1..(n + 1) : g[k] = IF k = 1 THEN t[k] ELSE g[k - 1] \o t[k]
  BY <1>2 DEF JoinedTo
<1>4. CASE n = 0
  BY <1>1, <1>2, <1>3, <1>4 DEF n
<1>5. CASE n # 0
  <2>1. PICK f : JoinedTo(f, s, n) /\ FlattenSeq(s) = f[n]
    BY <1>1, <1>5, FlattenIsLast DEF n
  <2>2. \A k \in 1..n : f[k] = IF k = 1 THEN s[k] ELSE f[k - 1] \o s[k]
    BY <2>1 DEF JoinedTo
  <2> DEFINE T == {k \in 1..n : f[k] # g[k]}
  <2>3. ASSUME T # {} PROVE FALSE
    <3>1. PICK j \in T : \A m \in T : j <= m
      <4>1. T \in SUBSET Nat
        BY <1>1
      <4> HIDE DEF T
      <4> QED
        BY <2>3, <4>1, LeastNumber
    <3>2. j \in 1..n /\ j \in 1..(n + 1) /\ f[j] # g[j]
      BY <1>1, <3>1
    <3>3. j # 1
      BY <1>1, <1>3, <2>2, <3>2
    <3>4. j - 1 \in 1..n /\ ~(j <= j - 1)
      BY <1>1, <3>2, <3>3
    <3>5. f[j - 1] = g[j - 1]
      BY <3>1, <3>4
    <3> QED
      BY <1>1, <1>3, <2>2, <3>2, <3>3, <3>5
  <2>4. n \in 1..n /\ n + 1 \in 1..(n + 1) /\ n + 1 # 1 /\ (n + 1) - 1 = n
    BY <1>1, <1>5
  <2>5. f[n] = g[n]
    BY <2>3, <2>4
  <2>6. g[n + 1] = g[n] \o t[n + 1]
    BY <1>3, <2>4
  <2> QED
    BY <1>1, <1>2, <1>5, <2>1, <2>5, <2>6 DEF n
<1> QED
  BY <1>4, <1>5

\* Nothing is noted of no lines (expand_includes).
LEMMA NothingNoted == ASSUME NEW c, NEW text, NEW ls, NEW a PROVE Noted(c, <<>>, text, ls, a, 0)
<1> DEFINE S == {k \in 1..0 : IsInclude(ls[a + k - 1].text)}
<1>1. S = {} /\ S \in SUBSET (1..0) /\ 0 \in Nat
  OBVIOUS
<1>2. Ascending(S) \in Seq(S) /\ Len(Ascending(S)) = Cardinality(S)
  <2> HIDE DEF S
  <2> QED
    BY <1>1, AscendingFacts
<1>3. Len(Ascending(S)) = 0
  BY <1>1, <1>2, FS_EmptySet
<1>4. DOMAIN Ascending(S) = {}
  <2> HIDE DEF S
  <2> QED
    BY <1>2, <1>3
<1>5. Len(<<>>) = 0
  OBVIOUS
<1> HIDE DEF S
<1> QED
  BY <1>3, <1>4, <1>5 DEF Noted, S

\* Lines without an include are only copied (expand_includes).
LEMMA NotedMore ==
    ASSUME NEW c, NEW refs, NEW text, NEW ls, NEW a, NEW l \in Nat, NEW m \in Nat, l <= m,
           Noted(c, refs, text, ls, a, l), NEW more, \A k \in 1..l : more[k] = text[k],
           \A k \in 1..m : k > l => ~IsInclude(ls[a + k - 1].text)
    PROVE  Noted(c, refs, more, ls, a, m)
<1> DEFINE S == {k \in 1..l : IsInclude(ls[a + k - 1].text)}
           R == {k \in 1..m : IsInclude(ls[a + k - 1].text)}
           at == Ascending(S)
<1>1. R = S
  OBVIOUS
<1>2. S \in SUBSET (1..l)
  OBVIOUS
<1>3. Len(refs) = Len(at) /\ \A n \in DOMAIN at : Expanded(c, refs[n], ls[a + at[n] - 1].text, text[at[n]])
  BY DEF Noted
<1> HIDE DEF S, R
<1>4. at \in Seq(S)
  BY <1>2, AscendingFacts
<1> HIDE DEF at
<1>5. \A n \in DOMAIN at : at[n] \in 1..l
  <2>1. \A n \in DOMAIN at : at[n] \in S
    BY <1>4
  <2> QED
    BY <1>2, <2>1
<1>6. \A n \in DOMAIN at : Expanded(c, refs[n], ls[a + at[n] - 1].text, more[at[n]])
  BY <1>3, <1>5
<1>7. at = Ascending(R)
  BY <1>1 DEF at
<1> QED
  BY <1>3, <1>6, <1>7 DEF Noted, R

\* The next include gets the next reference (expand_includes).
LEMMA NotedNext ==
    ASSUME NEW c, NEW refs, refs \in Seq(ToSet(refs)), NEW text, NEW ls, NEW a, NEW l \in Nat,
           Noted(c, refs, text, ls, a, l), IsInclude(ls[a + (l + 1) - 1].text),
           NEW more, \A k \in 1..l : more[k] = text[k],
           NEW r, Expanded(c, r, ls[a + (l + 1) - 1].text, more[l + 1])
    PROVE  Noted(c, Append(refs, r), more, ls, a, l + 1)
<1> DEFINE S == {k \in 1..l : IsInclude(ls[a + k - 1].text)}
           R == {k \in 1..(l + 1) : IsInclude(ls[a + k - 1].text)}
           at == Ascending(S)
           all == Ascending(R)
<1>1. R = S \cup {l + 1}
  OBVIOUS
<1>2. S \in SUBSET (1..l)
  OBVIOUS
<1>3. Len(refs) = Len(at) /\ \A n \in DOMAIN at : Expanded(c, refs[n], ls[a + at[n] - 1].text, text[at[n]])
  BY DEF Noted
<1> HIDE DEF S, R
<1>4. at \in Seq(S)
  BY <1>2, AscendingFacts
<1>5. /\ all \in Seq(S \cup {l + 1}) /\ Len(all) = Len(at) + 1
      /\ \A n \in 1..Len(at) : all[n] = at[n]
      /\ all[Len(at) + 1] = l + 1
  BY <1>1, <1>2, AscendingNext
<1> HIDE DEF at, all
<1>6. Len(at) \in Nat /\ DOMAIN at = 1..Len(at) /\ \A n \in DOMAIN at : at[n] \in 1..l
  <2>1. Len(at) \in Nat /\ DOMAIN at = 1..Len(at) /\ \A n \in DOMAIN at : at[n] \in S
    BY <1>4
  <2> QED
    BY <1>2, <2>1
<1>7. DOMAIN all = 1..(Len(at) + 1)
  BY <1>5, <1>6
<1> DEFINE T == ToSet(refs) \cup {r}
           new == Append(refs, r)
<1>8. refs \in Seq(T) /\ r \in T
  BY SeqMonotonic
<1> HIDE DEF T
<1>9. Len(new) = Len(at) + 1 /\ new[Len(at) + 1] = r /\ \A n \in 1..Len(at) : new[n] = refs[n]
  BY <1>3, <1>8, AppendProperties
<1> HIDE DEF new
<1>10. ASSUME NEW n \in 1..(Len(at) + 1) PROVE Expanded(c, new[n], ls[a + all[n] - 1].text, more[all[n]])
  <2>1. CASE n = Len(at) + 1
    BY <1>5, <1>9, <2>1
  <2>2. CASE n # Len(at) + 1
    <3>1. n \in 1..Len(at) /\ n \in DOMAIN at
      BY <1>6, <2>2
    <3>2. all[n] = at[n] /\ new[n] = refs[n] /\ more[at[n]] = text[at[n]]
      BY <1>5, <1>6, <1>9, <3>1
    <3> QED
      BY <1>3, <3>1, <3>2
  <2> QED
    BY <2>1, <2>2
<1> QED
  BY <1>5, <1>7, <1>9, <1>10 DEF Noted, R, all, new

\* A mark is one of the lines, if there is any (begins and ends of replace).
LEMMA MarkFacts ==
    ASSUME NEW ls, Len(ls) \in Nat, NEW name, NEW anchor, Mark(ls, name, anchor) # 0
    PROVE  /\ Mark(ls, name, anchor) \in 1..Len(ls)
           /\ ls[Mark(ls, name, anchor)].text = <<name, anchor>>
<1> DEFINE I == {k \in 1..Len(ls) : ls[k].text = <<name, anchor>>}
<1>1. Mark(ls, name, anchor) = IF I # {} THEN Min(I) ELSE 0
  BY DEF Mark, SelectInSeq
<1>2. I # {} /\ Mark(ls, name, anchor) = Min(I)
  BY <1>1
<1>3. I \in SUBSET Nat
  OBVIOUS
<1>4. Min(I) \in I
  <2> HIDE DEF I
  <2>1. \E k \in I : \A m \in I : k <= m
    BY <1>2, <1>3, LeastNumber
  <2> QED
    BY <2>1 DEF Min
<1> QED
  BY <1>2, <1>4

\* What replace inserts is what its record names, or a marker (expand_includes).
LEMMA ReplacementFacts ==
    ASSUME FilesInv, NEW said \in Seq(STRING), Len(said) = 3, said[1] = "include", said[2] \in Paths,
           ~Undecodable(said[2]), NEW r, r = Resolve(said[2], disk[said[2]], said[3])
    PROVE  Expanded(corpus, Reference(said, r), said, Replacement(disk[said[2]], r))
<1> DEFINE p == said[2]
           a == said[3]
           ref == Reference(said, r)
           x == Replacement(disk[p], r)
<1>1. said = <<"include", p, a>>
  <2>1. DOMAIN said = 1..3 /\ said \in [1..3 -> STRING]
    OBVIOUS
  <2>2. \A k \in 1..3 : k = 1 \/ k = 2 \/ k = 3
    OBVIOUS
  <2> QED
    BY <2>1, <2>2
<1>2. ref.path = p /\ ref.anchor = a /\ ref.status = r.status /\ ref.first = r.first /\ ref.last = r.last
  BY DEF Reference
<1>3. ASSUME r.status # "expanded" PROVE x = <<<<"unavailable", r.status>>>>
  BY <1>3 DEF Replacement
<1>4. ASSUME r.status = "expanded" PROVE p \notin Outside /\ \E f \in VersionsOf(corpus, p) : Shows(ref, f, x)
  <2>1. p \notin Outside /\ disk[p] # NotThere /\ r = Resolved(disk[p].lines, a)
    BY <1>4 DEF Resolve
  <2>2. PICK f : f = disk[p]
    OBVIOUS
  <2>3. f \in VersionsOf(corpus, p) /\ f \in FileContents
    BY <2>2, DiskFacts, DiskVersion DEF Versions
  <2>4. f.type = "text"
    BY <2>1, <2>2 DEF Undecodable
  <2>5. f.lines \in Seq(DocLine) \/ f.lines \in Seq(CodeLine)
    <3>1. f \notin PdfFile
      BY <2>4 DEF PdfFile
    <3> QED
      BY <2>1, <2>2, <2>3, <3>1 DEF FileContents, TextOf
  <2>6. PICK ls : ls = f.lines
    OBVIOUS
  <2>7. Len(ls) \in Nat
    BY <2>5, <2>6
  <2>8. r = Resolved(ls, a) /\ x = [k \in 1..(r.last - r.first + 1) |-> ls[r.first + k - 1].text]
    BY <1>4, <2>1, <2>2, <2>6 DEF Replacement
  <2> HIDE DEF x, ref
  <2>9. CASE a = ""
    <3>1. r.first = 1 /\ r.last = Len(ls)
      <4> HIDE DEF a
      <4>1. Resolved(ls, a) = WholeFile(ls)
        BY <2>9 DEF Resolved
      <4>2. WholeFile(ls).first = 1 /\ WholeFile(ls).last = Len(ls)
        BY DEF WholeFile
      <4> QED
        BY <2>8, <4>1, <4>2
    <3>2. ref.last <= Len(f.lines)
      BY <1>2, <2>6, <2>7, <3>1
    <3> QED
      BY <1>2, <2>1, <2>3, <2>4, <2>6, <2>8, <2>9, <3>2 DEF Shows
  <2>10. CASE a # ""
    <3> DEFINE b == Mark(ls, "begin", a)
               e == Mark(ls, "end", a)
    <3>1. ~(b = 0 \/ e = 0 \/ e <= b) /\ r.first = b + 1 /\ r.last = e - 1
      <4> DEFINE none == [status |-> "unsupported_or_missing_anchor", first |-> 0, last |-> 0]
                 some == [status |-> "expanded", first |-> b + 1, last |-> e - 1]
      <4> HIDE DEF a
      <4>1. Resolved(ls, a) = IF b = 0 \/ e = 0 \/ e <= b THEN none ELSE some
        BY <2>10 DEF Resolved
      <4>2. none.status # "expanded" /\ some.first = b + 1 /\ some.last = e - 1
        OBVIOUS
      <4> HIDE DEF b, e, none, some
      <4> QED
        BY <1>4, <2>8, <4>1, <4>2
    <3>2. /\ b \in 1..Len(ls) /\ ls[b].text = <<"begin", a>>
          /\ e \in 1..Len(ls) /\ ls[e].text = <<"end", a>>
      BY <2>7, <3>1, MarkFacts
    <3> HIDE DEF b, e
    <3>3. /\ r.last <= Len(ls) /\ r.first > 1 /\ r.first - 1 = b
          /\ r.last < Len(ls) /\ r.last + 1 = e
      BY <2>7, <3>1, <3>2
    <3>4. /\ ref.last <= Len(f.lines) /\ ref.first > 1 /\ f.lines[ref.first - 1].text = <<"begin", ref.anchor>>
          /\ ref.last < Len(f.lines) /\ f.lines[ref.last + 1].text = <<"end", ref.anchor>>
      BY <1>2, <2>6, <3>2, <3>3
    <3>5. x = [k \in 1..(ref.last - ref.first + 1) |-> f.lines[ref.first + k - 1].text]
      BY <1>2, <2>6, <2>8
    <3> QED
      BY <2>1, <2>3, <2>4, <3>4, <3>5 DEF Shows
  <2> QED
    BY <2>9, <2>10
<1> HIDE DEF x, ref
<1>5. Expanded(corpus, ref, said, x)
  BY <1>1, <1>2, <1>3, <1>4 DEF Expanded
<1> QED
  BY <1>5 DEF x, ref

\* The tutorial at hand is a version of it that was read as text (_read_text).
LEMMA TutorialFacts ==
    ASSUME ScanInv, SourceInv, IncludesInv, Reading, current.group = "tutorial"
    PROVE  /\ page = 0 /\ lines \in Seq(DocLine)
           /\ \E f \in Versions(current.path) : f.type = "text" /\ f.lines = lines
           /\ \A k \in DOMAIN lines : IsInclude(lines[k].text) => Len(lines[k].text) = 3 /\ lines[k].text[2] \in Paths
<1>1. current # NoFile /\ current \in Candidates(corpus) /\ corpus \in Corpora /\ CurrentInv
  BY DEF Reading, IncludesInv, ScanInv, FilesInv
<1>2. PICK f \in Versions(current.path) : FromVersion(f)
  BY <1>1 DEF SourceInv
<1>3. page = 0 /\ BodyOf(page, lines) \in Bodies(f)
  BY <1>1, <1>2 DEF CurrentInv, FromVersion
<1>4. f \in {NotThere} \cup Source("tutorial")
  BY <1>1, <1>2, ScanAssumption DEF Versions
<1>5. f # NotThere
  <2>1. NotThere.type = "absent"
    BY DEF NotThere
  <2>2. Bodies(NotThere) = {}
    BY <2>1, BodiesFacts
  <2> QED
    BY <1>3, <2>2
<1>6. f \in TextOf(DocLine)
  BY <1>4, <1>5 DEF Source
<1>7. f.type = "text" /\ f.lines \in Seq(DocLine)
  BY <1>6 DEF TextOf
<1>8. Bodies(f) = {BodyOf(0, f.lines)}
  BY <1>7, BodiesFacts
<1>9. lines = f.lines
  BY <1>3, <1>8 DEF BodyOf
<1>10. \A k \in DOMAIN f.lines : IsInclude(f.lines[k].text) => Len(f.lines[k].text) = 3 /\ f.lines[k].text[2] \in Paths
  BY <1>1, <1>2, <1>5, ScanAssumption DEF Versions
<1> QED
  BY <1>2, <1>3, <1>7, <1>9, <1>10

\* Nothing about the includes changes when none of this does (build_index).
LEMMA IncludesFrame ==
    ASSUME IncludesInv, UNCHANGED <<corpus, index, references, current, part, lines, chunks, stage>>
    PROVE  IncludesInv'
BY DEF IncludesInv

\* A chunk of which nothing is expanded yet (build_index before it calls expand_includes).
LEMMA IncludesFresh ==
    ASSUME IncludesInv, UNCHANGED <<corpus, index, references>>, part'.refs = <<>>, part'.line = 0,
           current' # NoFile => current' \in Candidates(corpus)
    PROVE  IncludesInv'
<1>1. references' = AllReferences(index') /\ \A n \in DOMAIN index' : index'[n].group = "tutorial" => Cites(corpus', index'[n])
  BY DEF IncludesInv
<1>2. part'.refs \in Seq(ToSet(part'.refs))
  OBVIOUS
<1>3. Noted(corpus', part'.refs, part'.text, lines', chunks'[part'.number][1], part'.line)
  BY NothingNoted
<1> QED
  BY <1>1, <1>2, <1>3 DEF IncludesInv

\* The steps before a chunk is looked at (build_index).
LEMMA FreshSteps ==
    ASSUME ScanInv, SourceInv, IncludesInv, OpenText \/ ReadPdf \/ ChunkSource \/ BeginPage \/ EndFile
    PROVE  IncludesInv'
<1>1. UNCHANGED <<corpus, index, references>>
  BY DEF OpenText, ReadPdf, ChunkSource, BeginPage, EndFile, history, scanVars
<1>2. CASE OpenText \/ ReadPdf
  <2>1. PICK e : e = Head(listing)
    OBVIOUS
  <2>2. /\ NextFile /\ listing' = Tail(listing) /\ discovered' = Append(discovered, e) /\ part' = part
        /\ current' = e \/ current' = current
        /\ IF e.group = "pdf" THEN e.path \notin seen /\ seen' = seen \cup {e.path} ELSE seen' = seen
        /\ UNCHANGED <<touched, walked>>
    BY <1>2, <2>1 DEF OpenText, ReadPdf, DiscoverPdf, AtPdf, SkipPdf, OpenPdf, history
  <2>3. e \in Candidates(corpus)
    BY <1>1, <2>1, <2>2, TakeFile
  <2>4. part = FirstPart /\ current = NoFile
    BY <2>2 DEF ScanInv, CurrentInv, NextFile
  <2>5. part'.refs = <<>> /\ part'.line = 0
    BY <2>2, <2>4 DEF FirstPart
  <2> QED
    BY <1>1, <2>2, <2>3, <2>4, <2>5, IncludesFresh
<1>3. CASE ChunkSource
  <2>1. ChunkingNext /\ UNCHANGED <<part, current>>
    BY <1>3 DEF ChunkSource, scanVars
  <2>2. stage # "done"
    BY <2>1 DEF ChunkingNext, ReadLine, LastBlock, FindDeclarations, FallbackRegion, IncludePrefixes, EmitRegion
  <2>3. part.refs = <<>> /\ part.line = 0
    BY <2>2 DEF SourceInv, PartInv, IncludesInv
  <2>4. current # NoFile => current \in Candidates(corpus)
    BY DEF IncludesInv
  <2> QED
    BY <1>1, <2>1, <2>3, <2>4, IncludesFresh
<1>4. CASE BeginPage \/ EndFile
  <2>1. part' = FirstPart /\ (current' = current \/ current' = NoFile)
    BY <1>4 DEF BeginPage, EndFile
  <2>2. part'.refs = <<>> /\ part'.line = 0
    BY <2>1 DEF FirstPart
  <2>3. current # NoFile => current \in Candidates(corpus)
    BY DEF IncludesInv
  <2> QED
    BY <1>1, <2>1, <2>2, <2>3, IncludesFresh
<1> QED
  BY <1>2, <1>3, <1>4

\* An include gets the next reference, and its text is what the reference names
\* (expand_includes).
LEMMA ExpandIncludeCites == ASSUME ScanInv, SourceInv, IncludesInv, ExpandInclude PROVE IncludesInv'
<1>1. PICK k : k = Min(Pending)
  OBVIOUS
<1>2. PICK said : said = Line(k).text
  OBVIOUS
<1>3. PICK r : r = Resolve(said[2], disk[said[2]], said[3])
  OBVIOUS
<1>4. /\ Chunked /\ Pending # {} /\ ~Undecodable(said[2])
      /\ part' = [part EXCEPT !.line = k, !.text = Append(CopiedTo(k - 1), Replacement(disk[said[2]], r)),
                              !.refs = Append(@, Reference(said, r))]
      /\ UNCHANGED <<chunkingVars, corpus, current, index, references>>
  BY <1>1, <1>2, <1>3 DEF ExpandInclude, history
<1>5. PICK x : x = Replacement(disk[said[2]], r)
  OBVIOUS
<1>6. PICK ref : ref = Reference(said, r)
  OBVIOUS
<1>7. DOMAIN part = {"number", "line", "text", "refs"} /\ PartInv
  BY DEF ScanInv, CurrentInv, FirstPart, SourceInv
<1>8. /\ part'.number = part.number /\ part'.line = k /\ part'.text = Append(CopiedTo(k - 1), x)
      /\ part'.refs = Append(part.refs, ref)
  BY <1>4, <1>5, <1>6, <1>7
<1>9. /\ part.number \in DOMAIN chunks /\ stage = "done" /\ part.number <= Len(chunks)
      /\ PartLines = 1..Cardinality(PartLines) /\ Cardinality(PartLines) \in Nat
  BY <1>4, PartFacts DEF Chunked
<1>10. k \in Pending /\ \A m \in Pending : k <= m
  <2>1. Pending \in SUBSET Nat
    BY <1>9 DEF Pending
  <2>2. \E n \in Pending : \A m \in Pending : n <= m
    BY <1>4, <2>1, LeastNumber
  <2> QED
    BY <1>1, <2>2 DEF Min
<1>11. k \in PartLines /\ k > part.line /\ part.line \in Nat /\ current.group = "tutorial" /\ IsInclude(said)
  BY <1>2, <1>7, <1>10 DEF Pending, PartInv
<1>12. k \in Nat /\ k - 1 \in Nat /\ part.line <= k - 1 /\ (k - 1) + 1 = k
  BY <1>9, <1>11
<1>13. PICK a : a = chunks[part.number][1]
  OBVIOUS
<1>14. said = lines[a + k - 1].text /\ \A j : Line(j) = lines[a + j - 1]
  BY <1>2, <1>13 DEF Line
<1>15. Expanded(corpus, ref, said, x)
  <2>1. a \in Nat \ {0} /\ a + k - 1 \in DOMAIN lines
    <3>1. /\ a \in Nat \ {0} /\ chunks[part.number][2] \in Nat /\ chunks[part.number][2] <= Len(lines)
          /\ DOMAIN lines = 1..Len(lines) /\ Len(lines) \in Nat
          /\ Cardinality(PartLines) = chunks[part.number][2] - a + 1
      BY <1>4, <1>13, PartFacts
    <3>2. k <= Cardinality(PartLines) /\ k >= 1
      BY <1>9, <1>11
    <3> QED
      BY <1>12, <3>1, <3>2
  <2>2. /\ lines \in Seq(DocLine)
        /\ \A n \in DOMAIN lines : IsInclude(lines[n].text) => Len(lines[n].text) = 3 /\ lines[n].text[2] \in Paths
    BY <1>4, <1>11, TutorialFacts DEF Chunked
  <2>3. Len(said) = 3 /\ said[2] \in Paths
    BY <1>11, <1>14, <2>1, <2>2
  <2>4. said \in Seq(STRING)
    <3>1. lines[a + k - 1] \in DocLine
      BY <2>1, <2>2
    <3> QED
      BY <1>14, <3>1 DEF DocLine, Words
  <2>5. said[1] = "include" /\ FilesInv
    BY <1>11 DEF IsInclude, ScanInv
  <2> QED
    BY <1>3, <1>4, <1>5, <1>6, <2>3, <2>4, <2>5, ReplacementFacts
<1>16. PICK c : c = CopiedTo(k - 1)
  OBVIOUS
<1>17. /\ \E T : c \in Seq(T)
       /\ Len(c) = k - 1
       /\ \A j \in 1..part.line : c[j] = part.text[j]
  BY <1>7, <1>12, <1>16, CopiedFacts
<1>18. PICK t : t = Append(c, x)
  OBVIOUS
<1>19. t[k] = x /\ \A j \in 1..(k - 1) : t[j] = c[j]
  <2>1. PICK T : c \in Seq(T)
    BY <1>17
  <2> DEFINE S == T \cup {x}
  <2>2. c \in Seq(S) /\ x \in S
    BY <2>1, SeqMonotonic
  <2> HIDE DEF S
  <2> QED
    BY <1>12, <1>17, <1>18, <2>2, AppendProperties
<1>20. Noted(corpus, part.refs, c, lines, a, k - 1)
  <2>1. Noted(corpus, part.refs, part.text, lines, a, part.line)
    BY <1>9, <1>11, <1>13 DEF IncludesInv
  <2>2. ASSUME NEW j \in 1..(k - 1), j > part.line PROVE ~IsInclude(lines[a + j - 1].text)
    <3>1. j \notin Pending
      BY <1>10, <1>12
    <3>2. j \in PartLines
      BY <1>9, <1>11, <1>12
    <3> QED
      BY <1>11, <1>14, <2>2, <3>1, <3>2 DEF Pending
  <2> QED
    BY <1>11, <1>12, <1>17, <2>1, <2>2, NotedMore
<1>21. part.refs \in Seq(ToSet(part.refs))
  BY DEF IncludesInv
<1>22. Noted(corpus, Append(part.refs, ref), t, lines, a, k)
  <2>1. PICK l \in Nat : l = k - 1 /\ l + 1 = k
    BY <1>12
  <2> QED
    BY <1>11, <1>14, <1>15, <1>19, <1>20, <1>21, <2>1, NotedNext
<1>23. part'.refs \in Seq(ToSet(part'.refs))
  <2> DEFINE S == ToSet(part.refs) \cup {ref}
  <2>1. part.refs \in Seq(S) /\ ref \in S
    BY <1>21, SeqMonotonic
  <2> HIDE DEF S
  <2>2. part'.refs \in Seq(S) /\ ToSet(part'.refs) = ToSet(part.refs) \cup {ref}
    BY <1>8, <2>1, AppendSet
  <2> QED
    BY <2>2 DEF S
<1>24. UNCHANGED <<lines, chunks, stage, corpus, current, index, references>>
  BY <1>4 DEF chunkingVars
<1>25. Noted(corpus', part'.refs, part'.text, lines', chunks'[part'.number][1], part'.line)
  BY <1>8, <1>13, <1>16, <1>18, <1>22, <1>24
<1>26. ~(stage' # "done" \/ part'.number > Len(chunks'))
  <2>1. part.number \in Nat /\ Len(chunks) \in Nat
    <3>1. chunks \in Seq(Span)
      BY LineFacts DEF ScanInv, ChunkingInv
    <3> QED
      BY <1>9, <3>1
  <2> QED
    BY <1>8, <1>9, <1>24, <2>1
<1> QED
  BY <1>23, <1>24, <1>25, <1>26 DEF IncludesInv

\* No chunks have no references (build_index).
LEMMA NoReferences == AllReferences(<<>>) = <<>>
<1> DEFINE s == [n \in DOMAIN <<>> |-> ReferencesOf(<<>>[n].path, <<>>[n].refs)]
<1>1. s = <<>>
  OBVIOUS
<1>2. Len(s) = 0
  BY <1>1
<1>3. AllReferences(<<>>) = FlattenSeq(s)
  BY DEF AllReferences
<1> HIDE DEF s
<1> QED
  BY <1>1, <1>2, <1>3 DEF FlattenSeq

\* A recorded chunk takes along the references of all its includes (build_index).
LEMMA RecordChunkCites == ASSUME ScanInv, SourceInv, IncludesInv, RecordChunk PROVE IncludesInv'
<1> DEFINE N == part.number
           record == [id |-> <<"chunk", Len(index)>>, path |-> current.path, group |-> current.group,
                      page |-> page, first |-> chunks[N][1], last |-> chunks[N][2],
                      text |-> PartText, refs |-> part.refs]
<1>1. PICK new : new = record
  OBVIOUS
<1>2. /\ Chunked /\ Pending = {} /\ index' = Append(index, new) /\ part' = [FirstPart EXCEPT !.number = N + 1]
      /\ references' = references \o ReferencesOf(current.path, part.refs)
      /\ UNCHANGED <<chunkingVars, corpus, current>>
  BY <1>1 DEF RecordChunk, history
<1>3. /\ new.path = current.path /\ new.group = current.group /\ new.page = page /\ new.first = chunks[N][1]
      /\ new.last = chunks[N][2] /\ new.text = PartText /\ new.refs = part.refs
  BY <1>1
<1> HIDE DEF record
<1>4. /\ Len(index) \in Nat /\ Len(index') = Len(index) + 1 /\ DOMAIN index = 1..Len(index) /\ DOMAIN index' = 1..(Len(index) + 1)
      /\ \A n \in DOMAIN index : index'[n] = index[n]
      /\ index'[Len(index) + 1] = new
  <2> DEFINE S == ToSet(index) \cup {new}
  <2>1. index \in Seq(ToSet(index)) /\ ToSet(index) \subseteq S /\ new \in S
    BY DEF ScanInv, IndexInv
  <2> HIDE DEF S
  <2>2. index \in Seq(S)
    BY <2>1, SeqMonotonic
  <2> QED
    BY <1>2, <2>1, <2>2, AppendSet
<1>5. references' = AllReferences(index')
  <2> DEFINE refsOf(ix) == [n \in DOMAIN ix |-> ReferencesOf(ix[n].path, ix[n].refs)]
             x == ReferencesOf(new.path, new.refs)
  <2>1. PICK s : s = refsOf(index)
    OBVIOUS
  <2>2. PICK t : t = refsOf(index')
    OBVIOUS
  <2>3. /\ DOMAIN s = 1..Len(index) /\ DOMAIN t = 1..(Len(index) + 1)
        /\ \A n \in DOMAIN s : s[n] = ReferencesOf(index[n].path, index[n].refs)
        /\ \A n \in DOMAIN t : t[n] = ReferencesOf(index'[n].path, index'[n].refs)
    BY <1>4, <2>1, <2>2
  <2>4. Len(s) = Len(index) /\ Len(t) = Len(index) + 1
    <3>1. s \in [1..Len(index) -> ToSet(s)] /\ t \in [1..(Len(index) + 1) -> ToSet(t)] /\ Len(index) + 1 \in Nat
      <4>1. s = [n \in 1..Len(index) |-> s[n]] /\ t = [n \in 1..(Len(index) + 1) |-> t[n]]
        BY <1>4, <2>1, <2>2
      <4> QED
        BY <1>4, <2>3, <4>1 DEF ToSet
    <3> QED
      BY <1>4, <3>1, FunctionIsSeq
  <2>5. t[Len(t)] = x /\ \A k \in 1..Len(s) : t[k] = s[k]
    <3>1. Len(index) + 1 \in DOMAIN t /\ 1..Len(index) \subseteq DOMAIN t
      BY <1>4, <2>3
    <3> QED
      BY <1>4, <2>3, <2>4, <3>1
  <2>6. FlattenSeq(t) = IF Len(s) = 0 THEN t[1] ELSE FlattenSeq(s) \o t[Len(t)]
    BY <1>4, <2>4, <2>5, FlattenNext
  <2>7. AllReferences(index) = FlattenSeq(s) /\ AllReferences(index') = FlattenSeq(t)
    BY <2>1, <2>2 DEF AllReferences
  <2>8. references' = FlattenSeq(s) \o x
    BY <1>2, <1>3, <2>7 DEF IncludesInv
  <2>9. CASE Len(s) = 0
    <3>1. FlattenSeq(s) = s /\ FlattenSeq(t) = x
      <4>1. FlattenSeq(s) = s
        BY <2>9 DEF FlattenSeq
      <4>2. Len(t) = 1
        BY <2>4, <2>9
      <4> QED
        BY <2>5, <2>6, <2>9, <4>1, <4>2
    <3>2. s = <<>>
      <4>1. DOMAIN s = {}
        BY <2>3, <2>4, <2>9
      <4>2. s = [n \in {} |-> s[n]]
        BY <2>1, <4>1
      <4> QED
        BY <4>2
    <3>3. <<>> \o x = x
      <4>1. new.refs \in Seq(ToSet(new.refs))
        BY <1>3 DEF IncludesInv
      <4>2. Len(new.refs) \in Nat /\ DOMAIN new.refs = 1..Len(new.refs)
        BY <4>1
      <4>3. x \in [1..Len(new.refs) -> ToSet(x)]
        BY <4>2 DEF ReferencesOf, ToSet
      <4> HIDE DEF x
      <4>4. x \in Seq(ToSet(x))
        BY <4>2, <4>3, FunctionIsSeq
      <4> QED
        BY <4>4, ConcatEmptySeq
    <3> QED
      BY <2>7, <2>8, <3>1, <3>2, <3>3
  <2>10. CASE Len(s) # 0
    BY <2>5, <2>6, <2>7, <2>8, <2>10
  <2> QED
    BY <2>9, <2>10
<1>6. ASSUME new.group = "tutorial" PROVE Cites(corpus, new)
  <2>1. Reading /\ current.group = "tutorial"
    BY <1>2, <1>3, <1>6 DEF Chunked
  <2>2. PICK f \in Versions(current.path) : f.type = "text" /\ f.lines = lines
    BY <2>1, TutorialFacts
  <2>3. page = 0
    BY <2>1, TutorialFacts
  <2>4. Repeats(new, BodyOf(0, f.lines))
    BY <1>2, <1>3, <2>2, <2>3, PartRepeats
  <2>5. PICK w : w = Cardinality(PartLines)
    OBVIOUS
  <2>6. /\ w \in Nat /\ PartLines = 1..w /\ w = new.last - new.first + 1
    BY <1>2, <1>3, <2>5, PartFacts
  <2>7. part.number <= Len(chunks) /\ PartInv
    BY <1>2 DEF Chunked, SourceInv
  <2>8. part.line <= w /\ part.line \in Nat
    BY <2>5, <2>7 DEF PartInv
  <2>9. \A j \in 1..part.line : new.text[j] = part.text[j]
    <3>1. new.text = CopiedTo(w)
      BY <1>3, <2>5 DEF PartText
    <3> QED
      BY <2>6, <2>7, <2>8, <3>1, CopiedFacts
  <2>10. Noted(corpus, new.refs, part.text, lines, new.first, part.line)
    BY <1>3, <2>1, <2>7 DEF IncludesInv
  <2>11. \A j \in 1..w : j > part.line => ~IsInclude(lines[new.first + j - 1].text)
    BY <1>2, <1>3, <2>1, <2>6 DEF Pending, Line
  <2>12. Noted(corpus, new.refs, new.text, lines, new.first, w)
    BY <2>6, <2>8, <2>9, <2>10, <2>11, NotedMore
  <2>13. f \in VersionsOf(corpus, new.path)
    BY <1>3, <2>2 DEF Versions
  <2> QED
    BY <2>2, <2>4, <2>6, <2>12, <2>13 DEF Cites, BodyOf
<1>7. \A n \in DOMAIN index' : index'[n].group = "tutorial" => Cites(corpus', index'[n])
  <2> SUFFICES ASSUME NEW n \in DOMAIN index', index'[n].group = "tutorial" PROVE Cites(corpus, index'[n])
    BY <1>2
  <2>1. CASE n \in DOMAIN index
    BY <1>4, <2>1 DEF IncludesInv
  <2>2. CASE n = Len(index) + 1
    BY <1>4, <1>6, <2>2
  <2>3. n \in DOMAIN index \/ n = Len(index) + 1
    BY <1>4
  <2> QED
    BY <2>1, <2>2, <2>3
<1>8. part'.refs = <<>> /\ part'.line = 0
  BY <1>2 DEF FirstPart
<1>9. part'.refs \in Seq(ToSet(part'.refs))
  BY <1>8
<1>10. Noted(corpus', part'.refs, part'.text, lines', chunks'[part'.number][1], part'.line)
  BY <1>8, NothingNoted
<1>11. current' # NoFile => current' \in Candidates(corpus')
  BY <1>2 DEF IncludesInv
<1> QED
  BY <1>5, <1>7, <1>8, <1>9, <1>10, <1>11 DEF IncludesInv

\* Names do not matter to the references (build_index).
LEMMA IdentifyCites == ASSUME ScanInv, IncludesInv, Identify PROVE IncludesInv'
<1>1. /\ index' = [k \in DOMAIN index |-> [index[k] EXCEPT !.id = Identity(index[k])]]
      /\ UNCHANGED <<chunkingVars, corpus, current, references, part>>
  BY DEF Identify, history
<1>2. DOMAIN index' = DOMAIN index
  BY <1>1
<1>3. ASSUME NEW n \in DOMAIN index
      PROVE  /\ index'[n].path = index[n].path /\ index'[n].group = index[n].group
             /\ index'[n].page = index[n].page /\ index'[n].first = index[n].first
             /\ index'[n].last = index[n].last /\ index'[n].text = index[n].text
             /\ index'[n].refs = index[n].refs
  <2>1. DOMAIN index[n] = ChunkFields
    BY DEF ScanInv, IndexInv, Recorded
  <2>2. \A x \in ChunkFields \ {"id"} : index'[n][x] = index[n][x]
    BY <1>1, <2>1
  <2> QED
    BY <2>2 DEF ChunkFields
<1>4. AllReferences(index') = AllReferences(index)
  <2>1. [n \in DOMAIN index' |-> ReferencesOf(index'[n].path, index'[n].refs)]
          = [n \in DOMAIN index |-> ReferencesOf(index[n].path, index[n].refs)]
    BY <1>2, <1>3
  <2> QED
    BY <2>1 DEF AllReferences
<1>5. ASSUME NEW n \in DOMAIN index, index[n].group = "tutorial" PROVE Cites(corpus, index'[n])
  <2>1. PICK f \in VersionsOf(corpus, index[n].path) :
          /\ f.type = "text" /\ Repeats(index[n], [page |-> 0, lines |-> f.lines])
          /\ Noted(corpus, index[n].refs, index[n].text, f.lines, index[n].first, index[n].last - index[n].first + 1)
    BY <1>5 DEF IncludesInv, Cites
  <2>2. Repeats(index'[n], [page |-> 0, lines |-> f.lines])
    BY <1>3, <2>1 DEF Repeats
  <2>3. Noted(corpus, index'[n].refs, index'[n].text, f.lines, index'[n].first, index'[n].last - index'[n].first + 1)
    BY <1>3, <2>1
  <2> QED
    BY <1>3, <2>1, <2>2, <2>3 DEF Cites
<1>6. \A n \in DOMAIN index' : index'[n].group = "tutorial" => Cites(corpus', index'[n])
  BY <1>1, <1>2, <1>3, <1>5
<1> QED
  BY <1>1, <1>4, <1>6 DEF IncludesInv, chunkingVars

\* Every step of the scan keeps the references true (build_index, expand_includes).
LEMMA ScanNextCites ==
    ASSUME ScanInv, SourceInv, IncludesInv, [ScanNext]_<<chunkingVars, scanVars>> PROVE IncludesInv'
<1>1. CASE ListDirectory \/ SkipSeen \/ FileRaises \/ IncludeRaises \/ Edit \/ UNCHANGED <<chunkingVars, scanVars>>
  <2>1. UNCHANGED <<corpus, index, references, current, part, lines, chunks, stage>>
    BY <1>1 DEF ListDirectory, SkipSeen, FileRaises, IncludeRaises, Raise, Edit, chunkingVars, scanVars, history
  <2> QED
    BY <2>1, IncludesFrame
<1>2. CASE OpenText \/ ReadPdf \/ ChunkSource \/ BeginPage \/ EndFile
  BY <1>2, FreshSteps
<1>3. CASE ExpandInclude \/ RecordChunk \/ Identify
  BY <1>3, ExpandIncludeCites, RecordChunkCites, IdentifyCites
<1>4. CASE Rescan
  <2>1. /\ status = "built" /\ index' = <<>> /\ references' = <<>>
        /\ UNCHANGED <<chunkingVars, corpus, current, part>>
    BY <1>4 DEF Rescan
  <2>2. references' = AllReferences(index') /\ DOMAIN index' = {}
    BY <2>1, NoReferences
  <2> QED
    BY <2>1, <2>2 DEF IncludesInv, chunkingVars
<1> QED
  BY <1>1, <1>2, <1>3, <1>4 DEF ScanNext

\* The references of the chunks recorded so far, and of the chunk at hand as far as it
\* is expanded, are complete and say what was inserted (expand_includes, on all of ScanSpec).
THEOREM IncludesInvariant == ScanSpec => []IncludesInv
<1>1. ScanInit => IncludesInv
  <2> SUFFICES ASSUME ScanInit PROVE IncludesInv
    OBVIOUS
  <2>1. current = NoFile /\ part = FirstPart /\ index = <<>> /\ references = <<>>
    BY DEF ScanInit, ScanInitOf
  <2>2. references = AllReferences(index) /\ DOMAIN index = {}
    BY <2>1, NoReferences
  <2>3. part.refs = <<>> /\ current.group # "tutorial"
    BY <2>1 DEF FirstPart, NoFile
  <2>4. part.refs \in Seq(ToSet(part.refs))
    BY <2>3
  <2> QED
    BY <2>1, <2>2, <2>3, <2>4 DEF IncludesInv
<1>2. ScanInv /\ SourceInv /\ IncludesInv /\ [ScanNext]_<<chunkingVars, scanVars>> => IncludesInv'
  BY ScanNextCites
<1> QED
  BY <1>1, <1>2, ScanInvariant, SourceInvariant, PTL DEF ScanSpec

\* "Missing/out-of-snapshot/unsupported includes get an explicit unavailable marker and a
\* manifest entry", "Include expansions carry their own source span": in every index each
\* include has its reference, in order, and stands for exactly the lines that the
\* reference names of one version of a file below the root (expand_includes).
THEOREM IncludesAreExact == ScanSpec => []IncludesExact
<1>1. IncludesInv => IncludesExact
  BY DEF IncludesInv, IncludesExact, ToSet
<1> QED
  BY <1>1, IncludesInvariant, PTL


-----------------------------------------------------------------------------
(* The scan of one file as a function.  Names are stable because nothing    *)
(* that a file's chunks are made from is read anew: each step of            *)
(* document_chunks, code_chunks, expand_includes and the loop of            *)
(* build_index is a function of what the steps before it left.              *)

CallWith(ls, k, s, n, a, z, f, ss, cs) ==
    [lines |-> ls, kind |-> k, stage |-> s, i |-> n, start |-> a, size |-> z, fence |-> f,
     starts |-> ss, chunks |-> cs]
Call == CallWith(lines, kind, stage, i, start, size, fence, starts, chunks)
CallOf(ls, k, s) == CallWith(ls, k, s, 1, 1, 0, NoFence, <<>>, <<>>)

EmitOf(c, a, b) == IF \A k \in a..b : c.lines[k].blank THEN c.chunks ELSE Append(c.chunks, <<a, b>>)
CutOf(c, line) ==
    c.i > c.start /\ c.fence = NoFence /\ (line.heading \/ (c.size >= TargetChars /\ line.blank))
DeclarationsOf(ls) ==
    Ascending({k - Cardinality({j \in 1..(k - 1) : ls[j].joined}) : k \in {j \in DOMAIN ls : ls[j].decl}})
RegionStartOf(ls, ss, n) ==
    LET lower == IF n = 1 THEN 1 ELSE ss[n - 1] + 1
    IN  CHOOSE s \in lower..ss[n] :
          /\ \A k \in s..(ss[n] - 1) : ls[k].prefix
          /\ s > lower => ~ls[s - 1].prefix
LaterOf(c) == {b \in {1} \cup ToSet(c.starts) \cup {Len(c.lines) + 1} : b > c.start}

ReadLineOf(c) ==
    LET line == c.lines[c.i]
        cut == CutOf(c, line)
    IN  CallWith(c.lines, c.kind, c.stage, c.i + 1, IF cut THEN c.i ELSE c.start,
                 IF cut THEN line.chars ELSE c.size + line.chars, FenceAfter(c.fence, line), c.starts,
                 IF cut THEN EmitOf(c, c.start, c.i - 1) ELSE c.chunks)
LastBlockOf(c) ==
    CallWith(c.lines, c.kind, "done", c.i, c.start, c.size, c.fence, c.starts, EmitOf(c, c.start, Len(c.lines)))
FindDeclarationsOf(c) ==
    CallWith(c.lines, c.kind, IF DeclarationsOf(c.lines) = <<>> THEN "fallback" ELSE "prefixes",
             c.i, c.start, c.size, c.fence, DeclarationsOf(c.lines), c.chunks)
Done(c) == CallWith(c.lines, c.kind, "done", c.i, c.start, c.size, c.fence, c.starts, c.chunks)
FallbackRegionOf(c) ==
    IF c.start <= Len(c.lines)
    THEN LET last == IF c.start + FallbackLines - 1 <= Len(c.lines)
                     THEN c.start + FallbackLines - 1 ELSE Len(c.lines)
         IN  CallWith(c.lines, c.kind, c.stage, c.i, c.start + FallbackLines, c.size, c.fence, c.starts,
                      EmitOf(c, c.start, last))
    ELSE Done(c)
IncludePrefixesOf(c) ==
    CallWith(c.lines, c.kind, c.stage, c.i + 1, c.start, c.size, c.fence,
             [c.starts EXCEPT ![c.i] = RegionStartOf(c.lines, c.starts, c.i)], c.chunks)
EmitRegionOf(c) ==
    IF LaterOf(c) = {} THEN Done(c)
    ELSE CallWith(c.lines, c.kind, c.stage, c.i, Min(LaterOf(c)), c.size, c.fence, c.starts,
                  IF c.start \in {1} \cup ToSet(c.starts) \cup {Len(c.lines) + 1}
                  THEN EmitOf(c, c.start, Min(LaterOf(c)) - 1) ELSE c.chunks)
\* The call after a step of ChunkingNext.
ChunkStep(c) ==
    CASE c.stage = "document" -> IF c.i <= Len(c.lines) THEN ReadLineOf(c) ELSE LastBlockOf(c)
      [] c.stage = "code" -> FindDeclarationsOf(c)
      [] c.stage = "fallback" -> FallbackRegionOf(c)
      [] c.stage = "prefixes" -> IF c.i <= Len(c.starts) THEN IncludePrefixesOf(c) ELSE EmitRegionOf(c)
      [] OTHER -> c

LEMMA StepOfStage ==
    ASSUME NEW c
    PROVE  /\ c.stage = "document" => ChunkStep(c) = IF c.i <= Len(c.lines) THEN ReadLineOf(c) ELSE LastBlockOf(c)
           /\ c.stage = "code" => ChunkStep(c) = FindDeclarationsOf(c)
           /\ c.stage = "fallback" => ChunkStep(c) = FallbackRegionOf(c)
           /\ c.stage = "prefixes" => ChunkStep(c) = IF c.i <= Len(c.starts) THEN IncludePrefixesOf(c) ELSE EmitRegionOf(c)
<1>1. "document" # "code" /\ "document" # "fallback" /\ "document" # "prefixes" /\ "code" # "fallback"
      /\ "code" # "prefixes" /\ "fallback" # "prefixes"
  OBVIOUS
<1> QED
  BY <1>1 DEF ChunkStep

LEMMA CallFields ==
    ASSUME NEW c, c = Call
    PROVE  /\ c.lines = lines /\ c.kind = kind /\ c.stage = stage /\ c.i = i /\ c.start = start
           /\ c.size = size /\ c.fence = fence /\ c.starts = starts /\ c.chunks = chunks
BY DEF Call, CallWith

LEMMA EmitSame == ASSUME NEW c, c = Call PROVE \A a, b : Emit(chunks, a, b) = EmitOf(c, a, b)
BY CallFields DEF Emit, EmitOf

LEMMA ReadLineStep == ASSUME ReadLine PROVE Call' = ChunkStep(Call)
<1>1. PICK c : c = Call
  OBVIOUS
<1>2. PICK line : line = lines[i]
  OBVIOUS
<1>3. CutHere(line) <=> CutOf(c, line)
  BY <1>1, CallFields DEF CutHere, CutOf
<1>4. c.stage = "document" /\ c.i <= Len(c.lines) /\ c.lines[c.i] = line
  BY <1>1, <1>2, CallFields DEF ReadLine
<1>5. Emit(chunks, start, i - 1) = EmitOf(c, c.start, c.i - 1)
  BY <1>1, CallFields, EmitSame
<1>6. /\ chunks' = IF CutOf(c, line) THEN EmitOf(c, c.start, c.i - 1) ELSE c.chunks
      /\ start' = IF CutOf(c, line) THEN c.i ELSE c.start
      /\ size' = IF CutOf(c, line) THEN line.chars ELSE c.size + line.chars
      /\ fence' = FenceAfter(c.fence, line) /\ i' = c.i + 1
      /\ lines' = lines /\ kind' = kind /\ stage' = stage /\ starts' = starts
  BY <1>1, <1>2, <1>3, <1>5, CallFields DEF ReadLine
<1>7. Call' = ReadLineOf(c)
  BY <1>1, <1>4, <1>6, CallFields DEF ReadLineOf, Call
<1> QED
  BY <1>1, <1>4, <1>7, StepOfStage

LEMMA LastBlockStep == ASSUME ChunkingInv, LastBlock PROVE Call' = ChunkStep(Call)
<1>1. PICK c : c = Call
  OBVIOUS
<1>2. c.stage = "document" /\ ~(c.i <= Len(c.lines))
  <2>1. i \in Nat /\ Len(lines) \in Nat
    BY LineFacts DEF ChunkingInv, ChunkingTypeOK
  <2> QED
    BY <1>1, <2>1, CallFields DEF LastBlock
<1>3. chunks' = EmitOf(c, c.start, Len(c.lines))
  BY <1>1, CallFields, EmitSame DEF LastBlock
<1>4. Call' = LastBlockOf(c)
  <2>1. /\ lines' = lines /\ kind' = kind /\ i' = i /\ start' = start /\ size' = size /\ fence' = fence
        /\ starts' = starts /\ stage' = "done"
    BY DEF LastBlock
  <2> QED
    BY <1>1, <1>3, <2>1, CallFields DEF LastBlockOf, Call
<1> QED
  BY <1>1, <1>2, <1>4, StepOfStage

LEMMA FindDeclarationsStep == ASSUME FindDeclarations PROVE Call' = ChunkStep(Call)
<1>1. PICK c : c = Call
  OBVIOUS
<1>2. c.stage = "code"
  BY <1>1, CallFields DEF FindDeclarations
<1>3. Ascending({MaskedLine(k) : k \in {j \in DOMAIN lines : lines[j].decl}}) = DeclarationsOf(lines)
  BY DEF DeclarationsOf, MaskedLine
<1>4. starts' = DeclarationsOf(c.lines) /\ stage' = IF starts' = <<>> THEN "fallback" ELSE "prefixes"
  BY <1>1, <1>3, CallFields DEF FindDeclarations
<1>5. Call' = FindDeclarationsOf(c)
  <2>1. /\ lines' = lines /\ kind' = kind /\ i' = i /\ start' = start /\ size' = size /\ fence' = fence
        /\ chunks' = chunks
    BY DEF FindDeclarations
  <2> QED
    BY <1>1, <1>4, <2>1, CallFields DEF FindDeclarationsOf, Call
<1> QED
  BY <1>1, <1>2, <1>5, StepOfStage

LEMMA FallbackRegionStep == ASSUME FallbackRegion PROVE Call' = ChunkStep(Call)
<1>1. PICK c : c = Call
  OBVIOUS
<1>2. c.stage = "fallback"
  BY <1>1, CallFields DEF FallbackRegion
<1> DEFINE last == IF c.start + FallbackLines - 1 <= Len(c.lines)
                   THEN c.start + FallbackLines - 1 ELSE Len(c.lines)
<1>3. CASE c.start <= Len(c.lines)
  <2>1. Emit(chunks, start, last) = EmitOf(c, c.start, last)
    BY <1>1, CallFields, EmitSame
  <2>2. chunks' = EmitOf(c, c.start, last) /\ start' = c.start + FallbackLines /\ stage' = stage
    BY <1>1, <1>3, <2>1, CallFields DEF FallbackRegion
  <2>3. FallbackRegionOf(c) =
          CallWith(c.lines, c.kind, c.stage, c.i, c.start + FallbackLines, c.size, c.fence, c.starts,
                   EmitOf(c, c.start, last))
    BY <1>3 DEF FallbackRegionOf
  <2> HIDE DEF last
  <2>4. Call' = FallbackRegionOf(c)
    BY <1>1, <2>2, <2>3, CallFields DEF FallbackRegion, Call
  <2> QED
    BY <1>1, <1>2, <2>4, StepOfStage
<1>4. CASE ~(c.start <= Len(c.lines))
  <2>1. stage' = "done" /\ chunks' = chunks /\ start' = start
    BY <1>1, <1>4, CallFields DEF FallbackRegion
  <2>2. Call' = FallbackRegionOf(c)
    BY <1>1, <1>4, <2>1, CallFields DEF FallbackRegion, FallbackRegionOf, Done, Call
  <2> QED
    BY <1>1, <1>2, <2>2, StepOfStage
<1> QED
  BY <1>3, <1>4

LEMMA IncludePrefixesStep == ASSUME IncludePrefixes PROVE Call' = ChunkStep(Call)
<1>1. PICK c : c = Call
  OBVIOUS
<1>2. c.stage = "prefixes" /\ c.i <= Len(c.starts)
  BY <1>1, CallFields DEF IncludePrefixes
<1>3. RegionStart(i) = RegionStartOf(lines, starts, i)
  BY DEF RegionStart, RegionStartOf
<1>4. starts' = [c.starts EXCEPT ![c.i] = RegionStartOf(c.lines, c.starts, c.i)]
  BY <1>1, <1>3, CallFields DEF IncludePrefixes
<1>5. Call' = IncludePrefixesOf(c)
  <2>1. /\ lines' = lines /\ kind' = kind /\ start' = start /\ size' = size /\ fence' = fence
        /\ chunks' = chunks /\ stage' = stage /\ i' = c.i + 1
    BY <1>1, CallFields DEF IncludePrefixes
  <2> QED
    BY <1>1, <1>4, <2>1, CallFields DEF IncludePrefixesOf, Call
<1> QED
  BY <1>1, <1>2, <1>5, StepOfStage

LEMMA EmitRegionStep == ASSUME ChunkingInv, EmitRegion PROVE Call' = ChunkStep(Call)
<1>1. PICK c : c = Call
  OBVIOUS
<1>2. c.stage = "prefixes" /\ ~(c.i <= Len(c.starts))
  <2>1. i \in Nat /\ Len(starts) \in Nat
    BY LenProperties DEF ChunkingInv, ChunkingTypeOK
  <2> QED
    BY <1>1, <2>1, CallFields DEF EmitRegion
<1>3. {b \in Boundaries : b > start} = LaterOf(c) /\ Boundaries = {1} \cup ToSet(c.starts) \cup {Len(c.lines) + 1}
  BY <1>1, CallFields DEF Boundaries, LaterOf
<1>4. PICK later : later = LaterOf(c)
  OBVIOUS
<1>5. IF later = {} THEN stage' = "done" /\ UNCHANGED <<chunks, start>>
      ELSE /\ chunks' = IF start \in Boundaries THEN Emit(chunks, start, Min(later) - 1) ELSE chunks
           /\ start' = Min(later) /\ UNCHANGED stage
  BY <1>3, <1>4 DEF EmitRegion
<1>6. Emit(chunks, start, Min(later) - 1) = EmitOf(c, c.start, Min(later) - 1)
  BY <1>1, CallFields, EmitSame
<1>7. CASE later = {}
  <2>1. Call' = Done(c)
    BY <1>1, <1>5, <1>7, CallFields DEF EmitRegion, Call, Done
  <2>2. EmitRegionOf(c) = Done(c)
    BY <1>4, <1>7 DEF EmitRegionOf
  <2> QED
    BY <1>1, <1>2, <2>1, <2>2, StepOfStage
<1>8. CASE later # {}
  <2>1. PICK m : m = Min(later)
    OBVIOUS
  <2>2. PICK d : d = IF c.start \in Boundaries THEN EmitOf(c, c.start, m - 1) ELSE c.chunks
    OBVIOUS
  <2>3. chunks' = d /\ start' = m /\ stage' = stage
    BY <1>1, <1>5, <1>6, <1>8, <2>1, <2>2, CallFields
  <2>4. EmitRegionOf(c) = CallWith(c.lines, c.kind, c.stage, c.i, m, c.size, c.fence, c.starts, d)
    BY <1>3, <1>4, <1>8, <2>1, <2>2 DEF EmitRegionOf
  <2>5. Call' = CallWith(c.lines, c.kind, c.stage, c.i, m, c.size, c.fence, c.starts, d)
    <3>1. lines' = lines /\ kind' = kind /\ i' = i /\ size' = size /\ fence' = fence /\ starts' = starts
      BY DEF EmitRegion
    <3> QED
      BY <1>1, <2>3, <3>1, CallFields DEF Call
  <2> QED
    BY <1>1, <1>2, <2>4, <2>5, StepOfStage
<1> QED
  BY <1>7, <1>8

\* Chunking is deterministic (document_chunks, code_chunks).
LEMMA ChunkingStep == ASSUME ChunkingInv, ChunkingNext PROVE Call' = ChunkStep(Call)
BY ReadLineStep, LastBlockStep, FindDeclarationsStep, FallbackRegionStep, IncludePrefixesStep, EmitRegionStep DEF ChunkingNext

\* The names that the chunks ix give the path p, in their order.
Positions(p, ix) == {n \in DOMAIN ix : ix[n].path = p}
NamesAt(at, ix) == [k \in DOMAIN at |-> Identity(ix[at[k]])]
NamesOf(p, ix) == NamesAt(Ascending(Positions(p, ix)), ix)

LEMMA PositionFacts ==
    ASSUME NEW T, NEW ix \in Seq(T), NEW p
    PROVE  /\ Positions(p, ix) \in SUBSET (1..Len(ix))
           /\ Ascending(Positions(p, ix)) \in Seq(Positions(p, ix))
           /\ \A k \in DOMAIN Ascending(Positions(p, ix)) : Ascending(Positions(p, ix))[k] \in Positions(p, ix)
<1>1. Positions(p, ix) \in SUBSET (1..Len(ix))
  BY LenProperties DEF Positions
<1>2. Len(ix) \in Nat
  BY LenProperties
<1>3. Ascending(Positions(p, ix)) \in Seq(Positions(p, ix))
  BY <1>1, <1>2, AscendingFacts
<1> QED
  BY <1>1, <1>3, ElementOfSeq

LEMMA NamesNone ==
    ASSUME NEW T, NEW ix \in Seq(T), NEW p, \A n \in DOMAIN ix : ix[n].path # p
    PROVE  NamesOf(p, ix) = <<>>
<1>1. Positions(p, ix) = {}
  BY DEF Positions
<1>2. {} \in SUBSET (1..0) /\ Cardinality({}) = 0
  BY FS_EmptySet
<1>3. Ascending({}) \in Seq({}) /\ Len(Ascending({})) = 0
  BY <1>2, AscendingFacts
<1>4. DOMAIN Ascending({}) = {}
  BY <1>3, LenProperties
<1>5. NamesOf(p, ix) = [k \in {} |-> Identity(ix[Ascending({})[k]])]
  BY <1>1, <1>4 DEF NamesOf, NamesAt
<1> QED
  BY <1>5

LEMMA NamesSame ==
    ASSUME NEW T, NEW ix \in Seq(T), NEW jx, DOMAIN jx = DOMAIN ix, NEW p,
           \A n \in DOMAIN ix : jx[n].path = ix[n].path /\ Identity(jx[n]) = Identity(ix[n])
    PROVE  NamesOf(p, jx) = NamesOf(p, ix)
<1>1. Positions(p, jx) = Positions(p, ix)
  BY DEF Positions
<1>2. PICK at : at = Ascending(Positions(p, ix))
  OBVIOUS
<1>3. \A k \in DOMAIN at : at[k] \in DOMAIN ix
  <2>1. \A k \in DOMAIN at : at[k] \in Positions(p, ix)
    BY <1>2, PositionFacts
  <2> QED
    BY <2>1 DEF Positions
<1>4. NamesAt(at, jx) = NamesAt(at, ix)
  BY <1>3 DEF NamesAt
<1> QED
  BY <1>1, <1>2, <1>4 DEF NamesOf

LEMMA IdsAreNames ==
    ASSUME NEW T, NEW ix \in Seq(T), \A n \in DOMAIN ix : ix[n].id = Identity(ix[n]), NEW p
    PROVE  IdsOf(p, ix) = NamesOf(p, ix)
<1>1. PICK at : at = Ascending(Positions(p, ix))
  OBVIOUS
<1>2. \A k \in DOMAIN at : at[k] \in DOMAIN ix
  <2>1. \A k \in DOMAIN at : at[k] \in Positions(p, ix)
    BY <1>1, PositionFacts
  <2> QED
    BY <2>1 DEF Positions
<1>3. PICK own : own = [k \in DOMAIN at |-> ix[at[k]]]
  OBVIOUS
<1>4. Picked(ix, {n \in DOMAIN ix : ix[n].path = p}) = own
  BY <1>1, <1>3 DEF Picked, Positions
<1>5. IdsOf(p, ix) = [k \in DOMAIN own |-> own[k].id]
  BY <1>4 DEF IdsOf
<1>6. DOMAIN own = DOMAIN at /\ \A k \in DOMAIN at : own[k].id = Identity(ix[at[k]])
  BY <1>2, <1>3
<1>7. NamesOf(p, ix) = [k \in DOMAIN at |-> Identity(ix[at[k]])]
  BY <1>1 DEF NamesOf, NamesAt
<1> QED
  BY <1>5, <1>6, <1>7

\* A recorded chunk adds its name behind those of its file (chunks.append).
LEMMA NamesKept ==
    ASSUME NEW T, NEW ix \in Seq(T), NEW c \in T, NEW p, c.path # p
    PROVE  NamesOf(p, Append(ix, c)) = NamesOf(p, ix)
<1>1. PICK jx \in Seq(T) : jx = Append(ix, c)
  BY AppendSet
<1>2. PICK m \in Nat : m = Len(ix) /\ DOMAIN ix = 1..m /\ DOMAIN jx = 1..(m + 1)
  BY <1>1, AppendSet
<1>3. jx[m + 1] = c /\ \A n \in 1..m : jx[n] = ix[n]
  BY <1>1, <1>2, AppendSet
<1>4. Positions(p, jx) = Positions(p, ix)
  BY <1>2, <1>3 DEF Positions
<1>5. PICK at : at = Ascending(Positions(p, ix))
  OBVIOUS
<1>6. \A k \in DOMAIN at : at[k] \in 1..m
  BY <1>2, <1>5, PositionFacts DEF Positions
<1>7. NamesAt(at, jx) = NamesAt(at, ix)
  BY <1>3, <1>6 DEF NamesAt
<1> QED
  BY <1>1, <1>4, <1>5, <1>7 DEF NamesOf

LEMMA NamesNext ==
    ASSUME NEW T, NEW ix \in Seq(T), NEW c \in T, NEW p, c.path = p
    PROVE  NamesOf(p, Append(ix, c)) = Append(NamesOf(p, ix), Identity(c))
<1>1. PICK jx \in Seq(T) : jx = Append(ix, c)
  BY AppendSet
<1>2. PICK m \in Nat : m = Len(ix) /\ DOMAIN ix = 1..m /\ DOMAIN jx = 1..(m + 1)
  BY <1>1, AppendSet
<1>3. jx[m + 1] = c /\ \A n \in 1..m : jx[n] = ix[n]
  BY <1>1, <1>2, AppendSet
<1>4. PICK S : S = Positions(p, ix)
  OBVIOUS
<1>5. S \in SUBSET (1..m)
  BY <1>2, <1>4, PositionFacts
<1>6. Positions(p, jx) = S \cup {m + 1}
  BY <1>2, <1>3, <1>4 DEF Positions
<1>7. PICK at : at = Ascending(S)
  OBVIOUS
<1>8. PICK bt : bt = Ascending(S \cup {m + 1})
  OBVIOUS
<1>9. at \in Seq(S) /\ \A k \in DOMAIN at : at[k] \in 1..m
  BY <1>4, <1>5, <1>7, PositionFacts
<1>10. PICK l \in Nat : l = Len(at) /\ DOMAIN at = 1..l
  BY <1>9, LenProperties
<1>11. bt \in Seq(S \cup {m + 1}) /\ Len(bt) = l + 1
  BY <1>5, <1>7, <1>8, <1>10, AscendingNext
<1>12. \A k \in 1..l : bt[k] = at[k]
  BY <1>5, <1>7, <1>8, <1>10, AscendingNext
<1>13. bt[l + 1] = m + 1
  BY <1>5, <1>7, <1>8, <1>10, AscendingNext
<1>14. DOMAIN bt = 1..(l + 1)
  BY <1>11, LenProperties
<1>15. PICK old : old = NamesAt(at, ix)
  OBVIOUS
<1>16. old = [k \in 1..l |-> Identity(ix[at[k]])]
  BY <1>10, <1>15 DEF NamesAt
<1>17. PICK U : U = {Identity(ix[at[k]]) : k \in 1..l} \cup {Identity(c)}
  OBVIOUS
<1>18. old \in [1..l -> U] /\ Identity(c) \in U
  BY <1>16, <1>17
<1>19. old \in Seq(U) /\ Len(old) = l
  BY <1>18, FunctionIsSeq
<1>20. PICK name \in U : name = Identity(c)
  BY <1>18
<1>21. PICK new : new = Append(old, name)
  OBVIOUS
<1>22. new \in Seq(U) /\ DOMAIN new = 1..(l + 1) /\ new[l + 1] = name /\ \A k \in 1..l : new[k] = old[k]
  BY <1>19, <1>21, AppendSet
<1>23. \A k \in 1..(l + 1) : Identity(jx[bt[k]]) = new[k]
  <2> SUFFICES ASSUME NEW k \in 1..(l + 1) PROVE Identity(jx[bt[k]]) = new[k]
    OBVIOUS
  <2>1. CASE k = l + 1
    BY <1>3, <1>13, <1>20, <1>22, <2>1
  <2>2. CASE k \in 1..l
    <3>1. jx[bt[k]] = ix[at[k]]
      BY <1>3, <1>9, <1>10, <1>12, <2>2
    <3>2. new[k] = Identity(ix[at[k]])
      BY <1>16, <1>22, <2>2
    <3> QED
      BY <3>1, <3>2
  <2> QED
    BY <2>1, <2>2
<1>24. new = [k \in 1..(l + 1) |-> new[k]]
  BY <1>22
<1>25. NamesAt(bt, jx) = new
  BY <1>14, <1>23, <1>24 DEF NamesAt
<1> QED
  BY <1>1, <1>4, <1>6, <1>7, <1>8, <1>15, <1>20, <1>21, <1>25 DEF NamesOf

\* What the scan of one file has come to, in build_index.
StateWith(c, ps, n, p, names) == [call |-> c, pages |-> ps, page |-> n, part |-> p, names |-> names]
FileState == StateWith(Call, pages, page, part, NamesOf(current.path, index))

LineIn(c, p, k) == c.lines[c.chunks[p.number][1] + k - 1]
LinesIn(c, p) == 1..(c.chunks[p.number][2] - c.chunks[p.number][1] + 1)
PendingIn(g, c, p) == {k \in LinesIn(c, p) : k > p.line /\ g = "tutorial" /\ IsInclude(LineIn(c, p, k).text)}
CopiedIn(c, p, m) == p.text \o [k \in 1..(m - p.line) |-> <<LineIn(c, p, p.line + k).text>>]
ExpandedIn(fs, c, p, k, said) ==
    [p EXCEPT !.line = k,
              !.text = Append(CopiedIn(c, p, k - 1), Replacement(fs[said[2]], Resolve(said[2], fs[said[2]], said[3]))),
              !.refs = Append(@, Reference(said, Resolve(said[2], fs[said[2]], said[3])))]
NameIn(e, c, n, p) ==
    <<e.path, n, c.chunks[p.number][1], c.chunks[p.number][2], CopiedIn(c, p, Cardinality(LinesIn(c, p)))>>
NextPart(p) == [FirstPart EXCEPT !.number = p.number + 1]

\* The file e of the tree fs after one more step; it stays as it is when all is recorded.
StepWith(fs, e, c, ps, n, p, names) ==
    IF c.stage # "done" THEN StateWith(ChunkStep(c), ps, n, p, names)
    ELSE IF p.number <= Len(c.chunks)
    THEN LET todo == PendingIn(e.group, c, p)
         IN  IF todo # {} THEN StateWith(c, ps, n, ExpandedIn(fs, c, p, Min(todo), LineIn(c, p, Min(todo)).text), names)
             ELSE StateWith(c, ps, n, NextPart(p), Append(names, NameIn(e, c, n, p)))
    ELSE IF ps # <<>>
    THEN StateWith(CallOf(Head(ps).lines, "document", "document"), Tail(ps), Head(ps).number, FirstPart, names)
    ELSE StateWith(c, ps, n, p, names)
FileStep(fs, e, s) == StepWith(fs, e, s.call, s.pages, s.page, s.part, s.names)

KindOf(g) == IF g = "project" THEN "code" ELSE "document"
\* The file as it is opened.
FileStart(fs, e) ==
    IF e.group = "pdf" THEN StateWith(CallOf(<<>>, "document", "done"), PdfPages(fs[e.path]), 0, FirstPart, <<>>)
    ELSE StateWith(CallOf(fs[e.path].lines, KindOf(e.group), KindOf(e.group)), <<>>, 0, FirstPart, <<>>)

\* The states that the scan of e goes through, up to the n-th.
Chain(fs, e, h, n) == h[0] = FileStart(fs, e) /\ \A k \in 0..(n - 1) : h[k + 1] = FileStep(fs, e, h[k])
Reaches(fs, e, s) == \E n \in Nat : \E h : Chain(fs, e, h, n) /\ h[n] = s

LEMMA StepOfState ==
    ASSUME NEW fs, NEW e, NEW c, NEW ps, NEW n, NEW p, NEW names
    PROVE  FileStep(fs, e, StateWith(c, ps, n, p, names)) = StepWith(fs, e, c, ps, n, p, names)
<1>1. PICK s : s = StateWith(c, ps, n, p, names)
  OBVIOUS
<1>2. s.call = c /\ s.pages = ps /\ s.page = n /\ s.part = p /\ s.names = names
  BY <1>1 DEF StateWith
<1> QED
  BY <1>1, <1>2 DEF FileStep

LEMMA NamesOfState == ASSUME NEW c, NEW ps, NEW n, NEW p, NEW names PROVE StateWith(c, ps, n, p, names).names = names
BY DEF StateWith

LEMMA StartReached == ASSUME NEW fs, NEW e PROVE Reaches(fs, e, FileStart(fs, e))
<1>1. PICK h : h = [k \in {0} |-> FileStart(fs, e)]
  OBVIOUS
<1>2. h[0] = FileStart(fs, e)
  BY <1>1
<1>3. Chain(fs, e, h, 0)
  BY <1>2 DEF Chain
<1> QED
  BY <1>2, <1>3 DEF Reaches

LEMMA StepReached == ASSUME NEW fs, NEW e, NEW s, Reaches(fs, e, s) PROVE Reaches(fs, e, FileStep(fs, e, s))
<1>1. PICK n \in Nat : \E h : Chain(fs, e, h, n) /\ h[n] = s
  BY DEF Reaches
<1>2. PICK h : Chain(fs, e, h, n) /\ h[n] = s
  BY <1>1
<1>3. PICK t : t = FileStep(fs, e, s)
  OBVIOUS
<1>4. PICK g : g = [k \in 0..(n + 1) |-> IF k = n + 1 THEN t ELSE h[k]]
  OBVIOUS
<1>5. \A k \in 0..n : g[k] = h[k]
  BY <1>4
<1>6. g[n + 1] = t
  BY <1>4
<1>7. g[0] = FileStart(fs, e)
  BY <1>2, <1>5 DEF Chain
<1>8. \A k \in 0..((n + 1) - 1) : g[k + 1] = FileStep(fs, e, g[k])
  <2> SUFFICES ASSUME NEW k \in 0..n PROVE g[k + 1] = FileStep(fs, e, g[k])
    OBVIOUS
  <2>1. CASE k = n
    BY <1>2, <1>3, <1>5, <1>6, <2>1
  <2>2. CASE k \in 0..(n - 1)
    <3>1. h[k + 1] = FileStep(fs, e, h[k])
      BY <1>2, <2>2 DEF Chain
    <3>2. g[k] = h[k] /\ g[k + 1] = h[k + 1]
      BY <1>5, <2>2
    <3> QED
      BY <3>1, <3>2
  <2> QED
    BY <2>1, <2>2
<1>9. Chain(fs, e, g, n + 1)
  BY <1>7, <1>8 DEF Chain
<1>10. n + 1 \in Nat
  OBVIOUS
<1> QED
  BY <1>3, <1>6, <1>9, <1>10 DEF Reaches

LEMMA ChainsMeet ==
    ASSUME NEW fs, NEW e, NEW n \in Nat, NEW m \in Nat, n <= m, NEW h, NEW g,
           Chain(fs, e, h, n), Chain(fs, e, g, m), FileStep(fs, e, h[n]) = h[n]
    PROVE  g[m] = h[n]
<1> DEFINE At(k) == IF k <= n THEN h[k] ELSE h[n]
           T == {k \in 0..m : g[k] # At(k)}
<1>1. ASSUME T # {} PROVE FALSE
  <2>1. PICK k \in T : \A j \in T : k <= j
    <3>1. T \in SUBSET Nat
      OBVIOUS
    <3> HIDE DEF T
    <3> QED
      BY <1>1, <3>1, LeastNumber
  <2>2. k \in 0..m /\ g[k] # At(k)
    BY <2>1
  <2>3. g[0] = h[0] /\ At(0) = h[0]
    BY DEF Chain
  <2>4. k # 0
    <3> HIDE DEF At
    <3> QED
      BY <2>2, <2>3
  <2>5. PICK l \in Nat : k = l + 1 /\ l \in 0..(m - 1)
    <3>1. k - 1 \in Nat /\ k = (k - 1) + 1 /\ k - 1 \in 0..(m - 1)
      BY <2>2, <2>4
    <3> QED
      BY <3>1
  <2>6. l \notin T
    <3>1. ~(k <= l)
      BY <2>5
    <3> HIDE DEF T
    <3> QED
      BY <2>1, <3>1
  <2>7. g[l] = At(l)
    BY <2>5, <2>6
  <2>8. g[l + 1] = FileStep(fs, e, g[l])
    BY <2>5 DEF Chain
  <2>9. At(l + 1) = FileStep(fs, e, At(l))
    <3>1. CASE l + 1 <= n
      <4>1. l \in 0..(n - 1) /\ At(l) = h[l] /\ At(l + 1) = h[l + 1]
        BY <3>1
      <4>2. h[l + 1] = FileStep(fs, e, h[l])
        BY <4>1 DEF Chain
      <4> HIDE DEF At
      <4> QED
        BY <4>1, <4>2
    <3>2. CASE ~(l + 1 <= n)
      <4>1. At(l) = h[n] /\ At(l + 1) = h[n]
        BY <3>2
      <4> HIDE DEF At
      <4> QED
        BY <4>1
    <3> QED
      BY <3>1, <3>2
  <2> HIDE DEF At
  <2> QED
    BY <2>2, <2>5, <2>7, <2>8, <2>9
<1>2. m \notin T
  BY <1>1
<1>3. g[m] = At(m)
  BY <1>2
<1>4. At(m) = h[n]
  OBVIOUS
<1> HIDE DEF At, T
<1> QED
  BY <1>3, <1>4

\* The scan of a file ends in one state only.
LEMMA OneEnd ==
    ASSUME NEW fs, NEW e, NEW s, NEW t, Reaches(fs, e, s), Reaches(fs, e, t),
           FileStep(fs, e, s) = s, FileStep(fs, e, t) = t
    PROVE  s = t
<1>1. PICK n \in Nat : \E h : Chain(fs, e, h, n) /\ h[n] = s
  BY DEF Reaches
<1>2. PICK h : Chain(fs, e, h, n) /\ h[n] = s
  BY <1>1
<1>3. PICK m \in Nat : \E g : Chain(fs, e, g, m) /\ g[m] = t
  BY DEF Reaches
<1>4. PICK g : Chain(fs, e, g, m) /\ g[m] = t
  BY <1>3
<1>5. CASE n <= m
  BY <1>2, <1>4, <1>5, ChainsMeet
<1>6. CASE m <= n
  BY <1>2, <1>4, <1>6, ChainsMeet
<1> QED
  BY <1>5, <1>6

\* The parts of the chunk at hand, as the function sees them.
LEMMA PartSame ==
    /\ \A k : LineIn(Call, part, k) = Line(k)
    /\ LinesIn(Call, part) = PartLines /\ PendingIn(current.group, Call, part) = Pending
    /\ \A m : CopiedIn(Call, part, m) = CopiedTo(m)
<1>1. PICK c : c = Call
  OBVIOUS
<1>2. c.lines = lines /\ c.chunks = chunks
  BY <1>1, CallFields
<1>3. \A k : LineIn(c, part, k) = Line(k)
  BY <1>2 DEF LineIn, Line
<1>4. LinesIn(c, part) = PartLines
  BY <1>2 DEF LinesIn, PartLines
<1>5. PendingIn(current.group, c, part) = Pending
  BY <1>3, <1>4 DEF PendingIn, Pending
<1>6. \A m : CopiedIn(c, part, m) = CopiedTo(m)
  BY <1>3 DEF CopiedIn, CopiedTo, Said
<1> QED
  BY <1>1, <1>3, <1>4, <1>5, <1>6

LEMMA CallFrame == ASSUME UNCHANGED chunkingVars PROVE Call' = Call
BY DEF Call, chunkingVars

LEMMA CallStarts == ASSUME NEW ls, NEW k, NEW s, Chunker(ls, k, s) PROVE Call' = CallOf(ls, k, s)
BY DEF Call, CallOf, Chunker

LEMMA PartNumber == ASSUME ScanInv PROVE part.number \in Nat /\ Len(chunks) \in Nat
<1>1. ChunkingTypeOK /\ part.number \in 1..(Len(chunks) + 1)
  BY DEF ScanInv, CurrentInv, ChunkingInv
<1>2. chunks \in Seq(Span)
  BY <1>1, LineFacts
<1>3. Len(chunks) \in Nat
  BY <1>2, LenProperties
<1> QED
  BY <1>1, <1>3

LEMMA ChunkSourceSteps ==
    ASSUME ScanInv, ChunkSource PROVE FileState' = FileStep(corpus.files, current, FileState)
<1>1. ChunkingInv /\ ChunkingNext /\ UNCHANGED scanVars
  BY DEF ScanInv, ChunkSource
<1>2. Call' = ChunkStep(Call)
  BY <1>1, ChunkingStep
<1>3. stage # "done"
  BY <1>1 DEF ChunkingNext, ReadLine, LastBlock, FindDeclarations, FallbackRegion, IncludePrefixes, EmitRegion
<1>4. PICK c : c = Call /\ c.stage # "done"
  BY <1>3, CallFields
<1>5. pages' = pages /\ page' = page /\ part' = part /\ current' = current /\ index' = index
  BY <1>1 DEF scanVars
<1>6. NamesOf(current.path, index)' = NamesOf(current.path, index)
  BY <1>5
<1>7. PICK names : names = NamesOf(current.path, index)
  OBVIOUS
<1>8. FileState' = StateWith(ChunkStep(c), pages, page, part, names)
  BY <1>2, <1>4, <1>5, <1>6, <1>7 DEF FileState
<1>9. FileStep(corpus.files, current, StateWith(c, pages, page, part, names)) = StateWith(ChunkStep(c), pages, page, part, names)
  BY <1>4, StepOfState DEF StepWith
<1> QED
  BY <1>4, <1>7, <1>8, <1>9 DEF FileState

LEMMA BeginPageSteps ==
    ASSUME ScanInv, BeginPage PROVE FileState' = FileStep(corpus.files, current, FileState)
<1>1. stage = "done" /\ part.number > Len(chunks) /\ pages # <<>>
  BY DEF BeginPage, Emptied
<1>2. page' = Head(pages).number /\ pages' = Tail(pages) /\ part' = FirstPart /\ current' = current /\ index' = index
  BY DEF BeginPage
<1>3. Call' = CallOf(Head(pages).lines, "document", "document")
  BY CallStarts DEF BeginPage, StartChunker
<1>4. PICK c : c = Call /\ c.stage = "done" /\ c.chunks = chunks
  BY <1>1, CallFields
<1>5. ~(part.number <= Len(c.chunks))
  <2>1. part.number \in Nat /\ Len(chunks) \in Nat
    BY PartNumber
  <2> QED
    BY <1>1, <1>4, <2>1
<1>6. PICK names : names = NamesOf(current.path, index)
  OBVIOUS
<1>7. NamesOf(current.path, index)' = names
  BY <1>2, <1>6
<1>8. FileState' = StateWith(CallOf(Head(pages).lines, "document", "document"), Tail(pages), Head(pages).number, FirstPart, names)
  BY <1>2, <1>3, <1>7 DEF FileState
<1>9. FileStep(corpus.files, current, StateWith(c, pages, page, part, names))
        = StateWith(CallOf(Head(pages).lines, "document", "document"), Tail(pages), Head(pages).number, FirstPart, names)
  BY <1>1, <1>4, <1>5, StepOfState DEF StepWith
<1> QED
  BY <1>4, <1>6, <1>8, <1>9 DEF FileState

LEMMA EndFileRests ==
    ASSUME ScanInv, EndFile PROVE FileStep(corpus.files, current, FileState) = FileState
<1>1. stage = "done" /\ part.number > Len(chunks) /\ pages = <<>>
  BY DEF EndFile, Emptied
<1>2. PICK c : c = Call /\ c.stage = "done" /\ c.chunks = chunks
  BY <1>1, CallFields
<1>3. ~(part.number <= Len(c.chunks))
  <2>1. part.number \in Nat /\ Len(chunks) \in Nat
    BY PartNumber
  <2> QED
    BY <1>1, <1>2, <2>1
<1>4. PICK names : names = NamesOf(current.path, index)
  OBVIOUS
<1>5. FileStep(corpus.files, current, StateWith(c, pages, page, part, names)) = StateWith(c, pages, page, part, names)
  BY <1>1, <1>2, <1>3, StepOfState DEF StepWith
<1> QED
  BY <1>2, <1>4, <1>5 DEF FileState

LEMMA RecordChunkSteps ==
    ASSUME ScanInv, RecordChunk PROVE FileState' = FileStep(corpus.files, current, FileState)
<1>1. Chunked /\ Pending = {}
  BY DEF RecordChunk
<1>2. stage = "done" /\ part.number <= Len(chunks)
  BY <1>1 DEF Chunked
<1>3. part' = NextPart(part) /\ pages' = pages /\ page' = page /\ current' = current /\ UNCHANGED chunkingVars
  BY DEF RecordChunk, NextPart
<1>4. PICK c : c = Call /\ c.stage = "done" /\ c.chunks = chunks /\ Call' = c
  BY <1>2, <1>3, CallFields, CallFrame
<1>5. PendingIn(current.group, c, part) = {}
  BY <1>1, <1>4, PartSame
<1>6. CopiedIn(c, part, Cardinality(LinesIn(c, part))) = PartText
  BY <1>4, PartSame DEF PartText
<1>7. PICK new : new = [id |-> <<"chunk", Len(index)>>, path |-> current.path, group |-> current.group,
                        page |-> page, first |-> chunks[part.number][1], last |-> chunks[part.number][2],
                        text |-> PartText, refs |-> part.refs]
  OBVIOUS
<1>8. index' = Append(index, new)
  BY <1>7 DEF RecordChunk
<1>9. new.path = current.path /\ Identity(new) = NameIn(current, c, page, part)
  <2>1. new.path = current.path /\ new.page = page /\ new.first = chunks[part.number][1]
        /\ new.last = chunks[part.number][2] /\ new.text = PartText
    BY <1>7
  <2> QED
    BY <1>4, <1>6, <2>1 DEF Identity, NameIn
<1>10. PICK names : names = NamesOf(current.path, index)
  OBVIOUS
<1>11. NamesOf(current.path, index)' = Append(names, Identity(new))
  <2>1. PICK T : T = ToSet(index) \cup {new}
    OBVIOUS
  <2>2. index \in Seq(ToSet(index))
    BY DEF ScanInv, IndexInv
  <2>3. index \in Seq(T) /\ new \in T
    BY <2>1, <2>2, SeqMonotonic
  <2>4. NamesOf(current.path, Append(index, new)) = Append(NamesOf(current.path, index), Identity(new))
    BY <1>9, <2>3, NamesNext
  <2> QED
    BY <1>3, <1>8, <1>10, <2>4
<1>12. FileState' = StateWith(c, pages, page, NextPart(part), Append(names, NameIn(current, c, page, part)))
  BY <1>3, <1>4, <1>9, <1>11 DEF FileState
<1>13. FileStep(corpus.files, current, StateWith(c, pages, page, part, names))
         = StateWith(c, pages, page, NextPart(part), Append(names, NameIn(current, c, page, part)))
  BY <1>2, <1>4, <1>5, StepOfState DEF StepWith
<1> QED
  BY <1>4, <1>10, <1>12, <1>13 DEF FileState

\* No file that the chunks of p are made from has been edited.
Stable(p) == MadeFrom(p) \cap touched = {}
LEMMA Untouched == ASSUME FilesInv, NEW p \in Paths, p \notin touched PROVE disk[p] = corpus.files[p]
BY DEF FilesInv, Held

LEMMA IncludedFiles ==
    ASSUME ScanInv, SourceInv, IncludesInv, Reading, current.group = "tutorial", NEW k \in DOMAIN lines,
           IsInclude(lines[k].text)
    PROVE  lines[k].text[2] \in MadeFrom(current.path) /\ lines[k].text[2] \in Paths
<1>1. PICK f \in Versions(current.path) : f.type = "text" /\ f.lines = lines
  BY TutorialFacts
<1>2. lines[k].text[2] \in Paths
  BY TutorialFacts
<1>3. PICK b : b = BodyOf(0, lines)
  OBVIOUS
<1>4. b \in Bodies(f)
  BY <1>1, <1>3, BodiesFacts
<1>5. b.lines = lines
  BY <1>3 DEF BodyOf
<1>6. b \in UNION {Bodies(g) : g \in Versions(current.path)}
  BY <1>1, <1>4
<1>7. lines[k] \in {y \in ToSet(b.lines) : IsInclude(y.text)}
  BY <1>5 DEF ToSet
<1>8. lines[k].text[2] \in {x.text[2] : x \in {y \in ToSet(b.lines) : IsInclude(y.text)}}
  BY <1>7
<1>9. lines[k].text[2] \in UNION {{x.text[2] : x \in {y \in ToSet(d.lines) : IsInclude(y.text)}} :
                                  d \in UNION {Bodies(g) : g \in Versions(current.path)}}
  BY <1>6, <1>8
<1> QED
  BY <1>2, <1>9 DEF MadeFrom

LEMMA ExpandIncludeSteps ==
    ASSUME ScanInv, SourceInv, IncludesInv, Stable(current.path), ExpandInclude
    PROVE  FileState' = FileStep(corpus.files, current, FileState)
<1>1. Chunked /\ Pending # {} /\ stage = "done" /\ part.number <= Len(chunks) /\ Reading
  BY DEF ExpandInclude, Chunked
<1>2. PICK k : k = Min(Pending)
  OBVIOUS
<1>3. k \in Pending
  <2>1. PartLines = 1..Cardinality(PartLines) /\ Cardinality(PartLines) \in Nat
    BY <1>1, PartFacts
  <2>2. Pending \in SUBSET Nat
    BY <2>1 DEF Pending
  <2>3. \E n \in Pending : \A m \in Pending : n <= m
    BY <1>1, <2>2, LeastNumber
  <2> QED
    BY <1>2, <2>3 DEF Min
<1>4. PICK said : said = Line(k).text
  OBVIOUS
<1>5. k \in PartLines /\ current.group = "tutorial" /\ IsInclude(Line(k).text)
  BY <1>3 DEF Pending
<1>6. PICK n \in DOMAIN lines : Line(k) = lines[n]
  <2>1. PICK a \in Nat, b \in Nat : a = chunks[part.number][1] /\ b = chunks[part.number][2]
    BY <1>1, PartFacts
  <2>2. a # 0 /\ b <= Len(lines) /\ Len(lines) \in Nat /\ DOMAIN lines = 1..Len(lines)
    BY <1>1, <2>1, PartFacts
  <2>3. k \in 1..(b - a + 1)
    BY <1>5, <2>1 DEF PartLines
  <2>4. a + k - 1 \in DOMAIN lines
    BY <2>2, <2>3
  <2> QED
    BY <2>1, <2>4 DEF Line
<1>7. said[2] \in MadeFrom(current.path) /\ said[2] \in Paths
  <2>1. IsInclude(lines[n].text)
    BY <1>5, <1>6
  <2>2. lines[n].text[2] \in MadeFrom(current.path) /\ lines[n].text[2] \in Paths
    BY <1>1, <1>5, <2>1, IncludedFiles
  <2> QED
    BY <1>4, <1>6, <2>2
<1>8. PICK file : file = disk[said[2]] /\ file = corpus.files[said[2]]
  BY <1>7, Untouched DEF Stable, ScanInv
<1>9. PICK r : r = Resolve(said[2], file, said[3])
  OBVIOUS
<1>10. part' = [part EXCEPT !.line = k, !.text = Append(CopiedTo(k - 1), Replacement(file, r)),
                            !.refs = Append(@, Reference(said, r))]
  BY <1>2, <1>4, <1>8, <1>9 DEF ExpandInclude
<1>11. pages' = pages /\ page' = page /\ current' = current /\ index' = index /\ UNCHANGED chunkingVars
  BY DEF ExpandInclude
<1>12. PICK c : c = Call /\ c.stage = "done" /\ c.chunks = chunks /\ Call' = c
  BY <1>1, <1>11, CallFields, CallFrame
<1>13. PendingIn(current.group, c, part) = Pending /\ LineIn(c, part, k) = Line(k) /\ CopiedIn(c, part, k - 1) = CopiedTo(k - 1)
  BY <1>12, PartSame
<1>14. part' = ExpandedIn(corpus.files, c, part, k, said)
  BY <1>8, <1>9, <1>10, <1>13 DEF ExpandedIn
<1>15. PICK names : names = NamesOf(current.path, index)
  OBVIOUS
<1>16. NamesOf(current.path, index)' = names
  BY <1>11, <1>15
<1>17. FileState' = StateWith(c, pages, page, ExpandedIn(corpus.files, c, part, k, said), names)
  BY <1>11, <1>12, <1>14, <1>16 DEF FileState
<1>18. StepWith(corpus.files, current, c, pages, page, part, names)
         = StateWith(c, pages, page, ExpandedIn(corpus.files, c, part, k, said), names)
  BY <1>1, <1>2, <1>4, <1>12, <1>13 DEF StepWith
<1> QED
  BY <1>12, <1>15, <1>17, <1>18, StepOfState DEF FileState

\* The chunks ix have the names that the scan of e, as the tree c has it, ends with.
NamedBy(c, e, ix) ==
    \E s : Reaches(c.files, e, s) /\ FileStep(c.files, e, s) = s /\ s.names = NamesOf(e.path, ix)
NamedInv == \A e \in ToSet(discovered) : e # current /\ Stable(e.path) => NamedBy(corpus, e, index)
ReachedInv == current # NoFile /\ Stable(current.path) => Reaches(corpus.files, current, FileState)
IdleInv == current = NoFile => Call = CallOf(<<>>, "document", "done")
PreviousInv ==
    previous # <<>> => /\ previous \in Seq(ToSet(previous))
                       /\ \A n \in DOMAIN previous : previous[n].id = Identity(previous[n])
                       /\ \A e \in Candidates(corpus) :
                            Stable(e.path) /\ corpus.files[e.path] # NotThere => NamedBy(corpus, e, previous)
\* The names of the files that no edit has reached are those the scan of the
\* unedited tree gives, in this index and in the one before.
NamesInv == NamedInv /\ ReachedInv /\ IdleInv /\ PreviousInv

LEMMA SameNames ==
    ASSUME NEW c, NEW e, NEW ix, NEW jx, NamedBy(c, e, ix), NamedBy(c, e, jx)
    PROVE  NamesOf(e.path, ix) = NamesOf(e.path, jx)
<1>1. PICK s : Reaches(c.files, e, s) /\ FileStep(c.files, e, s) = s /\ s.names = NamesOf(e.path, ix)
  BY DEF NamedBy
<1>2. PICK t : Reaches(c.files, e, t) /\ FileStep(c.files, e, t) = t /\ t.names = NamesOf(e.path, jx)
  BY DEF NamedBy
<1>3. s = t
  BY <1>1, <1>2, OneEnd
<1> QED
  BY <1>1, <1>2, <1>3

LEMMA NamedByNames ==
    ASSUME NEW c, NEW e, NEW ix, NEW jx, NamedBy(c, e, ix), NamesOf(e.path, jx) = NamesOf(e.path, ix)
    PROVE  NamedBy(c, e, jx)
<1>1. PICK s : Reaches(c.files, e, s) /\ FileStep(c.files, e, s) = s /\ s.names = NamesOf(e.path, ix)
  BY DEF NamedBy
<1>2. s.names = NamesOf(e.path, jx)
  BY <1>1
<1> QED
  BY <1>1, <1>2 DEF NamedBy

LEMMA StableIdsFrom == ASSUME ScanInv, NamesInv PROVE StableIds
<1> SUFFICES ASSUME Built, previous # <<>>, NEW e \in ToSet(discovered), MadeFrom(e.path) \cap touched = {}
             PROVE  IdsOf(e.path, index) = IdsOf(e.path, previous)
  BY DEF StableIds
<1>1. current = NoFile /\ index \in Seq(ToSet(index)) /\ \A n \in DOMAIN index : index[n].id = Identity(index[n])
  BY DEF ScanInv, CurrentInv, IndexInv, Built
<1>2. e \in Entry
  BY ElementOfSeq DEF ScanInv, ListingInv, ToSet
<1>3. e # current
  BY <1>1, <1>2, EntryFacts
<1>4. NamedBy(corpus, e, index)
  BY <1>3 DEF NamesInv, NamedInv, Stable
<1>5. e \in Candidates(corpus) /\ corpus.files[e.path] # NotThere
  <2>1. e \in Taken /\ e.path \in MadeFrom(e.path)
    BY DEF Taken, MadeFrom
  <2>2. Held(e.path) = {corpus.files[e.path]}
    BY <2>1 DEF Held
  <2> QED
    BY <2>1, <2>2, TakenFacts DEF ScanInv, DiscoveryInv
<1>6. /\ NamedBy(corpus, e, previous) /\ previous \in Seq(ToSet(previous))
      /\ \A n \in DOMAIN previous : previous[n].id = Identity(previous[n])
  BY <1>5 DEF NamesInv, PreviousInv, Stable
<1>7. NamesOf(e.path, index) = NamesOf(e.path, previous)
  BY <1>4, <1>6, SameNames
<1>8. IdsOf(e.path, index) = NamesOf(e.path, index)
  BY <1>1, IdsAreNames
<1>9. IdsOf(e.path, previous) = NamesOf(e.path, previous)
  BY <1>6, IdsAreNames
<1> QED
  BY <1>7, <1>8, <1>9

\* Steps that leave the tree and its edits alone.
LEMMA StableFrame == ASSUME UNCHANGED <<corpus, touched>> PROVE \A p : Stable(p)' <=> Stable(p)
BY DEF Stable, MadeFrom, Versions

LEMMA TreeFrame == ASSUME NamesInv, UNCHANGED <<corpus, touched, previous>> PROVE PreviousInv'
BY StableFrame DEF NamesInv, PreviousInv

LEMMA FileFrame ==
    ASSUME UNCHANGED <<chunkingVars, pages, page, part, current, index>> PROVE FileState' = FileState
BY CallFrame DEF FileState

\* Steps that only read the files and what is recorded of them.
LEMMA NamesFrame ==
    ASSUME NamesInv, UNCHANGED <<corpus, touched, previous, discovered, current, index>>,
           FileState' = FileState, Call' = Call
    PROVE  NamesInv'
<1>1. PreviousInv'
  BY TreeFrame
<1>3. NamedInv'
  BY StableFrame DEF NamesInv, NamedInv
<1>4. ReachedInv'
  BY StableFrame DEF NamesInv, ReachedInv
<1>5. IdleInv'
  BY DEF NamesInv, IdleInv
<1> QED
  BY <1>1, <1>3, <1>4, <1>5 DEF NamesInv

\* Steps that go on with the file at hand.
LEMMA GoesOn ==
    ASSUME NamesInv, UNCHANGED <<corpus, touched, previous, discovered, current>>, current # NoFile,
           Stable(current.path) => FileState' = FileStep(corpus.files, current, FileState),
           \A e \in ToSet(discovered) : e # current => NamesOf(e.path, index') = NamesOf(e.path, index)
    PROVE  NamesInv'
<1>1. PreviousInv'
  BY TreeFrame
<1>3. NamedInv'
  <2> SUFFICES ASSUME NEW e \in ToSet(discovered), e # current, Stable(e.path) PROVE NamedBy(corpus, e, index')
    BY StableFrame DEF NamedInv
  <2>1. NamedBy(corpus, e, index)
    BY DEF NamesInv, NamedInv
  <2>2. NamesOf(e.path, index') = NamesOf(e.path, index)
    OBVIOUS
  <2> QED
    BY <2>1, <2>2, NamedByNames
<1>4. ReachedInv'
  <2> SUFFICES ASSUME Stable(current.path) PROVE Reaches(corpus.files, current, FileState')
    BY StableFrame DEF ReachedInv
  <2>1. Reaches(corpus.files, current, FileState)
    BY DEF NamesInv, ReachedInv
  <2>2. FileState' = FileStep(corpus.files, current, FileState)
    OBVIOUS
  <2>3. PICK s : s = FileState
    OBVIOUS
  <2>4. Reaches(corpus.files, current, FileStep(corpus.files, current, s))
    BY <2>1, <2>3, StepReached
  <2> QED
    BY <2>2, <2>3, <2>4
<1>5. IdleInv'
  BY DEF IdleInv
<1> QED
  BY <1>1, <1>3, <1>4, <1>5 DEF NamesInv

LEMMA ChunkSourceNames == ASSUME ScanInv, NamesInv, ChunkSource PROVE NamesInv'
<1>1. UNCHANGED scanVars /\ current # NoFile
  BY DEF ChunkSource, Reading
<1>2. UNCHANGED <<corpus, touched, previous, discovered, current>> /\ index' = index
  BY <1>1 DEF scanVars
<1>3. FileState' = FileStep(corpus.files, current, FileState)
  BY ChunkSourceSteps
<1>4. \A e \in ToSet(discovered) : e # current => NamesOf(e.path, index') = NamesOf(e.path, index)
  BY <1>2
<1> QED
  BY <1>1, <1>2, <1>3, <1>4, GoesOn

LEMMA BeginPageNames == ASSUME ScanInv, NamesInv, BeginPage PROVE NamesInv'
<1>1. UNCHANGED <<corpus, touched, previous, discovered, current>> /\ index' = index /\ current # NoFile
  BY DEF BeginPage, history, files, accounts, Emptied, Reading
<1>2. FileState' = FileStep(corpus.files, current, FileState)
  BY BeginPageSteps
<1>3. \A e \in ToSet(discovered) : e # current => NamesOf(e.path, index') = NamesOf(e.path, index)
  BY <1>1
<1> QED
  BY <1>1, <1>2, <1>3, GoesOn

LEMMA ExpandIncludeNames == ASSUME ScanInv, SourceInv, IncludesInv, NamesInv, ExpandInclude PROVE NamesInv'
<1>1. UNCHANGED <<corpus, touched, previous, discovered, current>> /\ index' = index /\ current # NoFile
  BY DEF ExpandInclude, history, files, accounts, Chunked, Reading
<1>3. Stable(current.path) => FileState' = FileStep(corpus.files, current, FileState)
  BY ExpandIncludeSteps
<1>4. \A e \in ToSet(discovered) : e # current => NamesOf(e.path, index') = NamesOf(e.path, index)
  BY <1>1
<1> QED
  BY <1>1, <1>3, <1>4, GoesOn

LEMMA RecordChunkNames == ASSUME ScanInv, NamesInv, RecordChunk PROVE NamesInv'
<1>1. UNCHANGED <<corpus, touched, previous, discovered, current>> /\ current # NoFile
  BY DEF RecordChunk, history, files, accounts, Chunked, Reading
<1>2. FileState' = FileStep(corpus.files, current, FileState)
  BY RecordChunkSteps
<1>3. PICK new : index' = Append(index, new) /\ new.path = current.path
  BY DEF RecordChunk
<1>4. PICK T : T = ToSet(index) \cup {new}
  OBVIOUS
<1>5. index \in Seq(T) /\ new \in T
  <2>1. index \in Seq(ToSet(index))
    BY DEF ScanInv, IndexInv
  <2> QED
    BY <1>4, <2>1, SeqMonotonic
<1>6. ASSUME NEW e \in ToSet(discovered), e # current PROVE NamesOf(e.path, index') = NamesOf(e.path, index)
  <2>1. PICK n \in DOMAIN discovered : discovered[n] = e
    BY DEF ToSet
  <2>2. new.path # e.path
    BY <1>1, <1>3, <1>6, <2>1 DEF ScanInv, CurrentInv
  <2>3. NamesOf(e.path, Append(index, new)) = NamesOf(e.path, index)
    BY <1>5, <2>2, NamesKept
  <2> QED
    BY <1>3, <2>3
<1> QED
  BY <1>1, <1>2, <1>6, GoesOn

LEMMA EndFileNames == ASSUME ScanInv, NamesInv, EndFile PROVE NamesInv'
<1>1. UNCHANGED <<corpus, touched, previous, discovered>> /\ index' = index /\ current # NoFile /\ current' = NoFile
  BY DEF EndFile, history, files, accounts, Emptied, Reading
<1>2. PreviousInv'
  BY <1>1, TreeFrame
<1>4. NamedInv'
  <2> SUFFICES ASSUME NEW e \in ToSet(discovered), Stable(e.path) PROVE NamedBy(corpus, e, index)
    BY <1>1, StableFrame DEF NamedInv
  <2>1. CASE e # current
    BY <2>1 DEF NamesInv, NamedInv
  <2>2. CASE e = current
    <3>1. PICK s : s = FileState
      OBVIOUS
    <3>2. Reaches(corpus.files, e, s)
      BY <1>1, <2>2, <3>1 DEF NamesInv, ReachedInv
    <3>3. FileStep(corpus.files, e, s) = s
      BY <2>2, <3>1, EndFileRests
    <3>4. s.names = NamesOf(e.path, index)
      BY <2>2, <3>1, NamesOfState DEF FileState
    <3> QED
      BY <3>2, <3>3, <3>4 DEF NamedBy
  <2> QED
    BY <2>1, <2>2
<1>5. ReachedInv'
  BY <1>1 DEF ReachedInv
<1>6. IdleInv'
  <2>1. Call' = CallOf(<<>>, "document", "done")
    BY CallStarts DEF EndFile
  <2> QED
    BY <2>1 DEF IdleInv
<1> QED
  BY <1>2, <1>4, <1>5, <1>6 DEF NamesInv

LEMMA ListingNames == ASSUME NamesInv, ListDirectory \/ SkipSeen PROVE NamesInv'
<1>1. UNCHANGED <<corpus, touched, previous, discovered, current, index, chunkingVars, pages, page, part>>
  BY DEF ListDirectory, SkipSeen, history, files, accounts
<1>2. PreviousInv'
  BY <1>1, TreeFrame
<1>9. NamedInv'
  BY <1>1, StableFrame DEF NamesInv, NamedInv
<1>10. FileState' = FileState /\ Call' = Call
  BY <1>1, FileFrame, CallFrame
<1>11. ReachedInv'
  BY <1>1, <1>10, StableFrame DEF NamesInv, ReachedInv
<1>12. IdleInv'
  BY <1>1, <1>10 DEF NamesInv, IdleInv
<1> QED
  BY <1>2, <1>9, <1>11, <1>12 DEF NamesInv

LEMMA RaiseNames == ASSUME NamesInv, Raise PROVE NamesInv'
<1>1. UNCHANGED <<corpus, touched, previous, discovered, current, index, chunkingVars, pages, page, part>>
  BY DEF Raise, history, files, accounts
<1>2. FileState' = FileState /\ Call' = Call
  BY <1>1, FileFrame, CallFrame
<1> QED
  BY <1>1, <1>2, NamesFrame

LEMMA StutterNames == ASSUME NamesInv, UNCHANGED <<chunkingVars, scanVars>> PROVE NamesInv'
<1>1. UNCHANGED <<corpus, touched, previous, discovered, current, index, chunkingVars, pages, page, part>>
  BY DEF scanVars
<1>2. FileState' = FileState /\ Call' = Call
  BY <1>1, FileFrame, CallFrame
<1> QED
  BY <1>1, <1>2, NamesFrame

\* A file that is taken from the list has no names yet (_iter_files).
LEMMA FileTaken ==
    ASSUME ScanInv, NamesInv, NextFile, NEW e, e = Head(listing), e \in Entry, e \in Candidates(corpus),
           listing' = Tail(listing), ToSet(discovered') = ToSet(discovered) \cup {e},
           \A n \in DOMAIN discovered : discovered[n].path # e.path,
           UNCHANGED <<corpus, disk, touched, previous, index>>
    PROVE  /\ PreviousInv'
           /\ \A x \in ToSet(discovered') : x # e /\ Stable(x.path) => NamedBy(corpus, x, index)
           /\ NamesOf(e.path, index) = <<>>
           /\ Stable(e.path) => disk[e.path] = corpus.files[e.path]
<1>1. PreviousInv'
  BY TreeFrame
<1>3. ASSUME NEW x \in ToSet(discovered'), x # e, Stable(x.path) PROVE NamedBy(corpus, x, index)
  <2>1. x \in ToSet(discovered) /\ current = NoFile /\ discovered \in Seq(Entry)
    BY <1>3 DEF NextFile, ScanInv, ListingInv
  <2>2. x \in Entry
    BY <2>1, ElementOfSeq DEF ToSet
  <2>3. x # current
    BY <2>1, <2>2, EntryFacts
  <2> QED
    BY <1>3, <2>1, <2>3 DEF NamesInv, NamedInv
<1>4. NamesOf(e.path, index) = <<>>
  <2>1. IndexInv
    BY DEF ScanInv
  <2>2. ASSUME NEW n \in DOMAIN index PROVE index[n].path # e.path
    <3>1. PICK k \in DOMAIN discovered : discovered[k] = [path |-> index[n].path, group |-> index[n].group]
      BY <2>1 DEF IndexInv, Recorded
    <3> QED
      BY <3>1
  <2>3. index \in Seq(ToSet(index))
    BY <2>1 DEF IndexInv
  <2> QED
    BY <2>2, <2>3, NamesNone
<1>5. ASSUME Stable(e.path) PROVE disk[e.path] = corpus.files[e.path]
  <2>1. e.path \in MadeFrom(e.path)
    BY DEF MadeFrom
  <2>2. e.path \in Paths \ touched
    BY <1>5, <2>1, EntryFacts DEF Stable
  <2> QED
    BY <2>2, Untouched DEF ScanInv
<1> QED
  BY <1>1, <1>3, <1>4, <1>5

LEMMA OpenTextNames == ASSUME ScanInv, NamesInv, OpenText PROVE NamesInv'
<1>1. PICK e : e = Head(listing)
  OBVIOUS
<1>2. /\ NextFile /\ e.group # "pdf" /\ current = NoFile /\ current' = e
      /\ listing' = Tail(listing) /\ discovered' = Append(discovered, e) /\ seen' = seen
      /\ UNCHANGED <<corpus, disk, touched, walked, previous, index, pages, page, part>>
  BY <1>1 DEF OpenText, NextFile, history, files
<1>3. Chunker(disk[e.path].lines, KindOf(e.group), KindOf(e.group))
  BY <1>1 DEF OpenText, StartChunker, KindOf
<1>4. /\ e \in Entry /\ e \in Candidates(corpus) /\ ToSet(discovered') = ToSet(discovered) \cup {e}
      /\ \A n \in DOMAIN discovered : discovered[n].path # e.path
  BY <1>1, <1>2, TakeFile
<1>5. /\ PreviousInv'
      /\ \A x \in ToSet(discovered') : x # e /\ Stable(x.path) => NamedBy(corpus, x, index)
      /\ NamesOf(e.path, index) = <<>>
      /\ Stable(e.path) => disk[e.path] = corpus.files[e.path]
  BY <1>1, <1>2, <1>4, FileTaken
<1>6. NamedInv'
  BY <1>2, <1>5, StableFrame DEF NamedInv
<1>7. ReachedInv'
  <2> SUFFICES ASSUME Stable(e.path) PROVE Reaches(corpus.files, e, FileState')
    BY <1>2, StableFrame DEF ReachedInv
  <2>1. pages' = <<>> /\ page' = 0 /\ part' = FirstPart
    BY <1>2 DEF ScanInv, CurrentInv
  <2>2. Call' = CallOf(corpus.files[e.path].lines, KindOf(e.group), KindOf(e.group))
    BY <1>3, <1>5, CallStarts
  <2>3. NamesOf(current.path, index)' = <<>>
    BY <1>2, <1>5
  <2>4. FileState' = FileStart(corpus.files, e)
    BY <1>2, <2>1, <2>2, <2>3 DEF FileState, FileStart
  <2> QED
    BY <2>4, StartReached
<1>8. IdleInv'
  BY <1>2, <1>4, EntryFacts DEF IdleInv
<1> QED
  BY <1>5, <1>6, <1>7, <1>8 DEF NamesInv

LEMMA ReadPdfNames == ASSUME ScanInv, NamesInv, ReadPdf PROVE NamesInv'
<1>1. PICK e : e = Head(listing)
  OBVIOUS
<1>2. /\ NextFile /\ e.group = "pdf" /\ e.path \notin seen /\ current = NoFile
      /\ listing' = Tail(listing) /\ discovered' = Append(discovered, e) /\ seen' = seen \cup {e.path}
      /\ UNCHANGED <<chunkingVars, corpus, disk, touched, walked, previous, page, part, index>>
  BY <1>1 DEF ReadPdf, DiscoverPdf, AtPdf, NextFile, history, files
<1>3. PICK f : f = disk[e.path]
  OBVIOUS
<1>4. \/ PdfPages(f) = <<>> /\ current' = current /\ pages' = pages
      \/ current' = e /\ pages' = PdfPages(f)
  BY <1>1, <1>3 DEF ReadPdf, SkipPdf, OpenPdf
<1>5. /\ e \in Entry /\ e \in Candidates(corpus) /\ ToSet(discovered') = ToSet(discovered) \cup {e}
      /\ \A n \in DOMAIN discovered : discovered[n].path # e.path
  BY <1>1, <1>2, TakeFile
<1>6. /\ PreviousInv'
      /\ \A x \in ToSet(discovered') : x # e /\ Stable(x.path) => NamedBy(corpus, x, index)
      /\ NamesOf(e.path, index) = <<>>
      /\ Stable(e.path) => disk[e.path] = corpus.files[e.path]
  BY <1>1, <1>2, <1>5, FileTaken
<1>7. Call' = Call /\ Call = CallOf(<<>>, "document", "done")
  BY <1>2, CallFrame DEF NamesInv, IdleInv
<1>8. page' = 0 /\ part' = FirstPart /\ pages = <<>>
  BY <1>2 DEF ScanInv, CurrentInv
<1>9. PICK s : s = FileStart(corpus.files, e)
  OBVIOUS
<1>10. Stable(e.path) => s = StateWith(CallOf(<<>>, "document", "done"), PdfPages(f), 0, FirstPart, <<>>)
  BY <1>2, <1>3, <1>6, <1>9 DEF FileStart
<1>11. Reaches(corpus.files, e, s)
  BY <1>9, StartReached
<1>12. CASE PdfPages(f) = <<>> /\ current' = current /\ pages' = pages
  <2>1. ASSUME Stable(e.path) PROVE NamedBy(corpus, e, index)
    <3>1. PICK c : c = CallOf(<<>>, "document", "done")
      OBVIOUS
    <3>2. c.stage = "done" /\ c.chunks = <<>>
      BY <3>1 DEF CallOf, CallWith
    <3>3. ~(FirstPart.number <= Len(c.chunks))
      BY <3>2 DEF FirstPart
    <3>4. StepWith(corpus.files, e, c, <<>>, 0, FirstPart, <<>>) = StateWith(c, <<>>, 0, FirstPart, <<>>)
      BY <3>2, <3>3 DEF StepWith
    <3>5. s = StateWith(c, <<>>, 0, FirstPart, <<>>)
      BY <1>10, <1>12, <2>1, <3>1
    <3>6. FileStep(corpus.files, e, s) = s
      BY <3>4, <3>5, StepOfState
    <3>7. s.names = <<>>
      BY <3>5, NamesOfState
    <3> QED
      BY <1>6, <1>11, <3>6, <3>7 DEF NamedBy
  <2>2. NamedInv'
    BY <1>2, <1>6, <2>1, StableFrame DEF NamedInv
  <2>3. ReachedInv'
    BY <1>2, <1>12 DEF ReachedInv
  <2>4. IdleInv'
    BY <1>7 DEF IdleInv
  <2> QED
    BY <1>6, <2>2, <2>3, <2>4 DEF NamesInv
<1>13. CASE current' = e /\ pages' = PdfPages(f)
  <2>1. NamedInv'
    BY <1>2, <1>6, <1>13, StableFrame DEF NamedInv
  <2>2. ReachedInv'
    <3> SUFFICES ASSUME Stable(e.path) PROVE Reaches(corpus.files, e, FileState')
      BY <1>2, <1>13, StableFrame DEF ReachedInv
    <3>1. NamesOf(current.path, index)' = <<>>
      BY <1>2, <1>6, <1>13
    <3>2. FileState' = s
      BY <1>7, <1>8, <1>10, <1>13, <3>1 DEF FileState
    <3> QED
      BY <1>11, <3>2
  <2>3. IdleInv'
    BY <1>7 DEF IdleInv
  <2> QED
    BY <1>6, <2>1, <2>2, <2>3 DEF NamesInv
<1> QED
  BY <1>4, <1>12, <1>13

LEMMA IdentifyNames == ASSUME ScanInv, NamesInv, Identify PROVE NamesInv'
<1>1. /\ UNCHANGED <<corpus, touched, previous, discovered, current, chunkingVars>> /\ current = NoFile
      /\ index' = [k \in DOMAIN index |-> [index[k] EXCEPT !.id = Identity(index[k])]]
  BY DEF Identify, history, files, accounts
<1>2. PreviousInv'
  BY <1>1, TreeFrame
<1>4. index \in Seq(ToSet(index)) /\ \A n \in DOMAIN index : DOMAIN index[n] = ChunkFields
  BY DEF ScanInv, IndexInv, Recorded
<1>5. DOMAIN index' = DOMAIN index
  BY <1>1
<1>6. ASSUME NEW n \in DOMAIN index PROVE index'[n].path = index[n].path /\ Identity(index'[n]) = Identity(index[n])
  <2>1. PICK c : c = index[n]
    OBVIOUS
  <2>2. PICK d : d = [c EXCEPT !.id = Identity(c)]
    OBVIOUS
  <2>3. index'[n] = d
    BY <1>1, <1>6, <2>1, <2>2
  <2>4. d.path = c.path /\ d.page = c.page /\ d.first = c.first /\ d.last = c.last /\ d.text = c.text
    BY <1>4, <2>1, <2>2 DEF ChunkFields
  <2> QED
    BY <2>1, <2>3, <2>4 DEF Identity
<1>7. \A p : NamesOf(p, index') = NamesOf(p, index)
  <2> SUFFICES ASSUME NEW p PROVE NamesOf(p, index') = NamesOf(p, index)
    OBVIOUS
  <2>1. PICK ix : ix = index
    OBVIOUS
  <2>2. PICK jx : jx = index'
    OBVIOUS
  <2>3. ix \in Seq(ToSet(index)) /\ DOMAIN jx = DOMAIN ix
    BY <1>4, <1>5, <2>1, <2>2
  <2>4. \A n \in DOMAIN ix : jx[n].path = ix[n].path /\ Identity(jx[n]) = Identity(ix[n])
    BY <1>6, <2>1, <2>2
  <2>5. NamesOf(p, jx) = NamesOf(p, ix)
    BY <2>3, <2>4, NamesSame
  <2> QED
    BY <2>1, <2>2, <2>5
<1>8. NamedInv'
  <2> SUFFICES ASSUME NEW e \in ToSet(discovered), e # current, Stable(e.path) PROVE NamedBy(corpus, e, index')
    BY <1>1, StableFrame DEF NamedInv
  <2>1. NamedBy(corpus, e, index)
    BY DEF NamesInv, NamedInv
  <2>2. NamesOf(e.path, index') = NamesOf(e.path, index)
    BY <1>7
  <2> QED
    BY <2>1, <2>2, NamedByNames
<1>9. ReachedInv'
  BY <1>1 DEF ReachedInv
<1>10. IdleInv'
  BY <1>1, CallFrame DEF NamesInv, IdleInv
<1> QED
  BY <1>2, <1>8, <1>9, <1>10 DEF NamesInv

LEMMA EditNames == ASSUME ScanInv, NamesInv, Edit PROVE NamesInv'
<1>1. UNCHANGED <<corpus, previous, discovered, listing, current, index, chunkingVars, pages, page, part>>
  BY DEF Edit, accounts
<1>2. PICK p \in Paths : touched' = touched \cup {p}
  BY DEF Edit
<1>3. \A q : MadeFrom(q)' = MadeFrom(q)
  BY <1>1 DEF MadeFrom, Versions
<1>4. \A q : Stable(q)' => Stable(q)
  BY <1>2, <1>3 DEF Stable
<1>7. NamedInv'
  BY <1>1, <1>4 DEF NamesInv, NamedInv
<1>8. FileState' = FileState /\ Call' = Call
  BY <1>1, FileFrame, CallFrame
<1>9. ReachedInv'
  BY <1>1, <1>4, <1>8 DEF NamesInv, ReachedInv
<1>10. IdleInv'
  BY <1>1, <1>8 DEF NamesInv, IdleInv
<1>11. PreviousInv'
  BY <1>1, <1>4 DEF NamesInv, PreviousInv
<1> QED
  BY <1>7, <1>9, <1>10, <1>11 DEF NamesInv

LEMMA RescanNames == ASSUME ScanInv, NamesInv, Rescan PROVE NamesInv'
<1>1. /\ UNCHANGED <<corpus, touched, current, chunkingVars>> /\ status = "built"
      /\ previous' = index /\ discovered' = <<>>
  BY DEF Rescan, files
<1>2. current = NoFile /\ listing = <<>> /\ index \in Seq(ToSet(index)) /\ discovered \in Seq(Entry)
      /\ walked = Len(Walk(corpus)) /\ DiscoveryInv /\ corpus \in Corpora
      /\ \A n \in DOMAIN index : index[n].id = Identity(index[n])
  BY <1>1 DEF ScanInv, FilesInv, CurrentInv, IndexInv, ListingInv, Built
<1>4. ToSet(discovered') = {}
  BY <1>1 DEF ToSet
<1>6. NamedInv'
  BY <1>4 DEF NamedInv
<1>7. ReachedInv'
  BY <1>1, <1>2 DEF ReachedInv
<1>8. IdleInv'
  BY <1>1, CallFrame DEF NamesInv, IdleInv
<1>9. ASSUME NEW e \in Candidates(corpus), Stable(e.path), corpus.files[e.path] # NotThere
      PROVE  NamedBy(corpus, e, index)
  <2>1. Taken = ToSet(discovered) /\ NamedSoFar = Candidates(corpus)
    BY <1>2, AllNamed
  <2>2. e \in ToSet(discovered)
    <3>1. e.path \in MadeFrom(e.path)
      BY DEF MadeFrom
    <3>2. Held(e.path) = {corpus.files[e.path]}
      BY <1>9, <3>1 DEF Stable, Held
    <3> QED
      BY <1>2, <1>9, <2>1, <3>2 DEF DiscoveryInv
  <2>3. e \in Entry
    BY <1>2, <2>2, ElementOfSeq DEF ToSet
  <2>4. e # current
    BY <1>2, <2>3, EntryFacts
  <2> QED
    BY <1>9, <2>2, <2>4 DEF NamesInv, NamedInv
<1>10. PreviousInv'
  BY <1>1, <1>2, <1>9, StableFrame DEF PreviousInv
<1> QED
  BY <1>6, <1>7, <1>8, <1>10 DEF NamesInv

LEMMA ScanNextNames ==
    ASSUME ScanInv, SourceInv, IncludesInv, NamesInv, [ScanNext]_<<chunkingVars, scanVars>> PROVE NamesInv'
<1>1. CASE FileRaises \/ IncludeRaises
  BY <1>1, RaiseNames DEF FileRaises, IncludeRaises
<1>2. CASE UNCHANGED <<chunkingVars, scanVars>>
  BY <1>2, StutterNames
<1>3. CASE ListDirectory \/ SkipSeen \/ OpenText \/ ReadPdf
  BY <1>3, ListingNames, OpenTextNames, ReadPdfNames
<1>4. CASE ChunkSource \/ ExpandInclude \/ RecordChunk \/ BeginPage \/ EndFile
  BY <1>4, ChunkSourceNames, ExpandIncludeNames, RecordChunkNames, BeginPageNames, EndFileNames
<1>5. CASE Identify \/ Edit \/ Rescan
  BY <1>5, IdentifyNames, EditNames, RescanNames
<1> QED
  BY <1>1, <1>2, <1>3, <1>4, <1>5 DEF ScanNext

\* Scanning a file is a function of the files its chunks are made from: a file that no
\* edit has reached has, in the index at hand and in the one before, the names that the
\* scan of the unedited tree ends with, whatever became of other files (build_index).
THEOREM NamesInvariant == ScanSpec => []NamesInv
<1>1. ScanInit => NamesInv
  <2> SUFFICES ASSUME ScanInit PROVE NamesInv
    OBVIOUS
  <2>1. PICK c \in Corpora : ScanInitOf(c)
    BY DEF ScanInit
  <2>2. current = NoFile /\ discovered = <<>> /\ previous = <<>>
    BY <2>1 DEF ScanInitOf
  <2>3. Call = CallOf(<<>>, "document", "done")
    BY <2>1 DEF ScanInitOf, Call, CallOf
  <2>4. ToSet(discovered) = {}
    BY <2>2 DEF ToSet
  <2> QED
    BY <2>2, <2>3, <2>4 DEF NamesInv, NamedInv, ReachedInv, IdleInv, PreviousInv
<1>2. ScanInv /\ SourceInv /\ IncludesInv /\ NamesInv /\ [ScanNext]_<<chunkingVars, scanVars>> => NamesInv'
  BY ScanNextNames
<1> QED
  BY <1>1, <1>2, ScanInvariant, SourceInvariant, IncludesInvariant, PTL DEF ScanSpec

\* "Content-addressed IDs stay stable across identical rebuilds" (index_builder.py), and
\* across rebuilds of a tree in which other files have changed; within one index no two
\* chunks share a name.
THEOREM IdsDoIdentify == ScanSpec => []IdsIdentify
<1>1. ScanInv /\ NamesInv => StableIds
  BY StableIdsFrom
<1>2. UniqueIds /\ StableIds => IdsIdentify
  BY DEF IdsIdentify
<1> QED
  BY <1>1, <1>2, ScanInvariant, NamesInvariant, IdsAreUnique, PTL
=============================================================================
