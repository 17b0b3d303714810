----------------------------- MODULE CorpusScan -----------------------------
(***************************************************************************)
(* The scan of the corpus by build_index (rag/index_builder.py), with      *)
(* expand_includes (rag/includes.py): directories are listed when the walk *)
(* comes to them, files are read one after the other and cut into chunks   *)
(* by Chunking, the includes of tutorials are expanded from files read at  *)
(* that moment, and at the end every chunk gets the name its content gives *)
(* it.  An editor may create, change or delete a file while the scan runs, *)
(* and the corpus may be scanned again.                                    *)
(***************************************************************************)
EXTENDS Chunking

CONSTANTS
    Paths,      \* resolved file names
    Outside,    \* those that are not below the source root
    Corpora,    \* source trees, see Corpus
    MaxEdits    \* bound on the edits of a behaviour

NotThere == [type |-> "absent"]
TextOf(L) == [type: {"text"}, lines: Seq(L), utf8: BOOLEAN]
\* Text is a sequence of lines, valid UTF-8 or not; a PDF is a sequence of
\* pages, which pypdf can read or not.
PdfFile == [type: {"pdf"}, pages: Seq(Seq(DocLine)), readable: BOOLEAN]
FileContents == {NotThere} \cup TextOf(DocLine) \cup TextOf(CodeLine) \cup PdfFile
\* The directories below projects/, below tutorial/ and below one PDF root after
\* the other, in the order of os.walk, each with the files of the suffixes in
\* question that it may hold, sorted; the files; what an editor may make of
\* them; and how often the tree is scanned.
Corpus == [projects: Seq(Seq(Paths)), tutorial: Seq(Seq(Paths)), pdfs: Seq(Seq(Paths)),
           files: [Paths -> FileContents], edits: [Paths -> SUBSET FileContents], scans: Nat]

Entry == [path: Paths, group: {"project", "tutorial", "pdf"}]
Entries(paths, g) == [k \in DOMAIN paths |-> [path |-> paths[k], group |-> g]]
Below(dirs, g) == [k \in DOMAIN dirs |-> Entries(dirs[k], g)]
\* The order of _iter_files.
Walk(c) == Below(c.projects, "project") \o Below(c.tutorial, "tutorial") \o Below(c.pdfs, "pdf")
Candidates(c) == UNION {ToSet(Walk(c)[n]) : n \in DOMAIN Walk(c)}

\* Two entries for one file: os.walk names each file once and the suffix decides
\* how it is listed, so that only PDF roots that overlap list one again.
Twice(e, f) == e.path = f.path /\ (e.group # "pdf" \/ f.group # "pdf")
\* What a file of that suffix is read as; a PDF that is none cannot be read.
Source(g) == IF g = "pdf" THEN PdfFile
             ELSE IF g = "project" THEN TextOf(CodeLine) ELSE TextOf(DocLine)

\* What a file is at the start of a behaviour or after an edit.
VersionsOf(c, p) == {c.files[p]} \cup c.edits[p]
\* {{#include path}} and {{#include path:anchor}}.
IsInclude(text) == text # <<>> /\ text[1] = "include"

\* An include names a file, after resolve(), and an anchor, "" for none.
ASSUME ScanAssumption ==
    /\ Outside \subseteq Paths /\ MaxEdits \in Nat /\ Corpora \subseteq Corpus
    /\ \A c \in Corpora : \A m, n \in DOMAIN Walk(c) :
         \A k \in DOMAIN Walk(c)[m], l \in DOMAIN Walk(c)[n] :
           Twice(Walk(c)[m][k], Walk(c)[n][l]) => m = n /\ k = l
    /\ \A c \in Corpora : \A e \in Candidates(c) :
         VersionsOf(c, e.path) \subseteq {NotThere} \cup Source(e.group)
    /\ \A c \in Corpora : \A e \in Candidates(c) : e.group = "tutorial" =>
         \A f \in VersionsOf(c, e.path) \ {NotThere} : \A k \in DOMAIN f.lines :
           IsInclude(f.lines[k].text) => Len(f.lines[k].text) = 3 /\ f.lines[k].text[2] \in Paths

VARIABLES
    corpus, disk, edits,    \* the tree, its files now, the edits so far
    walked, listing, seen,  \* directories listed, what the last has yet to yield; PDFs
    current, pages, page,   \* the file at hand, its pages to come, the page
    part,                   \* the chunk at hand: its number, line, text and references
    index, references,      \* chunks, include_references
    discovered, parsed, failed,
    status,                 \* "scanning", or how build_index goes on
    previous, touched       \* history: the last index, files edited since its scan began

scanVars == <<corpus, disk, edits, walked, listing, seen, current, pages, page, part, index,
              references, discovered, parsed, failed, status, previous, touched>>
history == <<corpus, previous, touched>>
files == <<disk, edits>>
accounts == <<discovered, parsed, failed>>

NoFile == [path |-> "", group |-> ""]
FirstPart == [number |-> 1, line |-> 0, text |-> <<>>, refs |-> <<>>]

ScanInitOf(c) ==
    /\ corpus = c /\ disk = c.files /\ edits = 0
    /\ walked = 0 /\ listing = <<>> /\ seen = {}
    /\ current = NoFile /\ pages = <<>> /\ page = 0 /\ part = FirstPart
    /\ index = <<>> /\ references = <<>>
    /\ discovered = <<>> /\ parsed = {} /\ failed = <<>>
    /\ status = "scanning" /\ previous = <<>> /\ touched = {}
    /\ lines = <<>> /\ kind = "document" /\ stage = "done"
    /\ i = 1 /\ start = 1 /\ size = 0 /\ fence = NoFence
    /\ starts = <<>> /\ chunks = <<>>
ScanInit == \E c \in Corpora : ScanInitOf(c)

-----------------------------------------------------------------------------
(* Discovery and reading. *)

Scanning == status = "scanning"
NextFile == Scanning /\ current = NoFile /\ listing # <<>>
AtPdf == NextFile /\ Head(listing).group = "pdf"
Raise == /\ status' = "raised"
         /\ UNCHANGED <<chunkingVars, history, files, walked, listing, seen, current, pages,
                        page, part, index, references, accounts>>

\* os.walk comes to the next directory and lists what is there now; a file may
\* be gone, or another have come, by the time it is read.
ListDirectory ==
    /\ Scanning /\ current = NoFile /\ listing = <<>> /\ walked < Len(Walk(corpus))
    /\ walked' = walked + 1
    /\ LET names == Walk(corpus)[walked + 1]
       IN  listing' = Picked(names, {k \in DOMAIN names : disk[names[k].path] # NotThere})
    /\ UNCHANGED <<chunkingVars, history, files, seen, current, pages, page, part, index,
                   references, accounts, status>>

\* A PDF that was listed below an earlier root already.
SkipSeen ==
    /\ AtPdf /\ Head(listing).path \in seen
    /\ listing' = Tail(listing)
    /\ UNCHANGED <<chunkingVars, history, files, walked, seen, current, pages, page, part,
                   index, references, accounts, status>>

\* Code and documents are read whole, then chunked; bytes that are not UTF-8
\* are dropped.
OpenText ==
    /\ NextFile /\ Head(listing).group # "pdf"
    /\ disk[Head(listing).path] # NotThere
    /\ current' = Head(listing) /\ listing' = Tail(listing)
    /\ discovered' = Append(discovered, Head(listing))
    /\ StartChunker(disk[Head(listing).path].lines,
                    IF Head(listing).group = "project" THEN "code" ELSE "document")
    /\ UNCHANGED <<history, files, walked, seen, pages, page, part, index, references,
                   parsed, failed, status>>

\* The file is gone since its directory was listed, or a PDF was reached
\* through a link out of the root: read_text or relative_to raises and no index
\* is built.
FileRaises ==
    /\ NextFile
    /\ \/ Head(listing).group # "pdf" /\ disk[Head(listing).path] = NotThere
       \/ AtPdf /\ Head(listing).path \in Outside \ seen
    /\ Raise

\* Mutant: the pages with text are numbered among themselves.
PdfPagesRenumbered(f) ==
    IF f.type # "pdf" \/ ~f.readable THEN <<>>
    ELSE LET kept == Ascending({k \in DOMAIN f.pages : f.pages[k] # <<>>})
         IN  [n \in DOMAIN kept |-> [number |-> n, lines |-> f.pages[kept[n]]]]

\* _read_pdf_pages: the pages with text, under the numbers they have in the
\* file; none for a file that is missing or cannot be read.
PdfPages(f) ==
    IF f.type # "pdf" \/ ~f.readable THEN <<>>
    ELSE LET kept == Ascending({k \in DOMAIN f.pages : f.pages[k] # <<>>})
         IN  [n \in DOMAIN kept |-> [number |-> kept[n], lines |-> f.pages[kept[n]]]]

\* Mutant: a PDF without text is passed over.
SkipPdfSilently ==
    /\ PdfPages(disk[Head(listing).path]) = <<>>
    /\ UNCHANGED <<failed, parsed, current, pages>>

DiscoverPdf ==
    /\ AtPdf /\ Head(listing).path \notin seen \cup Outside
    /\ listing' = Tail(listing) /\ seen' = seen \cup {Head(listing).path}
    /\ discovered' = Append(discovered, Head(listing))

SkipPdf ==
    /\ PdfPages(disk[Head(listing).path]) = <<>>
    /\ failed' = Append(failed, Head(listing).path)
    /\ UNCHANGED <<parsed, current, pages>>

OpenPdf ==
    /\ PdfPages(disk[Head(listing).path]) # <<>>
    /\ parsed' = parsed \cup {Head(listing).path}
    /\ current' = Head(listing) /\ pages' = PdfPages(disk[Head(listing).path])
    /\ UNCHANGED failed

ReadPdf ==
    /\ DiscoverPdf
    /\ SkipPdf \/ OpenPdf
    /\ UNCHANGED <<chunkingVars, history, files, walked, page, part, index, references, status>>

-----------------------------------------------------------------------------
(* From the chunks of a source to those of the index. *)

Reading == Scanning /\ current # NoFile
Chunked == Reading /\ stage = "done" /\ part.number <= Len(chunks)

ChunkSource ==
    /\ Reading /\ ChunkingNext
    /\ UNCHANGED scanVars

Line(k) == lines[chunks[part.number][1] + k - 1]
PartLines == 1..(chunks[part.number][2] - chunks[part.number][1] + 1)
\* The lines of the chunk with an include that is not expanded yet.
Pending == {k \in PartLines : k > part.line /\ current.group = "tutorial"
                              /\ IsInclude(Line(k).text)}
Said(k) == <<Line(k).text>>
CopiedTo(m) == part.text \o [k \in 1..(m - part.line) |-> Said(part.line + k)]

\* begins[0] and ends[0], counting from one; zero if there is none.
Mark(ls, name, anchor) == SelectInSeq(ls, LAMBDA x : x.text = <<name, anchor>>)

WholeFile(ls) == [status |-> "expanded", first |-> 1, last |-> Len(ls)]
\* Mutant: the begin mark is taken for the first line of the example.
ResolvedFromMark(ls, anchor) ==
    LET b == Mark(ls, "begin", anchor) e == Mark(ls, "end", anchor)
    IN  IF anchor = "" THEN WholeFile(ls)
        ELSE IF b = 0 \/ e = 0 \/ e <= b
        THEN [status |-> "unsupported_or_missing_anchor", first |-> 0, last |-> 0]
        ELSE [status |-> "expanded", first |-> b, last |-> e - 1]

\* The lines that an include stands for.
Resolved(ls, anchor) ==
    LET b == Mark(ls, "begin", anchor) e == Mark(ls, "end", anchor)
    IN  IF anchor = "" THEN WholeFile(ls)
        ELSE IF b = 0 \/ e = 0 \/ e <= b
        THEN [status |-> "unsupported_or_missing_anchor", first |-> 0, last |-> 0]
        ELSE [status |-> "expanded", first |-> b + 1, last |-> e - 1]

Resolve(path, f, anchor) ==
    IF path \in Outside THEN [status |-> "outside_source_root", first |-> 0, last |-> 0]
    ELSE IF f = NotThere THEN [status |-> "missing", first |-> 0, last |-> 0]
    ELSE Resolved(f.lines, anchor)
Reference(text, r) == [path |-> text[2], anchor |-> text[3], status |-> r.status,
                       first |-> r.first, last |-> r.last]
\* The text that replaces an include, a marker if there is none.
Replacement(f, r) ==
    IF r.status # "expanded" THEN <<<<"unavailable", r.status>>>>
    ELSE [k \in 1..(r.last - r.first + 1) |-> f.lines[r.first + k - 1].text]

\* Reading an existing file below the root as UTF-8.
Undecodable(path) ==
    /\ path \notin Outside /\ disk[path] # NotThere
    /\ disk[path].type = "text" => ~disk[path].utf8

\* One call of replace in expand_includes.
ExpandInclude ==
    /\ Chunked /\ Pending # {}
    /\ LET k == Min(Pending)
           said == Line(k).text
           file == disk[said[2]]
           r == Resolve(said[2], file, said[3])
       IN  /\ ~Undecodable(said[2])
           /\ part' = [part EXCEPT !.line = k,
                         !.text = Append(CopiedTo(k - 1), Replacement(file, r)),
                         !.refs = Append(@, Reference(said, r))]
    /\ UNCHANGED <<chunkingVars, history, files, walked, listing, seen, current, pages, page,
                   index, references, accounts, status>>

\* An included file must be UTF-8, unlike a source file.
IncludeRaises ==
    /\ Chunked /\ Pending # {}
    /\ Undecodable(Line(Min(Pending)).text[2])
    /\ Raise

PartText == CopiedTo(Cardinality(PartLines))
ReferencesOf(path, refs) == [k \in DOMAIN refs |-> [document |-> path, ref |-> refs[k]]]

\* Chunk(...) with its provisional id.
RecordChunk ==
    /\ Chunked /\ Pending = {}
    /\ index' = Append(index,
         [id |-> <<"chunk", Len(index)>>, path |-> current.path, group |-> current.group,
          page |-> page, first |-> chunks[part.number][1], last |-> chunks[part.number][2],
          text |-> PartText, refs |-> part.refs])
    /\ references' = references \o ReferencesOf(current.path, part.refs)
    /\ part' = [FirstPart EXCEPT !.number = part.number + 1]
    /\ UNCHANGED <<chunkingVars, history, files, walked, listing, seen, current, pages, page,
                   accounts, status>>

Emptied == Reading /\ stage = "done" /\ part.number > Len(chunks)

BeginPage ==
    /\ Emptied /\ pages # <<>>
    /\ page' = Head(pages).number /\ pages' = Tail(pages)
    /\ StartChunker(Head(pages).lines, "document")
    /\ part' = FirstPart
    /\ UNCHANGED <<history, files, walked, listing, seen, current, index, references, accounts,
                   status>>

EndFile ==
    /\ Emptied /\ pages = <<>>
    /\ current' = NoFile /\ page' = 0 /\ part' = FirstPart
    /\ Chunker(<<>>, "document", "done")
    /\ UNCHANGED <<history, files, walked, listing, seen, pages, index, references, accounts,
                   status>>

\* Mutant: the provisional id stays.
IdentityNumbered(c) == c.id

\* The hash of path, page, lines and text.
Identity(c) == <<c.path, c.page, c.first, c.last, c.text>>

\* The scan is over: what follows writes the index (IndexStore).
Identify ==
    /\ Scanning /\ current = NoFile /\ listing = <<>> /\ walked = Len(Walk(corpus))
    /\ index' = [k \in DOMAIN index |-> [index[k] EXCEPT !.id = Identity(index[k])]]
    /\ status' = "built"
    /\ UNCHANGED <<chunkingVars, history, files, walked, listing, seen, current, pages, page,
                   part, references, accounts>>

\* Somebody creates, saves or deletes a file, at any moment.
Edit ==
    /\ edits < MaxEdits
    /\ \E p \in Paths : \E f \in corpus.edits[p] \ {disk[p]} :
         disk' = [disk EXCEPT ![p] = f] /\ touched' = touched \cup {p}
    /\ edits' = edits + 1
    /\ UNCHANGED <<chunkingVars, corpus, previous, walked, listing, seen, current, pages, page,
                   part, index, references, accounts, status>>

\* build_index is called again; touched keeps the edits made during the scan
\* before, as they may or may not be in its index.
Rescan ==
    /\ status = "built" /\ previous = <<>> /\ corpus.scans > 1
    /\ previous' = index
    /\ walked' = 0 /\ seen' = {}
    /\ index' = <<>> /\ references' = <<>>
    /\ discovered' = <<>> /\ parsed' = {} /\ failed' = <<>>
    /\ status' = "scanning"
    /\ UNCHANGED <<chunkingVars, corpus, touched, files, listing, current, pages, page, part>>

ScanNext ==
    \/ ListDirectory \/ SkipSeen \/ OpenText \/ FileRaises \/ ReadPdf \/ ChunkSource
    \/ ExpandInclude \/ IncludeRaises \/ RecordChunk \/ BeginPage \/ EndFile
    \/ Identify \/ Edit \/ Rescan
ScanSpec == ScanInit /\ [][ScanNext]_<<chunkingVars, scanVars>>

-----------------------------------------------------------------------------
(* Properties. *)

\* The state of one build over the corpus: the files found, the chunks indexed
\* so far and the files reported as failed (index_builder.py).
ScanTypeOK ==
    /\ ChunkingTypeOK
    /\ DOMAIN disk = Paths /\ edits \in 0..MaxEdits /\ walked \in 0..Len(Walk(corpus))
    /\ seen \subseteq Paths /\ parsed \subseteq Paths /\ failed \in Seq(Paths)
    /\ \A e \in ToSet(listing) \cup ToSet(discovered) :
         e.path \in Paths /\ e.group \in {"project", "tutorial", "pdf"}
    /\ \A c \in ToSet(index) : c.path \in Paths /\ c.page \in Nat /\ c.first \in 1..c.last
    /\ part.number \in 1..(Len(chunks) + 1)
    /\ status \in {"scanning", "built", "raised"}

Built == status = "built"
Versions(p) == VersionsOf(corpus, p)
ChunksOf(p) == {c \in ToSet(index) : c.path = p}
\* The texts of a file with their page numbers.
Bodies(f) ==
    CASE f.type = "absent" -> {}
      [] f.type = "text" -> {[page |-> 0, lines |-> f.lines]}
      [] f.type = "pdf" /\ ~f.readable -> {}
      [] OTHER -> {[page |-> k, lines |-> f.pages[k]] : k \in DOMAIN f.pages}

\* A chunk repeats the lines it names, but for the includes of a tutorial.
Repeats(c, b) ==
    /\ c.page = b.page /\ c.last <= Len(b.lines) /\ Len(c.text) = c.last - c.first + 1
    /\ \A k \in DOMAIN c.text :
         LET said == b.lines[c.first + k - 1].text
         IN  (c.group = "tutorial" /\ IsInclude(said)) \/ c.text[k] = <<said>>

\* "source-preserving" (chunking.py, chunker_version): however files change
\* while they are scanned, all chunks of one file come from one version of it,
\* under its own line and page numbers, and together hold all its text.
SourcePreserving ==
    /\ NothingLost
    /\ Built => \A e \in ToSet(discovered) : \E f \in Versions(e.path) :
         /\ \A c \in ChunksOf(e.path) : \E b \in Bodies(f) : Repeats(c, b)
         /\ \A b \in Bodies(f) : \A k \in DOMAIN b.lines : ~b.lines[k].blank =>
              \E c \in ChunksOf(e.path) : c.page = b.page /\ c.first <= k /\ k <= c.last

\* No two chunks of an index have the same name, although overlapping PDF
\* roots list a file twice: _is_near_dup and the citations of evidence blocks
\* identify a chunk by its id.
UniqueIds == Built => \A k, m \in DOMAIN index : index[k].id = index[m].id => k = m

\* The files that the chunks of a path are made from.
MadeFrom(p) ==
    {p} \cup UNION {{x.text[2] : x \in {y \in ToSet(b.lines) : IsInclude(y.text)}} :
                    b \in UNION {Bodies(f) : f \in Versions(p)}}
IdsOf(p, ix) ==
    LET own == Picked(ix, {n \in DOMAIN ix : ix[n].path = p}) IN [k \in DOMAIN own |-> own[k].id]

\* "Content-addressed IDs stay stable across identical rebuilds"
\* (index_builder.py), and across rebuilds of a corpus in which other files
\* have changed, grown or gone.
StableIds ==
    Built /\ previous # <<>> =>
      \A e \in ToSet(discovered) : MadeFrom(e.path) \cap touched = {} =>
        IdsOf(e.path, index) = IdsOf(e.path, previous)

\* A chunk's name is unique in its index and the same in every index that
\* holds the chunk (the ids that build_index makes of path, page, lines and
\* text).
IdsIdentify == UniqueIds /\ StableIds

\* What a file has been so far, as the edits tell.
Held(p) == IF p \in touched THEN Versions(p) ELSE {corpus.files[p]}
PdfPaths == {e.path : e \in {x \in Candidates(corpus) : x.group = "pdf"}}

\* However files come and go while the roots are walked: a PDF that was below
\* them all along is discovered, one that never was is not.  What is discovered
\* is discovered once, although roots overlap, and then either parsed or listed
\* as failed, never both and never neither, and only parsed ones have chunks
\* (the counts of pdf_indexing, and the warning that rests on them).
PdfAccounted ==
    Built =>
      LET found == {k \in DOMAIN discovered : discovered[k].group = "pdf"}
          paths == {discovered[k].path : k \in found}
      IN  /\ {p \in PdfPaths : NotThere \notin Held(p)} \subseteq paths
          /\ paths \subseteq {p \in PdfPaths : Held(p) # {NotThere}}
          /\ parsed \cap ToSet(failed) = {}
          /\ parsed \cup ToSet(failed) = paths
          /\ Cardinality(found) = Cardinality(parsed) + Len(failed)
          /\ \A c \in ToSet(index) : c.group = "pdf" => c.path \in parsed

\* The example that a reference names in a version of its file.
Shows(r, f, text) ==
    /\ f.type = "text" /\ r.last <= Len(f.lines)
    /\ text = [k \in 1..(r.last - r.first + 1) |-> f.lines[r.first + k - 1].text]
    /\ r.anchor # "" => /\ r.first > 1 /\ f.lines[r.first - 1].text = <<"begin", r.anchor>>
                        /\ r.last < Len(f.lines) /\ f.lines[r.last + 1].text = <<"end", r.anchor>>
\* What stands for an include is the example that its reference names, in one
\* version of a file below the root, or else a marker.
Expanded(c, r, said, text) ==
    /\ said = <<"include", r.path, r.anchor>>
    /\ IF r.status = "expanded"
       THEN r.path \notin Outside /\ \E f \in VersionsOf(c, r.path) : Shows(r, f, text)
       ELSE text = <<<<"unavailable", r.status>>>>
\* The includes in m lines of a document, from line a on, have one reference each.
Noted(c, refs, text, ls, a, m) ==
    LET at == Ascending({k \in 1..m : IsInclude(ls[a + k - 1].text)})
    IN  /\ Len(refs) = Len(at)
        /\ \A n \in DOMAIN at : Expanded(c, refs[n], ls[a + at[n] - 1].text, text[at[n]])
\* A chunk is made from one version of its document.
Cites(c, chunk) ==
    \E f \in VersionsOf(c, chunk.path) :
      /\ f.type = "text" /\ Repeats(chunk, [page |-> 0, lines |-> f.lines])
      /\ Noted(c, chunk.refs, chunk.text, f.lines, chunk.first, chunk.last - chunk.first + 1)
AllReferences(ix) == FlattenSeq([n \in DOMAIN ix |-> ReferencesOf(ix[n].path, ix[n].refs)])

\* "Missing/out-of-snapshot/unsupported includes get an explicit unavailable
\* marker and a manifest entry" (README.md), "Include expansions carry their own
\* source span" (DESIGN.md): every include of a document has one reference in its
\* chunk, in order; what it inserts is exactly the lines that the reference names,
\* between the marks, or a marker; the manifest has the references of all chunks.
IncludesExact ==
    Built => /\ references = AllReferences(index)
             /\ \A c \in ToSet(index) : c.group = "tutorial" => Cites(corpus, c)

-----------------------------------------------------------------------------
(* The inductive invariant behind these properties. *)

\* Whatever is read is a version of the file, the first one before any edit.
FilesInv ==
    /\ corpus \in Corpora /\ DOMAIN disk = Paths /\ edits \in 0..MaxEdits
    /\ \A p \in Paths : disk[p] \in Held(p)

\* What is still listed, and what has been taken from the list.
PdfsIn(s) == {e.path : e \in {x \in ToSet(s) : x.group = "pdf"}}
ListingInv ==
    /\ listing \in Seq(Entry) /\ discovered \in Seq(Entry)
    /\ \A m, n \in DOMAIN listing : Twice(listing[m], listing[n]) => m = n
    /\ \A m \in DOMAIN listing : \A n \in DOMAIN discovered : ~Twice(listing[m], discovered[n])
    /\ seen = PdfsIn(discovered)

\* What the walk has named: files of the directories it has listed, all that
\* were there throughout, and none that never was.
Taken == ToSet(discovered) \cup ToSet(listing)
NamedSoFar == UNION {ToSet(Walk(corpus)[n]) : n \in 1..walked}
DiscoveryInv ==
    /\ walked \in 0..Len(Walk(corpus))
    /\ {e \in NamedSoFar : NotThere \notin Held(e.path)} \subseteq Taken
    /\ Taken \subseteq {e \in NamedSoFar : Held(e.path) # {NotThere}}

\* The file at hand and how far its pages and chunks are recorded.
Page == [number: Nat \ {0}, lines: Seq(DocLine)]
CurrentInv ==
    /\ current = NoFile => pages = <<>> /\ page = 0 /\ part = FirstPart /\ stage = "done" /\ chunks = <<>>
    /\ current # NoFile => /\ current \in Entry /\ current \in ToSet(discovered)
                           /\ \A n \in DOMAIN discovered : discovered[n].path = current.path => discovered[n] = current
    /\ page \in Nat /\ pages \in Seq(Page)
    /\ \A n \in DOMAIN pages : pages[n].number > page
    /\ \A m, n \in DOMAIN pages : m < n => pages[m].number < pages[n].number
    /\ current.group = "pdf" => page # 0 \/ (chunks = <<>> /\ stage = "done")
    /\ current.group # "pdf" => page = 0 /\ pages = <<>>
    /\ DOMAIN part = DOMAIN FirstPart
    /\ part.number \in 1..(Len(chunks) + 1) /\ (stage # "done" => part.number = 1)
    /\ status \in {"scanning", "built", "raised"}
    /\ status = "built" => current = NoFile /\ listing = <<>> /\ walked = Len(Walk(corpus))

\* A PDF is parsed or has failed as soon as it is discovered.
PdfInv ==
    /\ parsed \subseteq Paths /\ IsFiniteSet(parsed) /\ failed \in Seq(Paths)
    /\ parsed \cap ToSet(failed) = {} /\ parsed \cup ToSet(failed) = seen
    /\ Cardinality({k \in DOMAIN discovered : discovered[k].group = "pdf"}) = Cardinality(parsed) + Len(failed)
    /\ current.group = "pdf" => current.path \in parsed
    /\ \A n \in DOMAIN index : index[n].group = "pdf" => index[n].path \in parsed

\* Where a chunk begins tells it from all others: those of the file at hand
\* are on earlier pages, or among the chunks of this page recorded before.
ChunkFields == {"id", "path", "group", "page", "first", "last", "text", "refs"}
Same(c, d) == c.path = d.path /\ c.page = d.page /\ c.first = d.first
Recorded(c) ==
    /\ DOMAIN c = ChunkFields /\ c.page \in Nat /\ c.last \in Nat /\ c.first \in 1..c.last
    /\ \E k \in DOMAIN discovered : discovered[k] = [path |-> c.path, group |-> c.group]
Before(c) ==
    current # NoFile /\ c.path = current.path =>
      /\ c.page <= page
      /\ c.page = page => \E m \in 1..(part.number - 1) : c.first = chunks[m][1]
IndexInv ==
    /\ index \in Seq(ToSet(index))
    /\ \A n \in DOMAIN index : Recorded(index[n]) /\ Before(index[n])
    /\ \A m, n \in DOMAIN index : Same(index[m], index[n]) => m = n
    /\ Built => \A n \in DOMAIN index : index[n].id = Identity(index[n])

\* The text of a file version, and what of it the chunks ix have.
BodyOf(n, ls) == [page |-> n, lines |-> ls]
Faithful(ix, p, f) == \A n \in DOMAIN ix : ix[n].path = p => \E b \in Bodies(f) : Repeats(ix[n], b)
Covered(ix, p, b) ==
    \A k \in DOMAIN b.lines : ~b.lines[k].blank =>
      \E n \in DOMAIN ix : ix[n].path = p /\ ix[n].page = b.page /\ ix[n].first <= k /\ k <= ix[n].last
Whole(ix, p, versions) ==
    \E f \in versions : Faithful(ix, p, f) /\ \A b \in Bodies(f) : Covered(ix, p, b)

\* Every body of the version that was read is covered, or is at hand, or is to come.
FromVersion(f) ==
    /\ Faithful(index, current.path, f)
    /\ page # 0 \/ current.group # "pdf" => BodyOf(page, lines) \in Bodies(f)
    /\ \A n \in DOMAIN pages : BodyOf(pages[n].number, pages[n].lines) \in Bodies(f)
    /\ \A b \in Bodies(f) :
         \/ b = BodyOf(page, lines) \/ Covered(index, current.path, b)
         \/ \E n \in DOMAIN pages : b = BodyOf(pages[n].number, pages[n].lines)

\* How much of the chunk at hand has been copied and expanded.
PartInv ==
    /\ stage # "done" \/ part.number > Len(chunks) => part.line = 0 /\ part.text = <<>>
    /\ part.line \in Nat /\ part.text \in Seq(ToSet(part.text)) /\ Len(part.text) = part.line
    /\ part.number <= Len(chunks) => part.line <= Cardinality(PartLines)
    /\ \A k \in 1..part.line : (current.group = "tutorial" /\ IsInclude(Line(k).text)) \/ part.text[k] = Said(k)

Recording(ix, p, n, span) ==
    \E m \in DOMAIN ix : /\ ix[m].path = p /\ ix[m].page = n
                         /\ ix[m].first = span[1] /\ ix[m].last = span[2]
SourceInv ==
    /\ \A n \in DOMAIN discovered : discovered[n] # current =>
         Whole(index, discovered[n].path, Versions(discovered[n].path))
    /\ current # NoFile => \E f \in Versions(current.path) : FromVersion(f)
    /\ current # NoFile => \A n \in 1..(part.number - 1) : Recording(index, current.path, page, chunks[n])
    /\ PartInv

\* The includes of the recorded chunks, and of the chunk at hand as far as it is expanded.
IncludesInv ==
    /\ references = AllReferences(index)
    /\ \A n \in DOMAIN index : index[n].group = "tutorial" => Cites(corpus, index[n])
    /\ current # NoFile => current \in Candidates(corpus)
    /\ part.refs \in Seq(ToSet(part.refs))
    /\ stage # "done" \/ part.number > Len(chunks) => part.refs = <<>>
    /\ current.group = "tutorial" /\ part.number <= Len(chunks) =>
         Noted(corpus, part.refs, part.text, lines, chunks[part.number][1], part.line)

ScanInv ==
    ChunkingInv /\ FilesInv /\ ListingInv /\ DiscoveryInv /\ CurrentInv /\ PdfInv /\ IndexInv
=============================================================================
