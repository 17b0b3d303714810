# Verification of VeRAG

TLA+ specifications of VeRAG, a retrieval library for Verus proof work: a Python
package (`src/rag/`) that indexes a corpus of Rust projects, tutorials and PDFs and
answers queries from that index. The corpus itself (`src/projects/`,
`src/tutorial/`) is third-party data and not part of the program.

* `PROJECT.json` lists the components, the runs, the mutants, the source lines of
  every definition, the hazards, the findings and the theorems.
* Every `*.cfg` is a TLC run: `tlc -config query.cfg MCQueryService`.
* Every `*Proofs.tla` is checked by `tlapm`.

## 1. Inventory

### Parts, their state and how they interact

| Part | Source | State | Operations |
|---|---|---|---|
| Index publication | `index_builder.py`, `storage.py` | root `meta.json`, `generations/<uuid>/{chunks.jsonl, lexical.json, vectors.npy, meta.json}`, `.meta-<uuid>.tmp` | `build_index`, `publish_manifest` |
| Corpus scan, includes | `index_builder.py`, `includes.py` | local chunk list, references, accounts of PDFs | `_iter_files`, `_walk_files`, `_read_pdf_pages`, `expand_includes` |
| Query service | `retriever.py`, `storage.py` | two `lru_cache` tables of the process | `resolve_snapshot`, `_load_cached_bm25`, `_load_vectors`, `_retrieve_index` |
| Scorer cache | `retriever.py`, `semantic.py` | `_scorer_cache`, `_scorer_lock` | `_get_semantic_scorer` |
| Fusion | `retriever.py` | none | `_bm25`, `_group_boost`, `_rrf_fuse` |
| Selection | `retriever.py` | locals of two loops | `_is_near_dup`, `_pick_diversified` |
| Context packing | `prompting.py` | locals of one loop | `render_prompt_context` |
| Chunking | `chunking.py` | none | `code_chunks`, `document_chunks` |
| Text analysis | `code_analyzer.py`, `error_cleaner.py`, `tokenize.py` | none | `_extract_spec_clauses`, `clean_error_text`, `token_counts` |
| Pipeline | `pipeline.py`, `cli.py` | the state of one request | `create_retrieval_chain`, `retrieve`, `cmd_query` |
| Evaluation | `evaluation.py`, `cli.py` | the reports so far, the output file | `evaluate`, `cmd_evaluate`, `main` |

Builders and readers are different processes that share only the index directory.
A builder communicates with readers by one atomic step, `os.replace` of the root
`meta.json`. A reader resolves the manifest once and then keeps to the directory
that it names, for chunks, term counts and vectors, while builds go on and an
operator may remove old generations. Inside a reader process the threads of a
LangChain `batch` call share the two LRU tables, whose loaders run outside any
lock, and the dictionary of scorers, which is guarded by a lock that is taken only
when the first look fails. What a query obtains is ranked, cut down by the
selection and packed into a context, sequentially.

### What is hard

* Builds run concurrently, raise at any file operation and die between any two.
  Their clean-up deletes a directory tree.
* A reader uses the result of `resolve_snapshot` long after it was current.
* `functools.lru_cache` lets two threads load one key together and lets a slow
  loader insert after `cache_clear`.
* The constructor of a model takes seconds, may raise or hang, and runs with a lock
  held.
* `auto` turns every failure of the semantic channel into a fallback that has to be
  visible.
* The selection runs four loops over one ranking with three limits that interfere
  (`top_k`, minima, repository limit); the displayed scores are rounded and sorted
  again.
* The packing counts separators at two places, and the command line packs the same
  results a second time with other limits.
* The chunkers move region boundaries while they read them, track fences and
  headings together, and number lines of a masked copy of the text.
* The scan is lazy: a directory is listed when the walk comes to it, and files come,
  change and go before that, between their listing and their reading, and before the
  expansion of the includes that name them. Some failures of a file are counted,
  others abort the build.
* The error text of a query is cleaned twice on the way to its terms and once on the
  way to the boosts.
* An evaluation resolves the index anew for each case while builds go on.

The properties that make each part correct are stated in its module; section 3
lists them, and `PROJECT.json` lists the hazards by source line.

## 2. Modules

| Module | Models |
|---|---|
| `IndexFormat` | the metadata that builder and readers share |
| `SnapshotStore` | abstract: what the index directory promises its readers |
| `IndexStore` | the directory and the processes that build into it; implements `SnapshotStore` |
| `IndexStoreProofs` | proofs about `IndexStore` |
| `QueryService`, `QueryServiceProofs` | query threads on a `SnapshotStore`, their caches, rebuilds, the operator |
| `AtomicScorers` | abstract: `_get_semantic_scorer` as an atomic call |
| `ScorerCache`, `ScorerCacheProofs` | the double-checked lock; implements `AtomicScorers` |
| `SumSort` | sums and sorted orders, written as recursive functions and choices so that proofs can use them |
| `DataLemmas` | lemmas about those, and about sequences |
| `Fusion` | `_rrf_fuse`, the weights and the ranking by fused score, as operators |
| `Selection` | from two rankings to the results: `Fusion`, `_pick_diversified`, the final sort |
| `ContextPacking` | `render_prompt_context` |
| `RetrievalChain`, `RetrievalChainProofs` | one request through the chain and `cmd_query`; composes `Selection` and `ContextPacking`; proofs about all three |
| `Chunking` | `document_chunks` and `code_chunks` |
| `CorpusScan`, `CorpusScanProofs` | the scan of `build_index` with `expand_includes`; composes `Chunking` with an editor; proofs about both |
| `QueryAnalysis`, `QueryAnalysisProofs` | `clean_error_text`, `detect_error_categories`, `_extract_spec_clauses` |
| `Evaluation`, `EvaluationProofs` | `evaluate` and `cmd_evaluate` on a `SnapshotStore` |
| `MC...` | TLC instances: small sets and symmetries |

`QueryService` extends `SnapshotStore`, not `IndexStore`: the refinement proved for
`IndexStore` is what justifies that a rebuild is one step there.
In the same way one step of `QueryService`, `GetScorer` or `ScorerRaises`, stands
for the whole call that `ScorerCache` refines, and `ScanCorpus` or `ScanRaises` of
`IndexStore` for a whole behaviour of `CorpusScan`. `Evaluation` extends
`SnapshotStore` too. Both have the withdrawal of a snapshot by the build that published
it: `Evaluation` as the one step `Withdraw`, `QueryService` file by file.

### IndexStore

`manifest` is the root `meta.json`, `snap[g][f]` a file of a generation, `temp[g]`
the temporary manifest. A file is absent, torn (created, not yet written) or holds
a value. `bpc[b]` is the place of builder `b` in `build_index`; the actions follow
the function from top to bottom: `BuildBegin` (arguments), `ScanCorpus` (the whole
scan, up to the `mkdir` of a fresh generation) or `ScanRaises`, then `OpenFile`
followed by `WriteChunks`, `WriteLexical`, `WriteVectors`, `WriteSnapshotMeta`,
with `SkipEmbedding` or `EmbedCorpus` between, then `OpenTemp`, `WriteTemp`,
`ReplaceManifest` and `ReturnMetadata` of `publish_manifest`. `BuildRaises` is an
exception at any point of the try block before the replacement, `UnlinkRaises` one
after it; both lead to `RemoveSnapshot`, the `rmtree`, which may itself stop half
way. `BuilderDies` is a kill or an exception that `except Exception` does not catch;
it may happen at any point and removes nothing. A temporary manifest is named after
its build, since its own uuid is as fresh as the generation's. `published` is a
history variable.

`temp.unlink(missing_ok=True)` may raise after the file has been renamed away:
nothing in the code excludes it (a read-only remount, a lost network file system).
The generation then leaves `published`, as `RemoveSnapshot` is going to delete it;
in `SnapshotStore` this is the step `Withdraw`, which leaves the manifest naming a
snapshot that is no longer there (finding 1).

### QueryService

Each thread runs one call at a time: `Submit` (validated arguments), `ReadManifest`
and `CheckSnapshot` (`resolve_snapshot`), `ClearCache` for a legacy index,
`LookupBm25` and on a miss `LoadChunks`, `LoadLexical`, `ReadLexical`,
`InsertBm25`, then `DecideSemantic`, `GetScorer`, `LookupVectors`, on a miss
`LoadVectors` and `InsertVectors`, and `Rank`. A call ends with an answer or an
error in `ans[t]` and `Return`. The request is reduced to its backend, whether any
text is left to embed and whether the optional model and dimension arguments agree
with the index. A manifest of an unknown schema and one with an invalid generation
name are both `Unsupported`. The LRU tables are sequences, most recent first, with
the behaviour of CPython's `lru_cache` (external): a hit moves to the front, a
computed value is dropped if the key has been inserted meanwhile, and the last
entry is evicted when the table is full.

The environment: `Rebuild` publishes a snapshot; `RebuildFails` is the clean-up of
finding 1, which deletes the active snapshot file by file while the manifest goes on to
name it; `RemoveFile` removes superseded generations file by file, whether an operator
does it or a build that failed after its switch and has been superseded since;
`LegacyRewrite` changes an index of the old layout in place. The model does not remember
which build has returned, so `RebuildFails` may happen to any active snapshot at any
time: more than the code can do.
Three history variables serve the properties: `window[t]` is what the directory
was at each instant of the call; `robbed` are the threads whose generation lost a
file under them, against the advice of the program's `README.md` or through finding 1;
`withdrawn` are the snapshots that lost a file while they were active. What
`SnapshotStore` calls `snapshots` is here `snapshots \ withdrawn`: the withdrawn ones
are kept because caches and readers may still hold their rows.

`NoSpuriousFailure` says when a call may fail. A thread that was not robbed gets
"missing" only if, at some instant of its call, there was nothing to read: no index at
all, or a manifest whose snapshot had been withdrawn and has lost its chunks.

### ScorerCache

One dictionary operation is one step, as it is in the interpreter. A scorer is the
serial number of its construction, so that two objects for one key are told apart.
`failures` counts the constructor calls that raised, up to `MaxFailures`, which
bounds the model and is a hypothesis of the liveness property.

### Selection and ContextPacking

One action per loop iteration. `Selection` works on positions in the ranking;
similarity of texts (`jaccard > 0.95`) is a symmetric relation given as a constant,
and `overlap / shorter > 0.8` is computed in integers. `minimum` is the dictionary
that `_retrieve_index` passes, in which the PDF minimum is already zero if there are
no PDFs. In `ContextPacking` a block is its length. `RetrievalChain` runs one after
the other: `Retrieve` (the steps of `Selection`), `FormatEvidence` (the results as
blocks, `top_k` of them), `PackEvidence` (the steps of `ContextPacking`),
`ReturnPack`, and then on the command line `WritePrompt`, which packs the same results
again with `--prompt-items`, or `PromptRefused`.

`Fusion` starts from the rankings of the two channels. BM25, the boosts and the
similarities are represented by the order they produce and by `positive`, the number
of chunks whose lexical score is above zero (a boost may be negative), since a chunk
that BM25 did not find counts as zero when fused scores tie. Fused scores are exact
fractions, weights are in twentieths (0.25, 0.9 and 1.0 are 5, 18 and 20), and the
dictionary of `_rrf_fuse` is the sequence of its keys in insertion order, which the
stable sort of `FusedRanking` keeps for ties.

### Chunking

A line of a document is blank or not, a heading or not, may carry a fence marker
(its character, its width and whether anything follows it) and has a length; a line
of Rust declares a function or not and begins with a doc comment or attribute or
not. `mask_non_code` is represented by what it does to lines: declarations in comments
and strings are none, and a separator other than newline inside one (`joined`) is
blanked, so that `MaskedLine` numbers fall behind the line numbers for which
`code_chunks` takes them. `ReadLine` and `LastBlock` are the loop of
`document_chunks` and what follows it; `FindDeclarations`, `FallbackRegion`,
`IncludePrefixes` and `EmitRegion` are `code_chunks`.

### CorpusScan

`Walk` is the order in which `_iter_files` and `_walk_files` come to the directories:
those below `projects/`, below `tutorial/` and below one PDF root after the other, each
with the sorted names it may hold. The generators are lazy: `ListDirectory` lists the
next directory only when everything listed before has been dealt with, and names the
files that are there at that moment; `listing` is what is still to be yielded of them.
A file that vanishes earlier is not found, one that vanishes later is listed and cannot
be read, and a new one is found if its directory has not been listed yet. The
directories themselves are fixed, only files come and go. A path is a resolved file
name. Only PDF roots can list a file twice (`Twice`): `os.walk` names a file once. `disk`
holds the files as they are now, `Edit` creates, changes or deletes one at any moment. `OpenText`
reads a file whole and starts `Chunking` on it; `ReadPdf` does what one iteration
does with a PDF up to its pages, `BeginPage` starts `Chunking` on a page under the
number it has in the file, `RecordChunk` appends a chunk with its provisional name.
In between, `ExpandInclude` is one call of `replace`, which reads the named file as
it is then. `FileRaises` and `IncludeRaises` are the exceptions that nobody catches.
`Identify` gives every chunk the name made of its path, page, lines and text: the
model uses that tuple where the code uses its SHA-256. `Rescan` is another build of
the same tree, which walks it anew; `previous` and `touched` remember what the first one yielded and
which files have been edited. `Held(p)` is all that a file may have been so far, as these
tell; `PdfAccounted` uses it to say which PDFs must be discovered (those that were there
all along) and which cannot be (those that never were).

A line says a sequence of words, as far as includes and marks go; everything else
about it is what `Chunking` looks at.

### QueryAnalysis

A line of error output has a form (blank, location, other noise, headline, plain), an
indentation and the phrases of the program's tables that occur in it. The third
component of a table row says whether the phrase contains one of the words for which
`clean_error_text` keeps a line. Code is a sequence of tokens; `masked` tells those
that `mask_non_code` blanks, and `of` tells, for the properties only, to which
clause a token really belongs. `Grammatical` says how Verus code is put together from
clauses, signatures and bodies; what `SpecExtracted` says of bodies and lost tokens is
about such code, and TLC evaluates that all code of the instance is of that kind
(`CodesGrammatical`), cut off anywhere. It is narrower than Verus: code with a clause
that `_extract_spec_clauses` does not know (`recommends`, `opens_invariants`) after one
that it does is not `Grammatical`, and only the brackets of its clauses are covered.
`CleanError` and `BuildTerms` are the two cleanings;
`SearchKeyword`, `WalkToken` and `EndClause` are the two loops of
`_extract_spec_clauses`.

### Evaluation

`LoadCases`, then for each case `BeginCase`, `ResolveSnapshot` and `QueryAnswers` or
`QueryRaises`, then `ReturnReport`, `OpenOutput`, `WriteOutput` and `Exit`. A query
resolves its snapshot and reads it in two steps, because a build may withdraw it in
between; a case that was answered from it before has left its chunks in the cache. The
rank of a case is any, or none. `mrr` is kept in parts of `Whole`, a number that every
possible rank divides, so that reciprocal ranks and their sums are exact.

The exit codes are those of `main`: 2 for `ValueError` and `FileNotFoundError`, 1 for
any other exception, which is also the code of a report with failed cases. Where both
kinds of exception can occur, `Raises` chooses: a case file that is missing, not JSON or
of another shape (`LoadCases`), a case without an id (`BeginCase`), a query with a backend
that does not match or a model that fails (`QueryRaises`), a parent directory that is
gone, a full disk or a character without an encoding in `write_text` (`OutputRaises`), and
`print` after the file has been written (`PrintRaises`). In the last case the interpreter may
also end with 120 (`Unflushed`), when only the final flush fails. So 1 and 2 may come
with a finished report, even a written one; what a caller may conclude from the code is
`ExitCodeAgrees`. `roots` records the manifests, `found` and `began`
what there was when the evaluation began.

## 3. Runs

| Run | Instance | Shows |
|---|---|---|
| `store` | 2 builders, 2 generations, an empty and a non-empty corpus | `SwitchesToComplete`: the manifest only switches to complete snapshots, and is never removed or torn; `PublishedComplete`: what was published stays complete, whatever other builds do, unless its own build fails after the switch; `ImplementsSnapshotStore` |
| `store_unlink_active` | the same | finding 1 |
| `query` | 2 threads, 2 generations that may be removed or withdrawn, each with its own chunk list, caches of size 1 | `AnswersActiveIndex`: an answer comes from one index that was active during the call; `CachesCoherent`; `NoSpuriousFailure`: a build that succeeds makes no query fail, one that fails does only after publishing and deleting its snapshot, and the removal of another generation never does |
| `query_backends` | 1 thread, every backend asked for, disagreeing arguments, nothing to embed, builds of every backend and of an empty corpus, a legacy index that is rewritten | `BackendHonest`: every fallback of `auto` is reported (`FallbackReported`) and an explicit backend is never replaced (`ExplicitNeverSubstituted`); `LegacyBypassesCache` |
| `query_legacy_threads` | 2 threads | finding 2 |
| `scorer` | 3 threads, 2 models, 1 of them unreliable, constructors may hang | `LoadedOnce`, `SharesCached`, `ImplementsAtomicScorers`; `CallsReturn`: if constructors end, every call returns or raises; `InitializedNeverBlocks`: calls for loaded models return even if a constructor hangs |
| `retrieval` | rankings of up to 4 of 7 chunks, and two rankings of up to 2 of 3 chunks under several weightings; minima up to 2, `top_k` up to 3; block lengths and budgets around their sums | `FusionSound`: no candidate of an active channel is lost, and none is ranked below one that no channel prefers (`FusionFair`), and a channel of weight zero has no influence (`SilentChannel`); `SelectionSound`: within the limits (`Diversified`), and no candidate could be added (`Maximal`); `MinimaFirst`, `ResultsInOrder`; `WithinBudget`, `NothingFits`; `ContextOfAllResults`: the context draws on all results; `PromptFileAgrees`: the prompt file is the returned context cut off at its number of items |
| `selection_minimum` | minima of projects up to 3 | finding 3 |
| `text` | as corpora of one file: all documents of up to 5 lines of 7 kinds, all Rust sources of up to 5 lines of 6 kinds; 30 trees with a source, two tutorials with includes and overlapping PDF roots, one file created, edited or deleted, two scans; all error outputs of up to 3 lines of 8 kinds; 64 functions cut off anywhere, 24 declarations | `FencesWhole`; `SectionsPacked`: sections begin chunks and the target size is respected; `RegionsBeginAtFunctions`; `SourcePreserving`: chunks are in order, disjoint and leave out only blank lines (`NothingLost`), and those of a file are of one version of it, under its own lines and pages; `IdsIdentify`: names are unique (`UniqueIds`), and those of untouched files survive a rebuild (`StableIds`); `PdfAccounted`: a PDF that was there all along is discovered, one that never was is not, and what is discovered is either parsed or failed; `IncludesExact`: every include has one reference, in order, and shows the lines which that cites, or a marker; the manifest has all references; `CategoriesSettled`: cleaning twice loses no line but a location that came first, and no category but what that suggests; `SpecExtracted`: clauses are balanced, and those of code that parses are without bodies and whole up to a bare block |
| `chunking_prefixes` | all Rust sources of up to 4 lines | finding 4 |
| `analysis_categories` | the error outputs of `text` | finding 5 |
| `evaluation` | 2 evaluations of up to 2 cases, 2 generations that may be withdrawn, ranks up to 2 | `CasesFollowIndex`: every case is answered from an index that was active during the evaluation, in the order of publication; `ReportAgrees`: the report names the index of its last case (`ReportNamesIndex`), and its rates agree (`RatesAgree`); `ExitCodeAgrees`: code 0 exactly if the report was printed and every case passed; `OutputIsWhole`: an evaluation that stops early leaves the report of an earlier one alone; `EvaluationEnds` |

### Bounds

Two builders and two generations suffice for one build to interfere with another
and for a published generation to be superseded; the proofs cover the rest. A build
that fails uses up a name, so a behaviour has at most two scans. Two query threads
cover every race on a table. Caches have size 1, so that two generations already evict
each other, also between the miss and the insertion of a slow loader; that no key is
entered twice can only fail in a larger table, and is left to the theorem
`CachesStayCoherent` (and was checked with size 2, in which nothing is evicted). Threads
that share a legacy index are in `query_legacy_threads` and in the theorems. In
`query_backends` an argument that disagrees with the index comes with one backend and an
empty text with another, and a projection is always degraded, the model never: these do not
depend on each other. All non-empty chunk
lists have the same number of chunks, so that the shape comparison in `Rank` cannot
tell them apart and nothing hides behind it. Three threads at the scorer lock leave
one waiting, one inside and one on the fast path. The seven chunks of the selection
contain three of one repository, an overlapping pair, and a pair of equal texts
across groups. Scores are rounded to thousandths instead of millionths: neighbours
of a short ranking then tie after rounding, as they do in the code far down a long
one. Five lines hold a fence with its two markers, a marker that does not close it and
a heading in or after it, and on the Rust side two functions with their attributes;
the target of two characters is reached by two lines. In the trees of `text` the
source has an example between two marks, can grow above it, have its marks swapped
or stop being UTF-8; a tutorial includes it whole, by a mark that exists or not, or
a file that is outside or a PDF, or another tutorial that may have been deleted: if it
went before the directory was listed, an index is built in which that include is
"missing", if it went after that, the build raises. A PDF has an empty page between two
others, can be replaced or become unreadable; one may come, another go, before or after
its root is listed. One edit falls into the first scan, between
the scans or into the second. `MaxLines` is 2, so that three lines exceed it. Two
cases and two generations let a rebuild fall before, between and after the cases;
two evaluations let the second find the output of the first. `Whole` is 2 for ranks up
to 2. Symmetry is used on
builders, generations and threads, only in runs without liveness properties; the
modules treat all of them alike.

The runs `retrieval`, `text`, `evaluation` and those of the findings on the same modules
end when the functions return, so they do not check for deadlock; all others do. Stopping for want of generation
names cannot be a deadlock, because a builder may always raise or die.

### Fairness

`ScorerFairSpec` assumes that a thread that can take a step is eventually scheduled,
except in a constructor, which loads a model and may hang: weak fairness of each
thread's other steps. That constructors end is the hypothesis `LoadsEnd` of
`CallsReturn` alone. `threading.Lock` does not queue its waiters, so `Acquire` is only weakly
fair: `CallsReturn` holds because a lock is only contended while a model is missing,
which is the case finitely often (`MaxFailures`). Making a call is never fair.

`EvaluationSpec` assumes weak fairness of the evaluating process alone: it is
sequential, waits for no lock and is scheduled by the operating system whatever
builders do. Rebuilds, interruptions and another evaluation are never fair. A query
that does not return would be a defect of the libraries below it.

## 4. Findings

1. `store_unlink_active`. `publish_manifest` unlinks its temporary file in a
   `finally` clause. If that raises after `os.replace`, the `except` clause of
   `build_index` removes the generation that the manifest now names, and queries fail
   until the next build. `README.md:211`: "Failed builds leave the active generation
   usable."
2. `query_legacy_threads`. `cache_clear()` and the cached call that follows are two
   steps. A thread that read `chunks.jsonl` before it was rewritten can insert its
   rows in between, and the other thread answers from them although the file changed
   before its call began. `retriever.py:446`: "Legacy indexes bypass the cache".
3. `selection_minimum`. The repository limit of two also holds in the loop that
   meets the minima, so `--min-project 3` yields two results when all project
   candidates are of one repository. The help text (`cli.py:119`) calls the option
   the least number of project results.
4. `chunking_prefixes`. The upward search for doc comments and attributes stops below
   the start of the previous region, but the loop has already moved that start up. A
   line such as `#[inline] fn f() {}` is then taken for an attribute of the function
   on the next line: the region of the second function starts at `f`, and `f`'s doc
   comment is left as a chunk of its own. `chunking.py:75`: "Include adjacent doc
   comments and attributes with the declaration."
5. `analysis_categories`. `clean_error_text` keeps lines with certain prefixes and
   words. Fourteen of the program's own Verus phrases have none of them ("trigger may be
   insufficient", "recommendation not met", "could not prove", "mode error", ...), so
   their lines are dropped as soon as another line is kept, and
   `detect_error_categories`, which sees the cleaned text only, misses the category.
   `error_cleaner.py:137`: "Keep error headlines, Verus-specific phrases, failed
   messages".

## 5. Proofs

All theorems hold for every value of the constants that satisfies the named
assumptions (`FormatAssumption`, `StoreAssumption`, `CacheAssumption`,
`QueryAssumption`, `SelectionAssumption`, `PackingAssumption`, `ChainAssumption`,
`EvaluationAssumption`, `ChunkingAssumption`, `ScanAssumption`, `AnalysisAssumption`): the special values
differ from the data, the lists have the types the code gives them, a ranking lists a
chunk once, similarity is symmetric, limits such as `top_k` are as the argument checks
leave them, a walk names no file twice except PDFs, a listed file is read as its
suffix says, and an include of a tutorial names a path and an anchor (which may be
empty). TLC evaluates each assumption in the runs. Two theorems have a hypothesis of
their own, `LegacyUndisturbed`, see `QueryService`.

**IndexStore.** `PublishedComplete` is not inductive: the step that publishes needs
the snapshot to be complete already, and a step of another builder must not touch it.
`StoreInv` therefore adds

* `Ownership`: a builder past its scan owns a generation name that nobody else has,
  and names not yet drawn have no files;
* `Progress`: a file the build has moved past is the one its metadata describes, and
  before `os.replace` the temporary manifest is that metadata;
* `Settled`: a published generation belongs to no build that could still touch it.

`Locality` says that a step of a builder changes only the directory it owns; from it
follow `ProgressOfOthers` and `PublishedUntouched`, and each action is left to show
its own progress. All theorems hold whatever fails: `BuildInvariant` (`Ownership` and
`Progress`), `StoreTypeCorrect`, `SwitchesAreSafe`, `StoreInvariant`,
`PublishedStaysComplete` and `StoreImplementsSnapshots`. A build that fails after its
own switch withdraws its generation from `published` in the same step, and the
refinement maps that step to `Withdraw`.

**ScorerCache.** `ScorerInv` consists of `LockDiscipline` (the lock is held exactly
inside the `with` block), `Constructing` (a key is cached or being stored exactly if
one scorer was made for it) and `SharesCached`. `ScorerRefinement` maps a call to the
instant at which the scorer is found, stored or fails to load.

**QueryService.** Each property speaks of calls that are done or of the tables; what
makes them true is what a call holds while it is under way. `QueryInv` says so for any
number of threads, generations and any table size:

* `DirectoryInv`: a generation name stands for one snapshot, and the active one has
  its chunks unless it was withdrawn;
* `CacheInv`: an entry is what the build of its key wrote, and keys are distinct;
* `PinInv`: a call has seen the directory as it was when it resolved its snapshot, and
  until that snapshot is withdrawn or loses a file it finds what it looks for;
* `LoadInv`: the rows and vectors a call holds are those of its snapshot, even if it
  is going to insert them after a `cache_clear`;
* `AnswerInv`: what a finished call has returned.

Since generations are immutable, an entry inserted late is still right, which is why
no lock around the loaders is needed. `CachesStayCoherent`, `FailuresAreReal`,
`BackendsAreHonest` and `AnswersFromOneBuild` follow: all calls answered from a
generation are covered without any hypothesis. An index of the old layout is not
immutable, and there finding 2 refutes `AnswersActiveIndex` for overlapping calls
and a rewritten file. `AnswersFromActiveIndex` and `LegacyAnswersAreFresh` hold under
`LegacyUndisturbed`, one of the two is absent, and rest on `LegacyInv`, which adds that
the table has no entry for the old layout when a single thread looks it up.

**Data.** Sums, sorted orders and the dictionary of `_rrf_fuse` are recursive functions
or choices, and the induction rules of the library cannot be applied. `DataLemmas`
derives instead from well-foundedness that a set of numbers has a least element
(`LeastNumber`) and argues with a least counterexample: `TotalAppend` (a sum grows by
the last summand), `SortedFacts` (the k-th element of a sorted order exists and is
unique, and the order is a permutation that respects the relation) and
`AscendingFacts` (a set of line or page numbers can be listed from top to bottom, in
one way only: `AscendingUnique`), and with it the elements of a list at such numbers
(`PickedFacts`, `PickedRest`, `AscendingOnto`). `OpenFencesStep` and `FlattenNext` of
`CorpusScanProofs` do the same for the fences of a document and for joined lists.

**Selection.** `FusionIsSound` is about `FusedRanking` alone: `Candidates` lists
every chunk of an active channel once, exact fractions are totally ordered, and so
`Ahead` is a strict total order that `Sorted` turns into a permutation. For the loops,
`SelectionInv` relates the counters of `_pick_diversified` to what has been chosen
(`CountsInv`: each is a cardinality) and says which candidates need not be looked at
again (`Settled`, which no later choice undoes) and why the loop of each group ended
(`MinimumSettled`: minimum reached, candidates exhausted, or no slot left while every
group was within its minimum). `SelectionIsSound` and `MinimaComeFirst` read off the
last state. `ResultsComeInOrder` needs that rounding is monotone on fractions, so that
the final stable sort by rounded score keeps the order of the ranking (`OrderInv`).

**ContextPacking.** `PackingStaysWithinBudget`: `used` is the length of the joined
text, by `TotalAppend`. `PackingLeavesOutOnlyMisfits`: the space left never grows, so
a block that did not fit when it was looked at does not fit at the end.

**RetrievalChain.** `ChainIsSelection` shows that the chain implements `Selection`, so
its theorems carry over (`ChainResultsAreSound`); `ChainContextsFit` does the same for
the packing. `PromptFileRetraces` compares two packings: `Greedy` says that a pack
contains a block exactly when it fits behind those before it, which determines the
pack, and `RenderingInv` that the second rendering, at block `next`, has taken exactly
the blocks of the first that are below `next`. `ContextHoldsAllResults` uses `Greedy`
for the whole evidence.

**Evaluation.** `CasesFollowIndex` relates positions in the history of manifests, so
`EvaluationInv` records that no generation is published twice (`RootsInv`), that every
case and the query at hand have a position there, in order (`CasesInv`), the bounds of
the partial sums (`RatesInv`), which step has a report and a code (`ProgressInv`; no code
but 0 tells whether there is a report), and what the output file holds at each step (`OutputInv`).

**Chunking.** The properties compare the finished chunks with the whole source, the
loops see one line at a time. `ChunkingInv` states them for the part of the source
that has been dealt with:

* `CoverInv`: the chunks are in order below the block being collected, and no text
  above that block is missing;
* `FenceInv`: `fence` is the fence open before line `i`, and every chunk and the block
  begin outside fences, as a cut needs `fence` to be empty;
* `SectionInv`: `size` is the length of the block, no blank line in it outside fences
  was reached with the target exceeded, and every heading so far begins a chunk or the
  block;
* `RegionInv`: the declarations found are in ascending order and stay so while each is
  moved up to its prefixes, which is what the lower bound of that search is for, and
  regions begin at boundaries. That they begin at functions holds if no lines were
  joined (`Aligned`), the condition of `RegionsBeginAtFunctions`.

**CorpusScan.** `ScanInv` adds to it what the scan of a whole tree needs, for any tree,
any edits at any moment and any number of scans:

* `FilesInv`: what is read is a version of the file, so that `Chunking` gets lines of
  the kind it expects whatever an editor does;
* `ListingInv`: the PDFs seen are those discovered, and no text file is both discovered
  and still listed;
* `DiscoveryInv`: what has been discovered and what is still listed (`Taken`) contains, of
  the directories listed so far, every file that was there all along and none that never
  was. Held to the end of the walk this is the first half of `PdfAccounted`;
* `CurrentInv`: page numbers to come are greater than the page at hand, and parts are
  numbered within the chunks;
* `PdfInv`: the accounts agree after every file, not only at the end;
* `IndexInv`: path, page and first line tell recorded chunks apart. This is not
  inductive alone: the next chunk must differ from those recorded, so `Before` says
  that those of the file at hand are on earlier pages or among the parts before.

`ScanTypes`, `FencesStayWhole`, `SectionsStayPacked`, `RegionsAtFunctions`,
`ScanLosesNothing` (`NothingLost`), `PdfsAccounted` and `IdsAreUnique` follow.

`SourcesPreserved` is about an index that is complete; while it grows, a file may be
edited between two of its own chunks. `SourceInv` says how far the scan has come:

* a file that is not at hand is `Whole`: one version of it has all the texts that its
  chunks repeat, and its chunks cover them;
* of the file at hand, `FromVersion` fixes the version when it is read: each of its
  texts is covered, or is the one being cut, or is among the pages to come (that no
  page with text is missing there is `EnumeratesAll`);
* the parts before the one at hand are recorded under their own lines (`Recording`), so
  that `NothingLost` makes the text covered when the last one is (`AllCovered`);
* of that part, what is copied so far is the text of its lines, except for includes
  (`PartInv`).

`IncludesAreExact` compares a finished chunk with its document and with the files it
includes; the scan expands one include per step, with edits in between. `IncludesInv`
states it for what is done so far:

* the entries of the manifest are the references of the recorded chunks, flattened
  (`FlattenNext`: one chunk more adds its own references at the end);
* a recorded chunk of a tutorial `Cites` one version of its document: reference `n` is
  of include `n` and describes what stands in its place;
* of the part at hand this holds up to `part.line` (`Noted`). The includes are counted
  through `Ascending`, and one line more adds its include at the end because an
  ascending enumeration is unique (`AscendingUnique`, `AscendingNext`);
* the file at hand is listed, so that each version of it has includes of the form that
  `ScanAssumption` states, and what `Resolve` inserted is of the version on disk at that
  moment (`ReplacementFacts`).

`IdsDoIdentify` adds to `IdsAreUnique` that names are `StableIds`, which compares two scans with
arbitrary edits and other files in between. The proof describes the scan of one file as a
function. `FileState` is what the scan has come to with the file at hand: the call of the
chunker, the pages to come, the part and the names recorded. `FileStep` gives the state after the
next step (`ChunkingStep`, `ExpandIncludeSteps`, `RecordChunkSteps`, `BeginPageSteps`), from the
files of the unedited tree, because the includes of a `Stable` file only name files that
no edit has reached (`IncludedFiles`). `NamesInv` says:

* the state of a stable file at hand is reached from `FileStart` by such steps (`Reaches`);
* the names of a stable file that was scanned are those of a state that is reached and that
  `FileStep` leaves alone (`NamedBy`), in this index and, once there is one, in the one before;
* the index before has such names for every file of the tree that was there and that no
  edit has reached, because by `DiscoveryInv` the walk has found it.

Of one file there is only one such state (`OneEnd`, by a least position at which two sequences of
steps differ), so both indexes have the same names.

**QueryAnalysis.** `CategoriesAreSettled` is about two applications of
`clean_error_text`, and `CleaningInv` only says that the results are those. The rest is
a fact about the operator, `CleanTwice`: a cleaned text has no noise but perhaps an
indented location whose indentation `strip` took because it came first, its lines are
either all focused or none of them (`CleanUniform`), and it is within the limit, so a
second cleaning keeps all else (`PickedAll`, `PickedRest`).

`SpecIsExtracted` compares clauses with the parts of the code, of which the walk sees one
token at a time:

* `WalkInv`: `depth` is the number of brackets open since the keyword, none was closed
  that was not opened since (`BracketStep`), and the walk has only passed the clause of
  its keyword and, after a declaration without a body, the signature behind it
  (`Walked`). The last is the heart of it: where a part of grammatical code ends, its
  brackets match, so `depth` is zero and the walk stops (`WalkOn`);
* `ClausesInv`: each clause is such a walk, ended for a reason (`Ended`), clauses are
  apart from each other, and every keyword before the cursor began one.

Then a token of a clause that no clause holds comes after the end of the walk that began at the
keyword of its part. That walk did not end at a keyword or at an unmatched bracket, since the
part has none, so it ended at a brace that no bar precedes (`LeftAtBrace`).

TLC has checked every inductive invariant on the instances of section 3 as well (of
`FilesInv` only that `corpus` is a `Corpus` and of `CleaningInv` all but that `query` is
one of `Queries`: these never change), with one exception: `RankingInv` of `SelectionInv`, that `ranked` is `FusedRanking(query)`,
which would compute the ranking anew in each of two million states. For `NamesInv` TLC
iterated `FileStep` instead of looking for the sequence of states in `Reaches`.

Only model-checked: the liveness properties `CallsReturn`, `InitializedNeverBlocks` and
`EvaluationEnds`, which need fairness and are out of the prover's reach. A theorem states
every other property of the passing runs.

## 6. Not modelled

* BM25 and the hashed projection: floating-point formulas. The model keeps what
  decides control, the backend chosen and the order of a ranking.
* Durability across a power failure: `publish_manifest` does not flush, and what a
  file system then keeps is not a property of this code.
* That the newest scan stays active: the last publisher wins, and nothing promises
  otherwise.
* The tokenizer, proof patterns, identifiers and types of `code_analyzer.py`, titles
  and tags: regular expressions over text whose matches are counted. A model would
  restate the expressions.
* Argument parsing, what is printed, and `create_answer_chain`, which hands the context to a
  language model of the caller.
* Which names `_walk_files` ignores (it also looks for them above the root), and
  directories that come or go during a walk: the directories, with the names they may
  hold, are the input of `CorpusScan`.
* An index of the old layout in `Evaluation`; `QueryService` has it.
* The corpus: `src/projects/` and `src/tutorial/` hold third-party Rust projects and
  books that are indexed as text. They are by far the largest part of the repository
  (hundreds of Rust files) but are neither built nor run by this program, so
  modelling them would say nothing about it. Of the program itself, `src/rag/`,
  the definitions stand for about half of the lines.

## 7. Plan

The order followed the weight of the behaviour: publication, queries, scorers, then
fusion, selection and packing as one chain, the texts (scan, chunking, includes,
query analysis) and the evaluation, and the proofs in the same order. All of it is done;
what is not modelled is in section 6, what is not proved at the end of section 5.
