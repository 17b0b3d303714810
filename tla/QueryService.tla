---------------------------- MODULE QueryService ----------------------------
(***************************************************************************)
(* The threads of one process that answer queries (rag/retriever.py        *)
(* _retrieve_index, rag/storage.py resolve_snapshot) while other processes *)
(* rebuild the index.  A LangChain batch call runs such threads.           *)
(*                                                                         *)
(* The directory they read is a SnapshotStore, which IndexStore implements:*)
(* what it calls snapshots is here snapshots \ withdrawn, since caches and *)
(* readers may still hold rows of a snapshot that was withdrawn.           *)
(* The threads share two lru_cache tables; between the lookup and the      *)
(* insertion of a missing entry the interpreter may run any other thread.  *)
(* The semantic model comes from the cache that ScorerCache models; here   *)
(* one step obtains it or fails.                                           *)
(***************************************************************************)
EXTENDS SnapshotStore, Sequences, SequencesExt

CONSTANTS
    Threads,
    Requests,       \* the calls that may be made, a subset of Request
    Builds,         \* the metadata that rebuilds may publish
    CacheSize,      \* maxsize of both lru_cache tables
    ChunkCount,     \* the number of chunks in each chunk list
    LegacyContents  \* chunk lists an old root-level index may hold or be
                    \* rewritten to; empty when there is none

\* A call: the backend argument, whether anything is left to embed once the
\* query, the specification summary and the error are joined, and whether the
\* optional model and dimension arguments agree with the index.
Request == [backend: Requested, text: BOOLEAN, agrees: BOOLEAN]
SnapshotFiles == {"chunks", "lexical", "vectors"}
Rows == Contents \cup {Absent}
Vectors == [content: Contents, backend: Stored]
Views == [active: Manifests, legacy: Rows]

\* What a call ends with: an error, or the index it read, the vectors it
\* ranked by, and the semantic_backend and degraded_reason it reports.
Answer == [error: {"", "schema", "missing", "mismatch", "semantic"},
           generation: Generations \cup {Absent}, rows: Rows,
           vectors: Vectors \cup {Absent},
           backend: Stored \cup {"disabled", "failed"},
           reason: {"", "no vectors", "build", "exception"}]

ASSUME QueryAssumption ==
    /\ Requests \subseteq Request
    /\ Builds \subseteq Metadata
    /\ CacheSize \in Nat \ {0}
    /\ ChunkCount \in [Contents -> Nat]
    /\ ChunkCount[Empty] = 0
    /\ LegacyContents \subseteq Contents
    /\ Absent \notin Contents \cup Generations \cup Vectors

VARIABLES
    withdrawn,  \* history: snapshots that lost a file while they were active
    files,      \* files[g]: what is left of the snapshot directory of g
    legacy,     \* root-level chunks.jsonl
    bm25,       \* lru_cache of _load_cached_bm25, most recent first
    vectors,    \* lru_cache of _load_vectors, most recent first
    rpc, req,   \* each thread's place in _retrieve_index and its arguments
    man,        \* the metadata it resolved, Absent for a legacy index
    rows, vecs, \* the chunks and the vectors it obtained
    ans,        \* what it returned last
    window,     \* history: what the index directory was during the call
    robbed      \* history: threads whose generation lost a file during the call

threadVars == <<rpc, req, man, rows, vecs, ans, window, robbed>>
disk == <<active, snapshots, withdrawn, files, legacy>>
caches == <<bm25, vectors>>
history == <<window, robbed>>
queryVars == <<disk, caches, threadVars>>

NoAnswer == [error |-> "", generation |-> Absent, rows |-> Absent, vectors |-> Absent,
             backend |-> "disabled", reason |-> ""]
NoRequest == [backend |-> "none", text |-> FALSE, agrees |-> TRUE]
View == [active |-> active, legacy |-> legacy]
Path(t) == IF man[t] = Absent THEN Absent ELSE man[t].generation
StoredBackend(t) == IF man[t] = Absent THEN "none" ELSE man[t].backend

-----------------------------------------------------------------------------
(* functools.lru_cache: the table is shared, the loader runs outside its    *)
(* lock.                                                                    *)

Keys(cache) == {cache[i].key : i \in DOMAIN cache}
Lookup(cache, k) == (CHOOSE i \in DOMAIN cache : cache[i].key = k)
Touch(cache, k) == <<cache[Lookup(cache, k)]>> \o RemoveAt(cache, Lookup(cache, k))
\* A key that another thread has inserted meanwhile is left as it is.
Insert(cache, k, v) ==
    IF k \in Keys(cache) THEN cache
    ELSE SubSeq(<<[key |-> k, value |-> v]>> \o cache, 1,
                IF Len(cache) < CacheSize THEN Len(cache) + 1 ELSE CacheSize)

-----------------------------------------------------------------------------
Goto(t, phase) == rpc' = [rpc EXCEPT ![t] = phase]
Raise(t, kind) ==
    /\ ans' = [ans EXCEPT ![t] = [NoAnswer EXCEPT !.error = kind]]
    /\ Goto(t, "done")
Respond(t, used, v, why) ==
    /\ ans' = [ans EXCEPT ![t] =
                 [error |-> "", generation |-> Path(t), rows |-> rows[t],
                  vectors |-> v, backend |-> used, reason |-> why]]
    /\ Goto(t, "done")
\* Every call under way sees what the directory has become.
Witness(v) == window' = [t \in Threads |->
                IF rpc[t] \in {"idle", "done"} THEN window[t] ELSE window[t] \cup {v}]

QueryInit ==
    /\ SnapshotInit /\ withdrawn = {}
    /\ files = [g \in Generations |-> {}]
    /\ legacy \in LegacyContents \cup {Absent}
    /\ bm25 = <<>> /\ vectors = <<>>
    /\ rpc = [t \in Threads |-> "idle"]
    /\ req = [t \in Threads |-> NoRequest]
    /\ man = [t \in Threads |-> Absent]
    /\ rows = [t \in Threads |-> Absent]
    /\ vecs = [t \in Threads |-> Absent]
    /\ ans = [t \in Threads |-> NoAnswer]
    /\ window = [t \in Threads |-> {}]
    /\ robbed = {}

-----------------------------------------------------------------------------
(* The environment: builds, and the operator of the index directory. *)

\* Mutant: a build does not retain older generations.
RebuildReplacing(m) ==
    /\ Publish(m)
    /\ files' = [g \in Generations |-> IF g = m.generation THEN SnapshotFiles ELSE {}]
    /\ Witness([active |-> m, legacy |-> legacy])
    /\ UNCHANGED <<withdrawn, legacy, caches, rpc, req, man, rows, vecs, ans, robbed>>

Rebuild(m) ==
    /\ Publish(m)
    /\ files' = [files EXCEPT ![m.generation] =
                   IF m.backend = "none" THEN {"chunks", "lexical"} ELSE SnapshotFiles]
    /\ Witness([active |-> m, legacy |-> legacy])
    /\ UNCHANGED <<withdrawn, legacy, caches, rpc, req, man, rows, vecs, ans, robbed>>

\* An earlier release rewrites, in place, a directory that is still its own.
LegacyRewrite ==
    /\ active = Absent /\ legacy # Absent
    /\ \E c \in LegacyContents \ {legacy} :
         legacy' = c /\ Witness([active |-> active, legacy |-> c])
    /\ UNCHANGED <<active, snapshots, withdrawn, files, caches, rpc, req, man, rows, vecs, ans,
                   robbed>>

Readers(g) == {t \in Threads : rpc[t] \notin {"idle", "done"} /\ Path(t) = g}

\* A file of generation g is removed.
Unlink(g, f) ==
    /\ f \in files[g]
    /\ files' = [files EXCEPT ![g] = @ \ {f}]
    /\ robbed' = robbed \cup Readers(g)
    /\ UNCHANGED <<active, snapshots, legacy, caches, rpc, req, man, rows, vecs, ans, window>>

\* A superseded generation is removed, file by file.
RemoveFile(m, f) ==
    /\ m # active
    /\ Unlink(m.generation, f)
    /\ UNCHANGED withdrawn

\* The clean-up of the temporary manifest raises after os.replace, and the
\* build that has just published m deletes it, file by file; the manifest goes
\* on to name it.  (Once another build is active this is a RemoveFile.)
RebuildFails(m, f) ==
    /\ m = active
    /\ Unlink(m.generation, f)
    /\ withdrawn' = withdrawn \cup {m}

-----------------------------------------------------------------------------
(* One call of _retrieve_index. *)

Submit(t) ==
    /\ rpc[t] = "idle"
    /\ \E r \in Requests : req' = [req EXCEPT ![t] = r]
    /\ window' = [window EXCEPT ![t] = {View}]
    /\ Goto(t, "resolve")
    /\ UNCHANGED <<disk, caches, man, rows, vecs, ans, robbed>>

\* meta.json is read once; everything later uses what it said.
ReadManifest(t) ==
    /\ rpc[t] = "resolve"
    /\ IF active = Unsupported
       THEN Raise(t, "schema") /\ UNCHANGED man
       ELSE man' = [man EXCEPT ![t] = active] /\ Goto(t, "check") /\ UNCHANGED ans
    /\ UNCHANGED <<disk, caches, req, rows, vecs, history>>

HasChunks(t) == IF Path(t) = Absent THEN legacy # Absent ELSE "chunks" \in files[Path(t)]

CheckSnapshot(t) ==
    /\ rpc[t] = "check"
    /\ IF HasChunks(t)
       THEN Goto(t, IF Path(t) = Absent THEN "clear" ELSE "lookup") /\ UNCHANGED ans
       ELSE Raise(t, "missing")
    /\ UNCHANGED <<disk, caches, req, man, rows, vecs, history>>

\* Mutant: a legacy index is served from the cache like any other.
ClearCacheOmitted(t) ==
    /\ rpc[t] = "clear"
    /\ Goto(t, "lookup")
    /\ UNCHANGED <<disk, caches, req, man, rows, vecs, ans, history>>

\* A legacy index has no generation: drop the whole table before using it.
ClearCache(t) ==
    /\ rpc[t] = "clear"
    /\ bm25' = <<>>
    /\ Goto(t, "lookup")
    /\ UNCHANGED <<disk, vectors, req, man, rows, vecs, ans, history>>

LookupBm25(t) ==
    /\ rpc[t] = "lookup"
    /\ IF Path(t) \in Keys(bm25)
       THEN /\ bm25' = Touch(bm25, Path(t))
            /\ rows' = [rows EXCEPT ![t] = bm25'[1].value]
            /\ Goto(t, "semantic")
       ELSE Goto(t, "chunks") /\ UNCHANGED <<bm25, rows>>
    /\ UNCHANGED <<disk, vectors, req, man, vecs, ans, history>>

\* Mutant: the loader resolves the active snapshot again.
LoadChunksOfActive(t) ==
    /\ rpc[t] = "chunks"
    /\ rows' = [rows EXCEPT ![t] = IF active \in Metadata THEN active.content ELSE legacy]
    /\ Goto(t, "lexical")
    /\ UNCHANGED <<disk, caches, req, man, vecs, ans, history>>

LoadChunks(t) ==
    /\ rpc[t] = "chunks"
    /\ IF HasChunks(t)
       THEN /\ rows' = [rows EXCEPT ![t] = IF Path(t) = Absent THEN legacy ELSE man[t].content]
            /\ Goto(t, "lexical") /\ UNCHANGED ans
       ELSE Raise(t, "missing") /\ UNCHANGED rows
    /\ UNCHANGED <<disk, caches, req, man, vecs, history>>

\* lexical.json is optional: without it the counts are recomputed from the
\* chunks.  With it its length is compared with the chunks', which a whole
\* snapshot passes.  The read fails if the file vanishes after exists().
LoadLexical(t) ==
    /\ rpc[t] = "lexical"
    /\ Goto(t, IF Path(t) # Absent /\ "lexical" \in files[Path(t)] THEN "counts" ELSE "insert")
    /\ UNCHANGED <<disk, caches, req, man, rows, vecs, ans, history>>

ReadLexical(t) ==
    /\ rpc[t] = "counts"
    /\ IF "lexical" \in files[Path(t)] THEN Goto(t, "insert") /\ UNCHANGED ans
                                       ELSE Raise(t, "missing")
    /\ UNCHANGED <<disk, caches, req, man, rows, vecs, history>>

InsertBm25(t) ==
    /\ rpc[t] = "insert"
    /\ bm25' = Insert(bm25, Path(t), rows[t])
    /\ Goto(t, "semantic")
    /\ UNCHANGED <<disk, vectors, req, man, rows, vecs, ans, history>>

Wanted(t) == req[t].backend # "none" /\ req[t].text /\ ChunkCount[rows[t]] > 0

\* Mutant: the backend asked for is not compared with the stored one.
DecideSemanticUnchecked(t) ==
    /\ rpc[t] = "semantic"
    /\ \/ /\ ~Wanted(t) \/ StoredBackend(t) = "none"
          /\ Respond(t, "disabled", Absent, "no vectors")
       \/ /\ Wanted(t) /\ StoredBackend(t) # "none"
          /\ Goto(t, "scorer") /\ UNCHANGED ans
    /\ UNCHANGED <<disk, caches, req, man, rows, vecs, history>>

\* The conditions ahead of the try block of the semantic channel.
DecideSemantic(t) ==
    /\ rpc[t] = "semantic"
    /\ \/ /\ ~Wanted(t)
          /\ Respond(t, "disabled", Absent, "")
       \/ /\ Wanted(t) /\ StoredBackend(t) = "none"
          /\ IF req[t].backend = "auto" THEN Respond(t, "disabled", Absent, "no vectors")
                                        ELSE Raise(t, "mismatch")
       \/ /\ Wanted(t) /\ StoredBackend(t) # "none"
          /\ IF req[t].agrees /\ req[t].backend \in {"auto", StoredBackend(t)}
             THEN Goto(t, "scorer") /\ UNCHANGED ans
             ELSE Raise(t, "mismatch")
    /\ UNCHANGED <<disk, caches, req, man, rows, vecs, history>>

\* The except clause: "auto" goes on without the semantic channel.
SemanticFails(t) == IF req[t].backend = "auto" THEN Respond(t, "failed", Absent, "exception")
                                               ELSE Raise(t, "semantic")

GetScorer(t) ==
    /\ rpc[t] = "scorer"
    /\ Goto(t, "vectors")
    /\ UNCHANGED <<disk, caches, req, man, rows, vecs, ans, history>>

\* The model cannot be constructed, or fails to embed the query.
ScorerRaises(t) ==
    /\ rpc[t] \in {"scorer", "rank"}
    /\ SemanticFails(t)
    /\ UNCHANGED <<disk, caches, req, man, rows, vecs, history>>

LookupVectors(t) ==
    /\ rpc[t] = "vectors"
    /\ IF Path(t) \in Keys(vectors)
       THEN /\ vectors' = Touch(vectors, Path(t))
            /\ vecs' = [vecs EXCEPT ![t] = vectors'[1].value]
            /\ Goto(t, "rank")
       ELSE Goto(t, "mmap") /\ UNCHANGED <<vectors, vecs>>
    /\ UNCHANGED <<disk, bm25, req, man, rows, ans, history>>

\* Mutants: vectors of the active snapshot; vectors labelled with the request.
LoadVectorsOfActive(t) ==
    /\ rpc[t] = "mmap"
    /\ vecs' = [vecs EXCEPT ![t] = [content |-> active.content, backend |-> active.backend]]
    /\ Goto(t, "keep")
    /\ UNCHANGED <<disk, caches, req, man, rows, ans, history>>

LoadVectorsAsRequested(t) ==
    /\ rpc[t] = "mmap"
    /\ vecs' = [vecs EXCEPT ![t] = [content |-> man[t].content, backend |-> req[t].backend]]
    /\ Goto(t, "keep")
    /\ UNCHANGED <<disk, caches, req, man, rows, ans, history>>

LoadVectors(t) ==
    /\ rpc[t] = "mmap"
    /\ IF "vectors" \in files[Path(t)]
       THEN /\ vecs' = [vecs EXCEPT ![t] =
                          [content |-> man[t].content, backend |-> man[t].backend]]
            /\ Goto(t, "keep") /\ UNCHANGED ans
       ELSE SemanticFails(t) /\ UNCHANGED vecs
    /\ UNCHANGED <<disk, caches, req, man, rows, history>>

InsertVectors(t) ==
    /\ rpc[t] = "keep"
    /\ vectors' = Insert(vectors, Path(t), vecs[t])
    /\ Goto(t, "rank")
    /\ UNCHANGED <<disk, bm25, req, man, rows, vecs, ans, history>>

\* Only the shapes are compared: as many vectors as chunks, of the dimension
\* that the backend recorded in the metadata produces.
Rank(t) ==
    /\ rpc[t] = "rank"
    /\ IF /\ ChunkCount[vecs[t].content] = ChunkCount[rows[t]]
          /\ vecs[t].backend = StoredBackend(t)
       THEN Respond(t, StoredBackend(t), vecs[t], IF man[t].degraded THEN "build" ELSE "")
       ELSE SemanticFails(t)
    /\ UNCHANGED <<disk, caches, req, man, rows, vecs, history>>

\* The caller takes the answer; the locals of the call are gone.
Return(t) ==
    /\ rpc[t] = "done"
    /\ Goto(t, "idle")
    /\ req' = [req EXCEPT ![t] = NoRequest]
    /\ man' = [man EXCEPT ![t] = Absent]
    /\ rows' = [rows EXCEPT ![t] = Absent]
    /\ vecs' = [vecs EXCEPT ![t] = Absent]
    /\ ans' = [ans EXCEPT ![t] = NoAnswer]
    /\ window' = [window EXCEPT ![t] = {}]
    /\ robbed' = robbed \ {t}
    /\ UNCHANGED <<disk, caches>>

ThreadNext(t) ==
    \/ Submit(t) \/ ReadManifest(t) \/ CheckSnapshot(t) \/ ClearCache(t)
    \/ LookupBm25(t) \/ LoadChunks(t) \/ LoadLexical(t) \/ ReadLexical(t)
    \/ InsertBm25(t) \/ DecideSemantic(t) \/ GetScorer(t) \/ ScorerRaises(t)
    \/ LookupVectors(t) \/ LoadVectors(t) \/ InsertVectors(t) \/ Rank(t) \/ Return(t)

QueryNext ==
    \/ \E m \in Builds : Rebuild(m)
    \/ LegacyRewrite
    \/ \E m \in snapshots, f \in SnapshotFiles : RemoveFile(m, f) \/ RebuildFails(m, f)
    \/ \E t \in Threads : ThreadNext(t)

QuerySpec == QueryInit /\ [][QueryNext]_queryVars

-----------------------------------------------------------------------------
(* Properties. *)

QueryPhases == {"idle", "resolve", "check", "clear", "lookup", "chunks", "lexical",
                "counts", "insert", "semantic", "scorer", "vectors", "mmap", "keep",
                "rank", "done"}
Entry(values) == [key: Generations \cup {Absent}, value: values]

\* The state of the index directory, of the two caches of the process and of
\* each request in flight (retriever.py).
QueryTypeOK ==
    /\ active \in Manifests /\ snapshots \subseteq Metadata /\ withdrawn \subseteq snapshots
    /\ files \in [Generations -> SUBSET SnapshotFiles]
    /\ legacy \in Rows
    /\ bm25 \in Seq(Entry(Contents)) /\ vectors \in Seq(Entry(Vectors))
    /\ rpc \in [Threads -> QueryPhases]
    /\ req \in [Threads -> Request]
    /\ man \in [Threads -> Metadata \cup {Absent}]
    /\ rows \in [Threads -> Rows]
    /\ vecs \in [Threads -> Vectors \cup {Absent}]
    /\ ans \in [Threads -> Answer]
    /\ window \in [Threads -> SUBSET Views] /\ robbed \subseteq Threads

Succeeded(t) == rpc[t] = "done" /\ ans[t].error = ""

\* The answer is what view v alone would have given.
AnswersFrom(a, v) ==
    IF v.active \in Metadata
    THEN /\ a.generation = v.active.generation /\ a.rows = v.active.content
         /\ a.vectors \in {Absent, [content |-> v.active.content, backend |-> v.active.backend]}
    ELSE v.active = Absent /\ a.generation = Absent /\ a.rows = v.legacy /\ a.vectors = Absent

\* A query answers from the index that was active at one instant between its
\* call and its return: chunks, vectors and index_generation never come from
\* two builds, and never from a build that was superseded before the call.
\* "Rebuilding creates a new generation and invalidates warm caches by snapshot
\* path" (README.md).
AnswersActiveIndex ==
    \A t \in Threads : Succeeded(t) => \E v \in window[t] : AnswersFrom(ans[t], v)

\* The same of every answer that names a generation.
AnswersOneBuild ==
    \A t \in Threads : Succeeded(t) /\ ans[t].generation # Absent =>
      \E v \in window[t] : AnswersFrom(ans[t], v)

\* "Legacy indexes bypass the cache" (retriever.py): the chunks of an answer
\* from a legacy index were in its chunks.jsonl at some instant of the call.
LegacyBypassesCache ==
    \A t \in Threads : Succeeded(t) /\ ans[t].generation = Absent =>
      ans[t].rows \in {v.legacy : v \in window[t]}

\* Whatever the interleaving of lookups, loads, evictions and insertions, a
\* cached entry for a generation is what that generation's snapshot holds, no
\* key is cached twice, and neither table exceeds its maxsize.
CachesCoherent ==
    /\ \A i \in DOMAIN bm25 : bm25[i].key # Absent =>
         \E m \in snapshots : m.generation = bm25[i].key /\ m.content = bm25[i].value
    /\ \A i \in DOMAIN vectors : \E m \in snapshots :
         /\ m.generation = vectors[i].key
         /\ vectors[i].value = [content |-> m.content, backend |-> m.backend]
    /\ \A cache \in {bm25, vectors} :
         Len(cache) <= CacheSize /\ Cardinality(Keys(cache)) = Len(cache)

\* A view with no index to read: none was built, or the build that published
\* it has failed and deleted its chunks.
NothingToRead(v) ==
    IF v.active \in Metadata
    THEN v.active \in withdrawn /\ "chunks" \notin files[v.active.generation]
    ELSE v.active = Absent /\ v.legacy = Absent

\* "Older generations are retained; remove them only when no readers use them"
\* (README.md): unless files of its generation were removed under it, a query
\* fails for want of an index, or of a readable manifest, only if that was the
\* state of the directory at some instant of the call.  A build that succeeds
\* never makes a running query fail, one that fails does so only after it has
\* published and then deleted its snapshot (see ActiveComplete of IndexStore),
\* and removing a generation never harms a reader of another one.
NoSpuriousFailure ==
    \A t \in Threads \ robbed : rpc[t] = "done" =>
      /\ ans[t].error = "missing" => \E v \in window[t] : NothingToRead(v)
      /\ ans[t].error = "schema" => \E v \in window[t] : v.active = Unsupported

\* "If vectors are unavailable, auto reports lexical fallback in
\* retrieval_debug" (README.md): a successful answer to a request that could
\* have used vectors either used them or says why not, and it passes on the
\* reason for which the build fell back to the projection.
FallbackReported ==
    \A t \in Threads : Succeeded(t) /\ Wanted(t) =>
      /\ ans[t].vectors = Absent => ans[t].reason \in {"no vectors", "exception"}
      /\ ans[t].vectors # Absent =>
           (ans[t].reason = "build") <=> \E m \in snapshots :
              m.generation = ans[t].generation /\ m.degraded

\* "An explicit backend mismatch fails instead of silently using a different
\* model" (README.md): a successful answer to an explicit request that could
\* have used vectors was ranked by vectors of exactly that backend.
ExplicitNeverSubstituted ==
    \A t \in Threads : Succeeded(t) /\ Wanted(t) /\ req[t].backend # "auto" =>
      ans[t].vectors # Absent /\ ans[t].vectors.backend = req[t].backend
                             /\ ans[t].backend = req[t].backend

\* An answer never hides which ranking it rests on: neither by a fallback that
\* is not reported nor by a backend other than the one asked for
\* (_retrieve_index, semantic section).
BackendHonest == FallbackReported /\ ExplicitNeverSubstituted

-----------------------------------------------------------------------------
(* The inductive invariant behind these properties. *)

VectorsOf(m) == [content |-> m.content, backend |-> m.backend]

\* The index directory: a name stands for one snapshot, and the active one has
\* its chunks unless it was withdrawn.
DirectoryInv ==
    /\ active \in snapshots \cup {Absent, Unsupported}
    /\ \A m, n \in snapshots : m.generation = n.generation => m = n
    /\ active \in Metadata \ withdrawn => "chunks" \in files[active.generation]

DistinctKeys(cache) == \A i, j \in DOMAIN cache : cache[i].key = cache[j].key => i = j

\* What CachesCoherent says, with the keys compared pair by pair.
CacheInv ==
    /\ \A i \in DOMAIN bm25 : bm25[i].key # Absent =>
         \E m \in snapshots : m.generation = bm25[i].key /\ m.content = bm25[i].value
    /\ \A i \in DOMAIN vectors : \E m \in snapshots :
         m.generation = vectors[i].key /\ vectors[i].value = VectorsOf(m)
    /\ DistinctKeys(bm25) /\ DistinctKeys(vectors)
    /\ Len(bm25) <= CacheSize /\ Len(vectors) <= CacheSize

\* A call under way has seen the directory as it is now and as it was when it
\* resolved its snapshot.  Until its snapshot is withdrawn or loses a file it
\* finds what it looks for.
PinInv(t) ==
    /\ rpc[t] \in {"idle", "resolve"} => man[t] = Absent /\ t \notin robbed
    /\ rpc[t] \notin {"idle", "done"} => View \in window[t]
    /\ man[t] # Absent => man[t] \in snapshots /\ \E v \in window[t] : v.active = man[t]
    /\ rpc[t] \notin {"idle", "resolve", "done"} /\ man[t] = Absent =>
         [active |-> Absent, legacy |-> legacy] \in window[t]
    /\ rpc[t] # "done" /\ t \notin robbed /\ man[t] # Absent =>
         /\ man[t] \notin withdrawn => "chunks" \in files[man[t].generation]
         /\ rpc[t] = "counts" => "lexical" \in files[man[t].generation]
    /\ rpc[t] = "counts" => man[t] # Absent
    /\ rpc[t] = "clear" => man[t] = Absent

\* What a call has loaded belongs to the snapshot it resolved, and it ranks by
\* vectors only if the backend of that snapshot was acceptable.
LoadInv(t) ==
    /\ rpc[t] \in {"lexical", "counts", "insert", "semantic", "scorer", "vectors", "mmap",
                   "keep", "rank"} =>
         rows[t] \in Contents /\ (man[t] # Absent => rows[t] = man[t].content)
    /\ rpc[t] \in {"scorer", "vectors", "mmap", "keep", "rank"} =>
         /\ man[t] # Absent /\ man[t].backend # "none"
         /\ Wanted(t) /\ req[t].backend \in {"auto", man[t].backend}
    /\ rpc[t] \in {"keep", "rank"} => vecs[t] = VectorsOf(man[t])

\* What a call that is done has returned.
AnswerInv(t) ==
    rpc[t] = "done" =>
      /\ ans[t].error = "missing" /\ t \notin robbed => \E v \in window[t] : NothingToRead(v)
      /\ ans[t].error = "schema" => \E v \in window[t] : v.active = Unsupported
      /\ ans[t].error = "" =>
           /\ ans[t].generation = Path(t) /\ ans[t].rows = rows[t] /\ rows[t] \in Contents
           /\ man[t] # Absent => rows[t] = man[t].content
           /\ ans[t].vectors = Absent /\ Wanted(t) =>
                req[t].backend = "auto" /\ ans[t].reason \in {"no vectors", "exception"}
           /\ ans[t].vectors # Absent =>
                /\ man[t] # Absent /\ ans[t].vectors = VectorsOf(man[t])
                /\ ans[t].backend = man[t].backend
                /\ req[t].backend \in {"auto", man[t].backend}
                /\ ans[t].reason = IF man[t].degraded THEN "build" ELSE ""

QueryInv ==
    /\ QueryTypeOK /\ DirectoryInv /\ CacheInv
    /\ \A t \in Threads : PinInv(t) /\ LoadInv(t) /\ AnswerInv(t)

\* The two cases in which a legacy index is never answered from a stale entry:
\* an earlier release does not rewrite it, or calls do not overlap.
LegacyUndisturbed ==
    \/ \A c, d \in LegacyContents : c = d
    \/ \A t, u \in Threads : t = u

\* Then the rows of a call without a snapshot are those that chunks.jsonl held
\* during the call.
LegacyInv ==
    /\ legacy \in LegacyContents \cup {Absent}
    /\ \A i \in DOMAIN bm25 : bm25[i].key = Absent => bm25[i].value \in LegacyContents /\ legacy # Absent
    /\ \A t \in Threads : man[t] = Absent =>
         /\ rpc[t] = "lookup" /\ ~(\A c, d \in LegacyContents : c = d) => Absent \notin Keys(bm25)
         /\ \/ rpc[t] \in {"lexical", "counts", "insert", "semantic", "scorer", "vectors", "mmap",
                           "keep", "rank"}
            \/ rpc[t] = "done" /\ ans[t].error = ""
            => /\ rows[t] \in LegacyContents /\ legacy # Absent
               /\ [active |-> Absent, legacy |-> rows[t]] \in window[t]
=============================================================================
