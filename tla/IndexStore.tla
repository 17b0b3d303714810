----------------------------- MODULE IndexStore -----------------------------
(***************************************************************************)
(* The index directory on disk and the processes that build into it        *)
(* (rag/index_builder.py build_index, rag/storage.py publish_manifest).    *)
(*                                                                         *)
(* A build scans the corpus, writes four files into a fresh directory      *)
(* generations/<uuid>, and then replaces the root meta.json.  Several      *)
(* builds may run at once, each may raise at any file operation, and each  *)
(* may be killed between any two of them.                                  *)
(***************************************************************************)
EXTENDS IndexFormat

CONSTANTS
    Builders,       \* processes that call build_index
    Torn            \* a file that is created but not completely written

Files == {"chunks", "lexical", "vectors", "meta"}
Vectors == [content: Contents, backend: Stored]
FileState == Contents \cup Vectors \cup Metadata \cup {Absent, Torn}

ASSUME StoreAssumption ==
    /\ Absent # Torn
    /\ {Absent, Torn} \cap (Contents \cup Vectors \cup Metadata) = {}

VARIABLES
    manifest,   \* the root meta.json
    snap,       \* snap[g][f]: file f of generations/<g>
    temp,       \* temp[g]: the .meta-<uuid>.tmp of the build of g
    used,       \* generation names already drawn
    published,  \* history: manifests switched to by a build that has not failed since
    bpc,        \* where each builder is in build_index
    requested,  \* its semantic_backend argument
    work        \* its local metadata, Absent before the scan is done

storeVars == <<manifest, snap, temp, used, published, bpc, requested, work>>

Phases == {"idle", "scan", "chunks", "lexical", "embed", "vectors", "meta",
           "temp", "replace", "unlink", "cleanup"}
\* The phases inside the try block of build_index that precede os.replace.
Try == {"chunks", "lexical", "embed", "vectors", "meta", "temp", "replace"}

NoFiles == [f \in Files |-> Absent]
GenOf(b) == work[b].generation
Goto(b, phase) == bpc' = [bpc EXCEPT ![b] = phase]
WriteFile(g, f, value) == snap' = [snap EXCEPT ![g][f] = value]
\* The builder leaves build_index, by returning, raising or dying.
Leave(b) == /\ Goto(b, "idle")
            /\ work' = [work EXCEPT ![b] = Absent]
            /\ requested' = [requested EXCEPT ![b] = "none"]
\* The finally clause removes the temporary manifest, unless that fails too
\* or the process is killed first.
MayDropTemp(g) == temp' \in {temp, [temp EXCEPT ![g] = Absent]}

\* The directory either has no manifest (new, or a legacy index) or one
\* written by another version of the program.
StoreInit ==
    /\ manifest \in {Absent, Unsupported}
    /\ snap = [g \in Generations |-> NoFiles]
    /\ temp = [g \in Generations |-> Absent]
    /\ used = {}
    /\ published = {}
    /\ bpc = [b \in Builders |-> "idle"]
    /\ requested = [b \in Builders |-> "none"]
    /\ work = [b \in Builders |-> Absent]

-----------------------------------------------------------------------------
(* One builder. *)

BuildBegin(b) ==
    /\ bpc[b] = "idle"
    /\ \E r \in Requested : requested' = [requested EXCEPT ![b] = r]
    /\ Goto(b, "scan")
    /\ UNCHANGED <<manifest, snap, temp, used, published, work>>

\* Discover, read and chunk the corpus, assemble the metadata under a fresh
\* generation name and create its directory.
ScanCorpus(b) ==
    /\ bpc[b] = "scan"
    /\ \E g \in Generations \ used, c \in Contents :
         /\ used' = used \cup {g}
         /\ work' = [work EXCEPT ![b] =
                       [generation |-> g, content |-> c,
                        backend |-> "none", degraded |-> FALSE]]
    /\ Goto(b, "chunks")
    /\ UNCHANGED <<manifest, snap, temp, published, requested>>

\* An unreadable source raises before the try block: nothing to clean up.
ScanRaises(b) ==
    /\ bpc[b] = "scan"
    /\ Leave(b)
    /\ UNCHANGED <<manifest, snap, temp, used, published>>

\* open(..., "w") creates the file before its content is there.
OpenFile(b) ==
    /\ bpc[b] \in Files
    /\ snap[GenOf(b)][bpc[b]] = Absent
    /\ WriteFile(GenOf(b), bpc[b], Torn)
    /\ UNCHANGED <<manifest, temp, used, published, bpc, requested, work>>

WriteChunks(b) ==
    /\ bpc[b] = "chunks"
    /\ snap[GenOf(b)]["chunks"] = Torn
    /\ WriteFile(GenOf(b), "chunks", work[b].content)
    /\ Goto(b, "lexical")
    /\ UNCHANGED <<manifest, temp, used, published, requested, work>>

WriteLexical(b) ==
    /\ bpc[b] = "lexical"
    /\ snap[GenOf(b)]["lexical"] = Torn
    /\ WriteFile(GenOf(b), "lexical", work[b].content)
    /\ Goto(b, "embed")
    /\ UNCHANGED <<manifest, temp, used, published, requested, work>>

SkipEmbedding(b) ==
    /\ bpc[b] = "embed"
    /\ requested[b] = "none" \/ work[b].content = Empty
    /\ Goto(b, "meta")
    /\ UNCHANGED <<manifest, snap, temp, used, published, requested, work>>

\* Mutant: the metadata records the backend asked for, not the one settled on.
EmbedCorpusAsRequested(b) ==
    /\ bpc[b] = "embed"
    /\ requested[b] # "none" /\ work[b].content # Empty
    /\ work' = [work EXCEPT ![b].backend = requested[b]]
    /\ Goto(b, "vectors")
    /\ UNCHANGED <<manifest, snap, temp, used, published, requested>>

\* Mutant: publishes before vectors.npy is saved.
EmbedCorpusUnsaved(b) ==
    /\ bpc[b] = "embed"
    /\ requested[b] # "none" /\ work[b].content # Empty
    /\ \E s \in ScorerOutcomes(requested[b]) :
         work' = [work EXCEPT ![b].backend = s.backend, ![b].degraded = s.degraded]
    /\ Goto(b, "meta")
    /\ UNCHANGED <<manifest, snap, temp, used, published, requested>>

EmbedCorpus(b) ==
    /\ bpc[b] = "embed"
    /\ requested[b] # "none" /\ work[b].content # Empty
    /\ \E s \in ScorerOutcomes(requested[b]) :
         work' = [work EXCEPT ![b].backend = s.backend, ![b].degraded = s.degraded]
    /\ Goto(b, "vectors")
    /\ UNCHANGED <<manifest, snap, temp, used, published, requested>>

WriteVectors(b) ==
    /\ bpc[b] = "vectors"
    /\ snap[GenOf(b)]["vectors"] = Torn
    /\ WriteFile(GenOf(b), "vectors",
                 [content |-> work[b].content, backend |-> work[b].backend])
    /\ Goto(b, "meta")
    /\ UNCHANGED <<manifest, temp, used, published, requested, work>>

WriteSnapshotMeta(b) ==
    /\ bpc[b] = "meta"
    /\ snap[GenOf(b)]["meta"] = Torn
    /\ WriteFile(GenOf(b), "meta", work[b])
    /\ Goto(b, "temp")
    /\ UNCHANGED <<manifest, temp, used, published, requested, work>>

OpenTemp(b) ==
    /\ bpc[b] = "temp"
    /\ temp[GenOf(b)] = Absent
    /\ temp' = [temp EXCEPT ![GenOf(b)] = Torn]
    /\ UNCHANGED <<manifest, snap, used, published, bpc, requested, work>>

WriteTemp(b) ==
    /\ bpc[b] = "temp"
    /\ temp[GenOf(b)] = Torn
    /\ temp' = [temp EXCEPT ![GenOf(b)] = work[b]]
    /\ Goto(b, "replace")
    /\ UNCHANGED <<manifest, snap, used, published, requested, work>>

\* os.replace: the commit point of a build.
ReplaceManifest(b) ==
    /\ bpc[b] = "replace"
    /\ manifest' = temp[GenOf(b)]
    /\ published' = published \cup {temp[GenOf(b)]}
    /\ temp' = [temp EXCEPT ![GenOf(b)] = Absent]
    /\ Goto(b, "unlink")
    /\ UNCHANGED <<snap, used, requested, work>>

\* Mutant: a build that succeeds removes every other generation.
ReturnMetadataCollecting(b) ==
    /\ bpc[b] = "unlink"
    /\ snap' = [g \in Generations |-> IF g = GenOf(b) THEN snap[g] ELSE NoFiles]
    /\ Leave(b)
    /\ UNCHANGED <<manifest, temp, used, published>>

\* temp.unlink(missing_ok=True) finds nothing; build_index returns.
ReturnMetadata(b) ==
    /\ bpc[b] = "unlink"
    /\ Leave(b)
    /\ UNCHANGED <<manifest, snap, temp, used, published>>

\* The same unlink raises something other than FileNotFoundError: the build
\* fails although it has switched the manifest.
UnlinkRaises(b) ==
    /\ bpc[b] = "unlink"
    /\ published' = published \ {work[b]}
    /\ Goto(b, "cleanup")
    /\ UNCHANGED <<manifest, snap, temp, used, requested, work>>

\* Mutant: the try block extends over what follows the publication.
BuildRaisesLate(b) ==
    /\ bpc[b] \in Try \cup {"unlink"}
    /\ MayDropTemp(GenOf(b))
    /\ Goto(b, "cleanup")
    /\ UNCHANGED <<manifest, snap, used, published, requested, work>>

\* A write, the embedding model or os.replace raises inside the try block.
BuildRaises(b) ==
    /\ bpc[b] \in Try
    /\ MayDropTemp(GenOf(b))
    /\ Goto(b, "cleanup")
    /\ UNCHANGED <<manifest, snap, used, published, requested, work>>

\* shutil.rmtree, then the exception propagates; rmtree itself may raise
\* after having removed only some of the files.
RemoveSnapshot(b) ==
    /\ bpc[b] = "cleanup"
    /\ \E keep \in SUBSET Files :
         snap' = [snap EXCEPT ![GenOf(b)] =
                    [f \in Files |-> IF f \in keep THEN snap[GenOf(b)][f] ELSE Absent]]
    /\ Leave(b)
    /\ UNCHANGED <<manifest, temp, used, published>>

\* Killed, or unwound by an exception that is not an Exception
\* (KeyboardInterrupt): no rmtree.
BuilderDies(b) ==
    /\ bpc[b] # "idle"
    /\ IF work[b] = Absent THEN UNCHANGED temp ELSE MayDropTemp(GenOf(b))
    /\ Leave(b)
    /\ UNCHANGED <<manifest, snap, used, published>>

BuilderNext(b) ==
    \/ BuildBegin(b) \/ ScanCorpus(b) \/ ScanRaises(b) \/ OpenFile(b)
    \/ WriteChunks(b) \/ WriteLexical(b) \/ SkipEmbedding(b) \/ EmbedCorpus(b)
    \/ WriteVectors(b) \/ WriteSnapshotMeta(b) \/ OpenTemp(b) \/ WriteTemp(b)
    \/ ReplaceManifest(b) \/ ReturnMetadata(b) \/ UnlinkRaises(b)
    \/ BuildRaises(b) \/ RemoveSnapshot(b) \/ BuilderDies(b)

StoreNext == \E b \in Builders : BuilderNext(b)
StoreSpec == StoreInit /\ [][StoreNext]_storeVars

-----------------------------------------------------------------------------
(* Properties. *)

\* The root manifest is never torn, and each file of a snapshot is
\* absent, torn or the output of one scan (storage.py).
StoreTypeOK ==
    /\ manifest \in Manifests
    /\ snap \in [Generations -> [Files -> FileState]]
    /\ temp \in [Generations -> Metadata \cup {Absent, Torn}]
    /\ used \subseteq Generations
    /\ published \subseteq Metadata
    /\ bpc \in [Builders -> Phases]
    /\ requested \in [Builders -> Requested]
    /\ work \in [Builders -> Metadata \cup {Absent}]

\* All four files of the snapshot that m describes are there, whole, and from
\* the scan that m describes.
Complete(m) ==
    /\ snap[m.generation]["chunks"] = m.content
    /\ snap[m.generation]["lexical"] = m.content
    /\ snap[m.generation]["vectors"] =
         IF m.backend = "none" THEN Absent
         ELSE [content |-> m.content, backend |-> m.backend]
    /\ snap[m.generation]["meta"] = m

\* Every generation that was ever the active one stays complete, whatever
\* other builds do, wherever they fail or die: "Failed builds leave the active
\* generation usable.  Older generations are retained" (README.md), which is
\* what lets a reader keep using the generation it resolved.  Only a build
\* that fails after its own switch takes its own generation away.
PublishedComplete == \A m \in published : Complete(m)

\* The weaker statement about the active generation alone.
ActiveComplete == manifest \in Metadata => Complete(manifest)

\* A manifest, once there, is only ever replaced by the manifest of a snapshot
\* that is complete at that moment; no step removes it or tears it.
SwitchesToComplete ==
    [][manifest' # manifest => (manifest' \in Metadata /\ ActiveComplete')]_storeVars

-----------------------------------------------------------------------------
(* The inductive invariant behind PublishedComplete. *)

\* No two builds ever write below the same generation directory.
Ownership ==
    /\ \A b \in Builders : (work[b] = Absent) <=> (bpc[b] \in {"idle", "scan"})
    /\ \A b \in Builders : work[b] # Absent => GenOf(b) \in used
    /\ \A b, c \in Builders :
         b # c /\ work[b] # Absent /\ work[c] # Absent => GenOf(b) # GenOf(c)
    /\ \A g \in Generations \ used : snap[g] = NoFiles /\ temp[g] = Absent

\* The vectors file agrees with the embedding section of the metadata.
Embedded(b) ==
    /\ WellFormed(work[b])
    /\ snap[GenOf(b)]["vectors"] =
         IF work[b].backend = "none" THEN Absent
         ELSE [content |-> work[b].content, backend |-> work[b].backend]

After(b, phases) == bpc[b] \in phases

\* A file that build_index has moved past is the one its metadata describes.
ProgressOf(b) ==
    /\ After(b, {"lexical", "embed", "vectors", "meta", "temp", "replace"}) =>
         snap[GenOf(b)]["chunks"] = work[b].content
    /\ After(b, {"embed", "vectors", "meta", "temp", "replace"}) =>
         snap[GenOf(b)]["lexical"] = work[b].content
    /\ After(b, {"chunks", "lexical", "embed"}) =>
         /\ snap[GenOf(b)]["vectors"] = Absent
         /\ work[b].backend = "none" /\ ~work[b].degraded
    /\ After(b, {"vectors"}) =>
         work[b].backend # "none" /\ WellFormed(work[b])
    /\ After(b, {"meta"}) => Embedded(b)
    /\ After(b, {"temp", "replace"}) => Complete(work[b]) /\ WellFormed(work[b])
    /\ After(b, {"replace"}) => temp[GenOf(b)] = work[b]

Progress == \A b \in Builders : ProgressOf(b)

\* A published generation belongs to no build that could still touch it.
Settled ==
    \A m \in published :
      /\ m.generation \in used
      /\ \A b \in Builders :
           work[b] # Absent /\ GenOf(b) = m.generation => bpc[b] = "unlink" /\ work[b] = m

BuildInv == StoreTypeOK /\ Ownership /\ Progress
StoreInv == BuildInv /\ Settled /\ PublishedComplete

-----------------------------------------------------------------------------
(* The promise to the readers. *)

\* To its readers the directory is a SnapshotStore, in which only a snapshot
\* that is whole on disk counts as one.
Snapshots == INSTANCE SnapshotStore
             WITH active <- manifest, snapshots <- {m \in published : Complete(m)}
\* Every step of the builders, crashes included, is a step of that store or
\* leaves it unchanged (storage.py, publication with os.replace).
ImplementsSnapshotStore == Snapshots!SnapshotSpec
=============================================================================
