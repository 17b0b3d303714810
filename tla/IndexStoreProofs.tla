-------------------------- MODULE IndexStoreProofs --------------------------
(***************************************************************************)
(* Proofs about IndexStore, for any number of builders, generations and    *)
(* chunk lists.                                                            *)
(***************************************************************************)
EXTENDS IndexStore, TLAPS

\* What the scorer settles on is a backend an index can record.
LEMMA ScorerOutcomesType ==
    ASSUME NEW r \in Requested \ {"none"}, NEW s \in ScorerOutcomes(r)
    PROVE  s.backend \in Stored \ {"none"} /\ s.degraded \in BOOLEAN
<1>1. CASE s = [backend |-> r, degraded |-> FALSE] /\ r # "auto"
  <2>1. s.backend = r /\ s.degraded = FALSE
    BY <1>1
  <2> QED
    BY <1>1, <2>1 DEF Requested, Stored
<1>2. CASE s = [backend |-> "sentence-transformer", degraded |-> FALSE]
  <2>1. s.backend = "sentence-transformer" /\ s.degraded = FALSE
    BY <1>2
  <2> QED
    BY <2>1 DEF Stored
<1>3. CASE s = [backend |-> "projection", degraded |-> TRUE]
  <2>1. s.backend = "projection" /\ s.degraded = TRUE
    BY <1>3
  <2> QED
    BY <2>1 DEF Stored
<1> QED
  BY <1>1, <1>2, <1>3 DEF ScorerOutcomes

\* The directory before any build is well typed.
LEMMA InitType == StoreInit => StoreTypeOK
BY FormatAssumption DEF StoreInit, StoreTypeOK, Manifests, NoFiles, FileState,
   Phases, Requested

\* A builder past the scan holds the metadata of a generation drawn earlier.
LEMMA WorkFacts ==
    ASSUME StoreTypeOK, Ownership, NEW b \in Builders, bpc[b] \notin {"idle", "scan"}
    PROVE  /\ work[b] # Absent
           /\ work[b] \in Metadata
           /\ GenOf(b) \in Generations
           /\ GenOf(b) \in used
           /\ work[b].content \in Contents
           /\ work[b].backend \in Stored
           /\ work[b].degraded \in BOOLEAN
BY DEF StoreTypeOK, Ownership, Metadata, GenOf

\* Every step of a build, from the scan to the unlink, keeps the types.
LEMMA NextType ==
    ASSUME StoreTypeOK, Ownership, Progress, NEW b \in Builders, BuilderNext(b)
    PROVE  StoreTypeOK'
<1> USE DEF StoreTypeOK, Goto, Leave, Phases
<1>1. CASE BuildBegin(b)
  BY <1>1 DEF BuildBegin
<1>2. CASE ScanCorpus(b)
  <2>1. PICK g \in Generations \ used, c \in Contents :
          /\ used' = used \cup {g}
          /\ work' = [work EXCEPT ![b] = [generation |-> g, content |-> c,
                                          backend |-> "none", degraded |-> FALSE]]
    BY <1>2 DEF ScanCorpus
  <2>2. [generation |-> g, content |-> c, backend |-> "none", degraded |-> FALSE] \in Metadata
    BY DEF Metadata, Stored
  <2> QED
    BY <1>2, <2>1, <2>2 DEF ScanCorpus
<1>3. CASE ScanRaises(b)
  BY <1>3 DEF ScanRaises, Requested
<1>4. ASSUME bpc[b] \notin {"idle", "scan"}, NEW f \in Files, NEW value \in FileState,
             WriteFile(GenOf(b), f, value)
      PROVE  snap' \in [Generations -> [Files -> FileState]]
  BY <1>4, WorkFacts DEF WriteFile
<1>5. CASE OpenFile(b)
  BY <1>4, <1>5 DEF OpenFile, Files, FileState
<1>6. CASE WriteChunks(b)
  BY <1>4, <1>6, WorkFacts DEF WriteChunks, Files, FileState
<1>7. CASE WriteLexical(b)
  BY <1>4, <1>7, WorkFacts DEF WriteLexical, Files, FileState
<1>8. CASE SkipEmbedding(b)
  BY <1>8 DEF SkipEmbedding
<1>9. CASE EmbedCorpus(b)
  <2>1. PICK s \in ScorerOutcomes(requested[b]) :
          work' = [work EXCEPT ![b].backend = s.backend, ![b].degraded = s.degraded]
    BY <1>9 DEF EmbedCorpus
  <2>2. s.backend \in Stored /\ s.degraded \in BOOLEAN
    BY <1>9, ScorerOutcomesType DEF EmbedCorpus
  <2>3. work[b] \in Metadata
    BY <1>9, WorkFacts DEF EmbedCorpus
  <2>4. [work[b] EXCEPT !.backend = s.backend, !.degraded = s.degraded] \in Metadata
    BY <2>2, <2>3 DEF Metadata
  <2>5. work' = [work EXCEPT ![b] = [work[b] EXCEPT !.backend = s.backend,
                                                    !.degraded = s.degraded]]
    BY <2>1
  <2> QED
    BY <1>9, <2>4, <2>5 DEF EmbedCorpus
<1>10. CASE WriteVectors(b)
  <2>1. [content |-> work[b].content, backend |-> work[b].backend] \in FileState
    BY <1>10, WorkFacts DEF WriteVectors, FileState, Vectors
  <2> QED
    BY <1>4, <1>10, <2>1 DEF WriteVectors, Files
<1>11. CASE WriteSnapshotMeta(b)
  BY <1>4, <1>11, WorkFacts DEF WriteSnapshotMeta, Files, FileState
<1>12. CASE OpenTemp(b) \/ WriteTemp(b)
  BY <1>12, WorkFacts DEF OpenTemp, WriteTemp
<1>13. CASE ReplaceManifest(b)
  <2>1. temp[GenOf(b)] \in Metadata
    BY <1>13, WorkFacts DEF ReplaceManifest, Progress, ProgressOf, After
  <2> QED
    BY <1>13, <2>1 DEF ReplaceManifest, Manifests
<1>14. CASE ReturnMetadata(b) \/ UnlinkRaises(b)
  BY <1>14 DEF ReturnMetadata, UnlinkRaises, Requested
<1>15. CASE BuildRaises(b)
  BY <1>15 DEF BuildRaises, MayDropTemp
<1>16. CASE RemoveSnapshot(b)
  <2>1. PICK keep \in SUBSET Files :
          snap' = [snap EXCEPT ![GenOf(b)] =
                     [f \in Files |-> IF f \in keep THEN snap[GenOf(b)][f] ELSE Absent]]
    BY <1>16 DEF RemoveSnapshot
  <2>2. [f \in Files |-> IF f \in keep THEN snap[GenOf(b)][f] ELSE Absent]
          \in [Files -> FileState]
    BY <1>16, WorkFacts DEF RemoveSnapshot, FileState
  <2> QED
    BY <1>16, <2>1, <2>2 DEF RemoveSnapshot, Requested
<1>17. CASE BuilderDies(b)
  BY <1>17 DEF BuilderDies, MayDropTemp, Requested
<1> QED
  BY <1>1, <1>2, <1>3, <1>5, <1>6, <1>7, <1>8, <1>9, <1>10, <1>11, <1>12,
     <1>13, <1>14, <1>15, <1>16, <1>17 DEF BuilderNext

\* A step of one builder leaves the other builders' locals alone, and touches
\* no directory and no temporary manifest but those of its own generation.
LEMMA Locality ==
    ASSUME StoreTypeOK, Ownership, NEW b \in Builders, BuilderNext(b)
    PROVE  /\ \A c \in Builders \ {b} : bpc'[c] = bpc[c] /\ work'[c] = work[c]
           /\ \A g \in Generations : (work[b] # Absent => g # GenOf(b)) =>
                snap'[g] = snap[g] /\ temp'[g] = temp[g]
           /\ used \subseteq used'
<1> USE DEF StoreTypeOK, Goto, Leave
<1>1. CASE \/ BuildBegin(b) \/ ScanCorpus(b) \/ ScanRaises(b) \/ SkipEmbedding(b)
           \/ EmbedCorpus(b) \/ ReturnMetadata(b) \/ UnlinkRaises(b)
  BY <1>1 DEF BuildBegin, ScanCorpus, ScanRaises, SkipEmbedding, EmbedCorpus,
     ReturnMetadata, UnlinkRaises
<1>2. CASE \/ OpenFile(b) \/ WriteChunks(b) \/ WriteLexical(b) \/ WriteVectors(b)
           \/ WriteSnapshotMeta(b)
  <2>1. work[b] # Absent
    BY <1>2, WorkFacts DEF OpenFile, WriteChunks, WriteLexical, WriteVectors,
       WriteSnapshotMeta, Files
  <2> QED
    BY <1>2, <2>1 DEF OpenFile, WriteChunks, WriteLexical, WriteVectors,
       WriteSnapshotMeta, WriteFile
<1>3. CASE OpenTemp(b) \/ WriteTemp(b) \/ ReplaceManifest(b) \/ RemoveSnapshot(b)
  <2>1. work[b] # Absent
    BY <1>3, WorkFacts DEF OpenTemp, WriteTemp, ReplaceManifest, RemoveSnapshot
  <2> QED
    BY <1>3, <2>1 DEF OpenTemp, WriteTemp, ReplaceManifest, RemoveSnapshot
<1>4. CASE BuildRaises(b)
  <2>1. work[b] # Absent
    BY <1>4, WorkFacts DEF BuildRaises, Try
  <2> QED
    BY <1>4, <2>1 DEF BuildRaises, MayDropTemp
<1>5. CASE BuilderDies(b)
  BY <1>5 DEF BuilderDies, MayDropTemp
<1> QED
  BY <1>1, <1>2, <1>3, <1>4, <1>5 DEF BuilderNext

\* Which generation a builder works on changes only when it draws a fresh one
\* or leaves.
LEMMA OwnWork ==
    ASSUME StoreTypeOK, Ownership, NEW b \in Builders, BuilderNext(b)
    PROVE  /\ (work'[b] = Absent) <=> (bpc'[b] \in {"idle", "scan"})
           /\ work'[b] # Absent =>
                /\ work'[b].generation \in used'
                /\ \/ work[b] # Absent /\ work'[b].generation = GenOf(b) /\ used' = used
                   \/ /\ work'[b].generation \in Generations \ used
                      /\ used' = used \cup {work'[b].generation}
                      /\ UNCHANGED <<snap, temp>>
           /\ work'[b] = Absent => used' = used
<1> USE DEF StoreTypeOK, Goto, Leave
<1>1. CASE BuildBegin(b) \/ ScanRaises(b) \/ ReturnMetadata(b) \/ RemoveSnapshot(b) \/ BuilderDies(b)
  BY <1>1 DEF BuildBegin, ScanRaises, ReturnMetadata, RemoveSnapshot, BuilderDies, Ownership
<1>2. CASE ScanCorpus(b)
  <2>1. PICK g \in Generations \ used, c \in Contents :
          /\ used' = used \cup {g}
          /\ work' = [work EXCEPT ![b] = [generation |-> g, content |-> c,
                                          backend |-> "none", degraded |-> FALSE]]
    BY <1>2 DEF ScanCorpus
  <2>2. [generation |-> g, content |-> c, backend |-> "none", degraded |-> FALSE] \in Metadata
    BY DEF Metadata, Stored
  <2>3. work'[b] \in Metadata /\ work'[b].generation = g
    BY <2>1, <2>2
  <2>4. work'[b] # Absent
    BY <2>3, FormatAssumption
  <2> QED
    BY <1>2, <2>1, <2>3, <2>4 DEF ScanCorpus
<1>3. CASE EmbedCorpus(b)
  <2>1. PICK s \in ScorerOutcomes(requested[b]) :
          work' = [work EXCEPT ![b].backend = s.backend, ![b].degraded = s.degraded]
    BY <1>3 DEF EmbedCorpus
  <2>2. work[b] \in Metadata /\ GenOf(b) \in used
    BY <1>3, WorkFacts DEF EmbedCorpus
  <2>3. s.backend \in Stored /\ s.degraded \in BOOLEAN
    BY <1>3, ScorerOutcomesType DEF EmbedCorpus
  <2>4. work'[b] = [work[b] EXCEPT !.backend = s.backend, !.degraded = s.degraded]
    BY <2>1
  <2>5. work'[b] \in Metadata /\ work'[b].generation = GenOf(b)
    BY <2>2, <2>3, <2>4 DEF Metadata, GenOf
  <2> QED
    BY <1>3, <2>2, <2>5, FormatAssumption DEF EmbedCorpus
<1>4. CASE \/ OpenFile(b) \/ WriteChunks(b) \/ WriteLexical(b) \/ SkipEmbedding(b)
           \/ WriteVectors(b) \/ WriteSnapshotMeta(b) \/ OpenTemp(b) \/ WriteTemp(b)
           \/ ReplaceManifest(b) \/ UnlinkRaises(b) \/ BuildRaises(b)
  <2>1. bpc[b] \notin {"idle", "scan"} /\ bpc'[b] \notin {"idle", "scan"}
    BY <1>4 DEF OpenFile, WriteChunks, WriteLexical, SkipEmbedding, WriteVectors,
       WriteSnapshotMeta, OpenTemp, WriteTemp, ReplaceManifest, UnlinkRaises,
       BuildRaises, Try, Files
  <2>2. work' = work /\ used' = used
    BY <1>4 DEF OpenFile, WriteChunks, WriteLexical, SkipEmbedding, WriteVectors,
       WriteSnapshotMeta, OpenTemp, WriteTemp, ReplaceManifest, UnlinkRaises, BuildRaises
  <2> QED
    BY <2>1, <2>2, WorkFacts DEF GenOf
<1> QED
  BY <1>1, <1>2, <1>3, <1>4 DEF BuilderNext

\* No step makes two running builds share a generation, or puts a file into a
\* generation that no build has drawn.
LEMMA NextOwnership ==
    ASSUME StoreTypeOK, Ownership, Progress, NEW b \in Builders, BuilderNext(b)
    PROVE  Ownership'
<1>0. StoreTypeOK'
  BY NextType
<1>1. \A c \in Builders : (work'[c] = Absent) <=> (bpc'[c] \in {"idle", "scan"})
  BY Locality, OwnWork DEF Ownership
<1>2. \A c \in Builders : work'[c] # Absent => work'[c].generation \in used'
  BY Locality, OwnWork DEF Ownership, GenOf
<1>3. ASSUME NEW c \in Builders, NEW d \in Builders, c # d,
             work'[c] # Absent, work'[d] # Absent
      PROVE  work'[c].generation # work'[d].generation
  <2>1. CASE c # b /\ d # b
    BY <1>3, <2>1, Locality DEF Ownership, GenOf
  <2>2. CASE c = b
    BY <1>3, <2>2, Locality, OwnWork DEF Ownership, GenOf
  <2>3. CASE d = b
    BY <1>3, <2>3, Locality, OwnWork DEF Ownership, GenOf
  <2> QED
    BY <2>1, <2>2, <2>3
<1>4. ASSUME NEW g \in Generations \ used'
      PROVE  snap'[g] = NoFiles /\ temp'[g] = Absent
  <2>1. g \in Generations \ used /\ snap[g] = NoFiles /\ temp[g] = Absent
    BY Locality DEF Ownership
  <2>2. work[b] # Absent => g # GenOf(b)
    BY <2>1 DEF Ownership
  <2> QED
    BY <2>1, <2>2, Locality
<1> QED
  BY <1>1, <1>2, <1>3, <1>4 DEF Ownership, GenOf

\* Another builder's step does not disturb how far a builder has got.
LEMMA ProgressOfOthers ==
    ASSUME StoreTypeOK, Ownership, Progress, NEW b \in Builders, BuilderNext(b),
           NEW c \in Builders, c # b, bpc[c] \notin {"idle", "scan"}
    PROVE  /\ bpc'[c] = bpc[c] /\ work'[c] = work[c]
           /\ snap'[GenOf(c)] = snap[GenOf(c)]
           /\ temp'[GenOf(c)] = temp[GenOf(c)]
<1>1. work[c] # Absent /\ GenOf(c) \in Generations
  BY WorkFacts
<1>2. work[b] # Absent => GenOf(c) # GenOf(b)
  BY <1>1 DEF Ownership
<1> QED
  BY <1>1, <1>2, Locality

\* Every step leaves behind it the files that the later phases of the build rely
\* on, and never those of another build.
LEMMA NextProgress ==
    ASSUME StoreTypeOK, Ownership, Progress, NEW b \in Builders, BuilderNext(b)
    PROVE  Progress'
<1>1. ASSUME NEW c \in Builders, c # b PROVE ProgressOf(c)'
  <2>1. CASE bpc[c] \in {"idle", "scan"}
    <3>1. bpc'[c] \in {"idle", "scan"}
      BY <1>1, <2>1, Locality
    <3> QED
      BY <3>1 DEF ProgressOf, After
  <2>2. CASE bpc[c] \notin {"idle", "scan"}
    <3>1. /\ bpc'[c] = bpc[c] /\ work'[c] = work[c] /\ GenOf(c)' = GenOf(c)
          /\ snap'[GenOf(c)] = snap[GenOf(c)]
          /\ temp'[GenOf(c)] = temp[GenOf(c)]
      BY <1>1, <2>2, ProgressOfOthers DEF GenOf
    <3>2. ProgressOf(c)
      BY DEF Progress
    <3> QED
      BY <3>1, <3>2 DEF ProgressOf, After, Embedded, Complete, GenOf
  <2> QED
    BY <2>1, <2>2
<1>2. ProgressOf(b)'
  <2>0. ProgressOf(b)
    BY DEF Progress
  <2> USE DEF Goto, Leave, After
  <2>1. CASE \/ BuildBegin(b) \/ ScanRaises(b) \/ ReturnMetadata(b) \/ UnlinkRaises(b)
             \/ BuildRaises(b) \/ RemoveSnapshot(b) \/ BuilderDies(b) \/ ReplaceManifest(b)
    <3>1. bpc'[b] \in {"idle", "scan", "unlink", "cleanup"}
      BY <2>1 DEF BuildBegin, ScanRaises, ReturnMetadata, UnlinkRaises, BuildRaises,
         RemoveSnapshot, BuilderDies, ReplaceManifest, StoreTypeOK
    <3> QED
      BY <3>1 DEF ProgressOf
  <2>2. CASE ScanCorpus(b)
    <3>1. PICK g \in Generations \ used, c \in Contents :
            work' = [work EXCEPT ![b] = [generation |-> g, content |-> c,
                                         backend |-> "none", degraded |-> FALSE]]
      BY <2>2 DEF ScanCorpus
    <3>2. /\ work'[b].generation = g /\ work'[b].backend = "none"
          /\ work'[b].degraded = FALSE
      BY <3>1 DEF StoreTypeOK
    <3>3. snap'[g]["vectors"] = Absent /\ bpc'[b] = "chunks"
      BY <2>2 DEF ScanCorpus, Ownership, NoFiles, Files, StoreTypeOK
    <3> QED
      BY <3>2, <3>3 DEF ProgressOf, GenOf
  <2>3. ASSUME bpc[b] \notin {"idle", "scan"}, work' = work, NEW f \in Files, NEW value,
               WriteFile(GenOf(b), f, value)
        PROVE  /\ GenOf(b)' = GenOf(b) /\ snap'[GenOf(b)][f] = value
               /\ \A e \in Files \ {f} : snap'[GenOf(b)][e] = snap[GenOf(b)][e]
    BY <2>3, WorkFacts DEF WriteFile, StoreTypeOK, GenOf
  <2>4. CASE OpenFile(b)
    <3>1. bpc[b] \in Files /\ bpc' = bpc /\ work' = work
          /\ WriteFile(GenOf(b), bpc[b], Torn)
      BY <2>4 DEF OpenFile
    <3>2. /\ GenOf(b)' = GenOf(b)
          /\ \A e \in Files \ {bpc[b]} : snap'[GenOf(b)][e] = snap[GenOf(b)][e]
      BY <2>3, <3>1 DEF Files
    <3> QED
      BY <2>0, <3>1, <3>2 DEF ProgressOf, Files, Embedded
  <2>5. CASE WriteChunks(b)
    BY <2>0, <2>3, <2>5 DEF WriteChunks, ProgressOf, Files, StoreTypeOK
  <2>6. CASE WriteLexical(b)
    BY <2>0, <2>3, <2>6 DEF WriteLexical, ProgressOf, Files, StoreTypeOK
  <2>7. CASE SkipEmbedding(b)
    <3>1. Embedded(b)'
      BY <2>0, <2>7 DEF SkipEmbedding, ProgressOf, Embedded, WellFormed, GenOf
    <3> QED
      BY <2>0, <2>7, <3>1 DEF SkipEmbedding, ProgressOf, StoreTypeOK, GenOf
  <2>8. CASE EmbedCorpus(b)
    <3>1. PICK s \in ScorerOutcomes(requested[b]) :
            work' = [work EXCEPT ![b].backend = s.backend, ![b].degraded = s.degraded]
      BY <2>8 DEF EmbedCorpus
    <3>2. s.backend \in Stored \ {"none"}
      BY <2>8, ScorerOutcomesType DEF EmbedCorpus, StoreTypeOK
    <3>3. work'[b] = [work[b] EXCEPT !.backend = s.backend, !.degraded = s.degraded]
      BY <3>1 DEF StoreTypeOK
    <3>4. /\ work'[b].generation = GenOf(b) /\ work'[b].content = work[b].content
          /\ work'[b].backend = s.backend /\ work'[b].degraded = s.degraded
      BY <2>8, <3>3, WorkFacts DEF EmbedCorpus, Metadata, GenOf
    <3>5. WellFormed(work'[b])
      BY <2>8, <3>1, <3>4 DEF EmbedCorpus, WellFormed, StoreTypeOK
    <3>6. bpc'[b] = "vectors" /\ snap' = snap
      BY <2>8 DEF EmbedCorpus, StoreTypeOK
    <3> QED
      BY <2>0, <2>8, <3>2, <3>4, <3>5, <3>6 DEF EmbedCorpus, ProgressOf, GenOf
  <2>9. CASE WriteVectors(b)
    <3>1. /\ bpc'[b] = "meta" /\ work' = work /\ GenOf(b)' = GenOf(b)
          /\ snap'[GenOf(b)]["vectors"] =
               [content |-> work[b].content, backend |-> work[b].backend]
          /\ snap'[GenOf(b)]["chunks"] = snap[GenOf(b)]["chunks"]
          /\ snap'[GenOf(b)]["lexical"] = snap[GenOf(b)]["lexical"]
      BY <2>3, <2>9 DEF WriteVectors, Files, StoreTypeOK
    <3> QED
      BY <2>0, <2>9, <3>1 DEF WriteVectors, ProgressOf, Embedded
  <2>10. CASE WriteSnapshotMeta(b)
    <3>1. /\ bpc'[b] = "temp" /\ work' = work /\ GenOf(b)' = GenOf(b)
          /\ snap'[GenOf(b)]["meta"] = work[b]
          /\ \A e \in Files \ {"meta"} : snap'[GenOf(b)][e] = snap[GenOf(b)][e]
      BY <2>3, <2>10 DEF WriteSnapshotMeta, Files, StoreTypeOK
    <3>2. Embedded(b)
      BY <2>0, <2>10 DEF WriteSnapshotMeta, ProgressOf
    <3> QED
      BY <2>0, <2>10, <3>1, <3>2
         DEF WriteSnapshotMeta, ProgressOf, Embedded, Complete, Files, GenOf
  <2>11. CASE OpenTemp(b)
    BY <2>0, <2>11 DEF OpenTemp, ProgressOf, Complete, GenOf
  <2>12. CASE WriteTemp(b)
    <3>1. temp'[GenOf(b)] = work[b]
      BY <2>12, WorkFacts DEF WriteTemp, StoreTypeOK
    <3> QED
      BY <2>0, <2>12, <3>1 DEF WriteTemp, ProgressOf, Complete, GenOf, StoreTypeOK
  <2> QED
    BY <2>1, <2>2, <2>4, <2>5, <2>6, <2>7, <2>8, <2>9, <2>10, <2>11, <2>12 DEF BuilderNext
<1> QED
  BY <1>1, <1>2 DEF Progress

\* A generation that is published, or belongs to nobody, is out of the reach of
\* every step of a build.
LEMMA PublishedUntouched ==
    ASSUME StoreInv, NEW b \in Builders, BuilderNext(b), NEW m \in published
    PROVE  snap'[m.generation] = snap[m.generation]
<1> USE DEF StoreInv, BuildInv
<1>1. m.generation \in Generations
  BY DEF StoreTypeOK, Metadata
<1>2. CASE work[b] # Absent /\ GenOf(b) = m.generation
  <2>1. bpc[b] = "unlink"
    BY <1>2 DEF Settled
  <2>2. snap' = snap
    BY <2>1 DEF BuilderNext, BuildBegin, ScanCorpus, ScanRaises, OpenFile, WriteChunks,
       WriteLexical, SkipEmbedding, EmbedCorpus, WriteVectors, WriteSnapshotMeta,
       OpenTemp, WriteTemp, ReplaceManifest, ReturnMetadata, UnlinkRaises,
       BuildRaises, RemoveSnapshot, BuilderDies, Files, Try
  <2> QED
    BY <2>2
<1>3. CASE ~(work[b] # Absent /\ GenOf(b) = m.generation)
  BY <1>1, <1>3, Locality
<1> QED
  BY <1>2, <1>3

\* os.replace is the only step that publishes, and what it publishes is whole;
\* a clean-up that raises is the only step that withdraws.
LEMMA Publishing ==
    ASSUME BuildInv, NEW b \in Builders, BuilderNext(b)
    PROVE  \/ manifest' = manifest /\ published' = published
           \/ /\ manifest' = manifest /\ published' = published \ {work[b]}
              /\ bpc[b] = "unlink" /\ bpc'[b] = "cleanup"
              /\ snap' = snap /\ work' = work /\ used' = used
           \/ /\ manifest' = work[b] /\ published' = published \cup {work[b]}
              /\ bpc[b] = "replace" /\ bpc'[b] = "unlink"
              /\ snap' = snap /\ work' = work /\ used' = used
              /\ work[b] \in Metadata /\ GenOf(b) \in used
              /\ Complete(work[b]) /\ WellFormed(work[b])
<1> USE DEF BuildInv
<1>1. CASE ReplaceManifest(b)
  <2>1. bpc[b] = "replace"
    BY <1>1 DEF ReplaceManifest
  <2>2. ProgressOf(b)
    BY DEF Progress
  <2>3. temp[GenOf(b)] = work[b] /\ Complete(work[b]) /\ WellFormed(work[b])
    BY <2>1, <2>2 DEF ProgressOf, After
  <2>4. work[b] \in Metadata /\ GenOf(b) \in used
    BY <2>1, WorkFacts
  <2> QED
    BY <1>1, <2>1, <2>3, <2>4 DEF ReplaceManifest, Goto, StoreTypeOK
<1>2. CASE UnlinkRaises(b)
  BY <1>2 DEF UnlinkRaises, Goto, StoreTypeOK
<1>3. CASE ~ReplaceManifest(b) /\ ~UnlinkRaises(b)
  BY <1>3 DEF BuilderNext, BuildBegin, ScanCorpus, ScanRaises, OpenFile, WriteChunks,
     WriteLexical, SkipEmbedding, EmbedCorpus, WriteVectors, WriteSnapshotMeta,
     OpenTemp, WriteTemp, ReturnMetadata, BuildRaises, RemoveSnapshot, BuilderDies
<1> QED
  BY <1>1, <1>2, <1>3

\* No step of any build damages a snapshot that stays published.
LEMMA NextPublished ==
    ASSUME StoreInv, NEW b \in Builders, BuilderNext(b)
    PROVE  PublishedComplete'
<1>1. ASSUME NEW m \in published PROVE Complete(m)'
  <2>1. Complete(m)
    BY DEF StoreInv, BuildInv, PublishedComplete
  <2> QED
    BY <2>1, PublishedUntouched DEF Complete
<1>2. ASSUME NEW m \in published', m \notin published PROVE Complete(m)'
  BY <1>2, Publishing DEF Complete, StoreInv
<1> QED
  BY <1>1, <1>2 DEF PublishedComplete

\* A published generation is left alone: the one build that may still be in it
\* has only its temporary manifest to unlink.
LEMMA NextSettled ==
    ASSUME StoreInv, NEW b \in Builders, BuilderNext(b)
    PROVE  Settled'
<1> USE DEF StoreInv, BuildInv
<1>0. Ownership'
  BY NextOwnership
<1>2. ASSUME NEW m \in published' PROVE m.generation \in used'
  BY Publishing, Locality DEF Settled, GenOf
<1>3. ASSUME NEW m \in published', NEW c \in Builders,
             work'[c] # Absent, work'[c].generation = m.generation
      PROVE  bpc'[c] = "unlink" /\ work'[c] = m
  <2>1. CASE m \notin published
    <3>1. bpc'[b] = "unlink" /\ m = work[b] /\ work' = work /\ bpc[b] = "replace"
      BY <2>1, Publishing
    <3>2. c = b
      BY <1>3, <3>1, WorkFacts DEF Ownership, GenOf
    <3> QED
      BY <3>1, <3>2
  <2>2. CASE m \in published /\ c # b
    BY <1>3, <2>2, Locality DEF Settled, GenOf
  <2>3. CASE m \in published /\ c = b
    <3>1. m.generation \in used
      BY <2>3 DEF Settled
    <3>2. work[b] # Absent /\ work'[b].generation = GenOf(b)
      BY <1>3, <2>3, <3>1, OwnWork
    <3>3. bpc[b] = "unlink" /\ work[b] = m
      BY <1>3, <2>3, <3>2 DEF Settled
    <3>4. ~UnlinkRaises(b)
      BY <1>3, <3>3 DEF UnlinkRaises
    <3>5. ReturnMetadata(b) \/ BuilderDies(b)
      BY <3>3, <3>4 DEF BuilderNext, BuildBegin, ScanCorpus, ScanRaises, OpenFile, WriteChunks,
         WriteLexical, SkipEmbedding, EmbedCorpus, WriteVectors, WriteSnapshotMeta,
         OpenTemp, WriteTemp, ReplaceManifest, BuildRaises, RemoveSnapshot, Files, Try
    <3>6. work'[b] = Absent
      BY <3>5 DEF ReturnMetadata, BuilderDies, Leave, StoreTypeOK
    <3> QED
      BY <1>3, <2>3, <3>6
  <2> QED
    BY <2>1, <2>2, <2>3
<1> QED
  BY <1>2, <1>3 DEF Settled, GenOf

-----------------------------------------------------------------------------
\* The invariant holds of the directory before any build.
LEMMA InitInv == StoreInit => StoreInv
<1> SUFFICES ASSUME StoreInit PROVE StoreInv
  OBVIOUS
<1>1. StoreTypeOK
  BY InitType
<1>2. Ownership
  BY DEF StoreInit, Ownership
<1>3. Progress
  BY DEF StoreInit, Progress, ProgressOf, After
<1>4. Settled /\ PublishedComplete
  BY DEF StoreInit, Settled, PublishedComplete
<1> QED
  BY <1>1, <1>2, <1>3, <1>4 DEF StoreInv, BuildInv

\* The part of the invariant about running builds is inductive on its own.
LEMMA NextBuildInv ==
    ASSUME BuildInv, [StoreNext]_storeVars PROVE BuildInv'
<1>1. CASE UNCHANGED storeVars
  BY <1>1 DEF storeVars, BuildInv, StoreTypeOK, Ownership, Progress, ProgressOf,
     Complete, Embedded, After, GenOf
<1>2. ASSUME NEW b \in Builders, BuilderNext(b) PROVE BuildInv'
  BY <1>2, NextType, NextOwnership, NextProgress DEF BuildInv
<1> QED
  BY <1>1, <1>2 DEF StoreNext

\* The whole invariant is inductive.
LEMMA NextInv ==
    ASSUME StoreInv, [StoreNext]_storeVars PROVE StoreInv'
<1>0. BuildInv'
  BY NextBuildInv DEF StoreInv
<1>1. CASE UNCHANGED storeVars
  BY <1>0, <1>1 DEF storeVars, StoreInv, Settled, PublishedComplete, Complete, GenOf
<1>2. ASSUME NEW b \in Builders, BuilderNext(b) PROVE StoreInv'
  BY <1>0, <1>2, NextSettled, NextPublished DEF StoreInv
<1> QED
  BY <1>1, <1>2 DEF StoreNext

\* Builds keep to their own generations and leave behind them only the files
\* their metadata describes.
THEOREM BuildInvariant == StoreSpec => []BuildInv
<1>1. StoreInit => BuildInv
  BY InitInv DEF StoreInv
<1>2. BuildInv /\ [StoreNext]_storeVars => BuildInv'
  BY NextBuildInv
<1> QED
  BY <1>1, <1>2, PTL DEF StoreSpec

\* Type correctness of the index directory and of every builder's locals.
THEOREM StoreTypeCorrect == StoreSpec => []StoreTypeOK
<1>1. BuildInv => StoreTypeOK
  BY DEF BuildInv
<1> QED
  BY <1>1, BuildInvariant, PTL

\* meta.json changes only in publish_manifest's os.replace, and then to the
\* manifest of a snapshot that is whole at that moment.
THEOREM SwitchesAreSafe == StoreSpec => SwitchesToComplete
<1>1. ASSUME BuildInv, [StoreNext]_storeVars
      PROVE  [manifest' # manifest => (manifest' \in Metadata /\ ActiveComplete')]_storeVars
  <2>1. ASSUME NEW b \in Builders, BuilderNext(b), manifest' # manifest
        PROVE  manifest' \in Metadata /\ ActiveComplete'
    BY <1>1, <2>1, Publishing DEF ActiveComplete, Complete
  <2> QED
    BY <1>1, <2>1 DEF StoreNext, storeVars
<1> QED
  BY <1>1, BuildInvariant, PTL DEF StoreSpec, SwitchesToComplete

\* The whole inductive invariant: besides, no running build owns a published
\* generation, except the one that has just switched to it.
THEOREM StoreInvariant == StoreSpec => []StoreInv
<1>1. StoreInv /\ [StoreNext]_storeVars => StoreInv'
  BY NextInv
<1> QED
  BY <1>1, InitInv, PTL DEF StoreSpec

\* Whatever builds run, fail or are killed, and in whatever order, every
\* generation that meta.json ever named stays whole on disk, unless the build
\* that published it fails itself after os.replace.
THEOREM PublishedStaysComplete == StoreSpec => []PublishedComplete
<1>1. StoreInv => PublishedComplete
  BY DEF StoreInv, BuildInv
<1> QED
  BY <1>1, StoreInvariant, PTL

\* build_index and publish_manifest implement the abstract snapshot store:
\* meta.json switches in one step to a whole snapshot under a new name, and no
\* snapshot leaves the set of whole published ones but by the failure of the
\* build that published it.
THEOREM StoreImplementsSnapshots == StoreSpec => ImplementsSnapshotStore
<1> DEFINE whole == {m \in published : Complete(m)}
<1>1. StoreInit => Snapshots!SnapshotInit
  BY DEF StoreInit, Snapshots!SnapshotInit
<1>2. ASSUME StoreInv, StoreInv', [StoreNext]_storeVars
      PROVE  [Snapshots!SnapshotNext]_(Snapshots!snapshotVars)
  <2>1. whole = published /\ whole' = published'
    BY <1>2 DEF StoreInv, BuildInv, PublishedComplete
  <2>2. CASE manifest' = manifest /\ published' = published
    BY <2>1, <2>2 DEF Snapshots!snapshotVars
  <2>3. ASSUME NEW b \in Builders, manifest' = manifest,
               published' = published \ {work[b]}, published' # published
        PROVE  Snapshots!SnapshotNext
    <3>1. work[b] \in published /\ work[b] \in Metadata
      BY <1>2, <2>3 DEF StoreInv, BuildInv, StoreTypeOK
    <3>2. Snapshots!Withdraw(work[b])
      BY <2>1, <2>3, <3>1 DEF Snapshots!Withdraw
    <3> QED
      BY <3>1, <3>2 DEF Snapshots!SnapshotNext, Snapshots!Metadata, Metadata,
         Snapshots!Stored, Stored
  <2>4. ASSUME NEW b \in Builders, BuilderNext(b),
               ~(manifest' = manifest /\ published' = published),
               ~(manifest' = manifest /\ published' = published \ {work[b]})
        PROVE  Snapshots!SnapshotNext
    <3>1. /\ manifest' = work[b] /\ published' = published \cup {work[b]}
          /\ bpc[b] = "replace" /\ work[b] \in Metadata /\ WellFormed(work[b])
      BY <1>2, <2>4, Publishing DEF StoreInv
    <3>2. \A m \in published : m.generation # work[b].generation
      BY <1>2, <3>1, FormatAssumption DEF StoreInv, BuildInv, Settled, GenOf
    <3>3. Snapshots!Publish(work[b])
      BY <2>1, <3>1, <3>2 DEF Snapshots!Publish, Snapshots!Names, Snapshots!WellFormed,
         Snapshots!ScorerOutcomes, Snapshots!Requested, WellFormed, ScorerOutcomes, Requested
    <3> QED
      BY <3>1, <3>3 DEF Snapshots!SnapshotNext, Snapshots!Metadata, Metadata,
         Snapshots!Stored, Stored
  <2> QED
    BY <1>2, <2>2, <2>3, <2>4 DEF StoreNext, storeVars
<1> QED
  BY <1>1, <1>2, StoreInvariant, PTL DEF StoreSpec, ImplementsSnapshotStore,
     Snapshots!SnapshotSpec
=============================================================================
