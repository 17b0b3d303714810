------------------------- MODULE QueryServiceProofs -------------------------
(***************************************************************************)
(* Proofs about QueryService, for any number of threads, generations and   *)
(* requests and for caches of any size.                                    *)
(***************************************************************************)
EXTENDS QueryService, SequenceTheorems, FiniteSetTheorems, TLAPS

-----------------------------------------------------------------------------
(* The lru_cache tables. *)

\* Looking a key up finds an entry with that key.
LEMMA LookupFinds ==
    ASSUME NEW S, NEW cache \in Seq(S), NEW k \in Keys(cache)
    PROVE  Lookup(cache, k) \in 1..Len(cache) /\ cache[Lookup(cache, k)].key = k
BY DEF Keys, Lookup

\* A hit moves its entry to the front and changes nothing else: no entry is
\* lost, invented or doubled.
LEMMA TouchKeeps ==
    ASSUME NEW S, NEW cache \in Seq(S), NEW k \in Keys(cache)
    PROVE  /\ Touch(cache, k) \in Seq(S)
           /\ Len(Touch(cache, k)) = Len(cache)
           /\ Len(cache) > 0
           /\ Touch(cache, k)[1].key = k
           /\ \A i \in DOMAIN Touch(cache, k) : \E j \in DOMAIN cache : Touch(cache, k)[i] = cache[j]
           /\ DistinctKeys(cache) => DistinctKeys(Touch(cache, k))
<1> DEFINE l == Lookup(cache, k)
           before == SubSeq(cache, 1, l - 1)
           after == SubSeq(cache, l + 1, Len(cache))
           rest == before \o after
           new == <<cache[l]>> \o rest
           Old(i) == IF i = 1 THEN l ELSE IF i <= l THEN i - 1 ELSE i
<1>1. l \in 1..Len(cache) /\ cache[l].key = k
  BY LookupFinds
<1> HIDE DEF l
<1>2. /\ before \in Seq(S) /\ Len(before) = l - 1
      /\ \A i \in 1..(l - 1) : before[i] = cache[i]
  BY <1>1, SubSeqProperties
<1>3. /\ after \in Seq(S) /\ Len(after) = Len(cache) - l
      /\ \A i \in 1..(Len(cache) - l) : after[i] = cache[l + i]
  BY <1>1, SubSeqProperties
<1> HIDE DEF before, after
<1>4. /\ rest \in Seq(S) /\ Len(rest) = Len(cache) - 1
      /\ \A i \in 1..(Len(cache) - 1) : rest[i] = IF i <= l - 1 THEN cache[i] ELSE cache[i + 1]
  <2>1. /\ rest \in Seq(S) /\ Len(rest) = Len(before) + Len(after)
        /\ \A i \in 1..(Len(before) + Len(after)) :
             rest[i] = IF i <= Len(before) THEN before[i] ELSE after[i - Len(before)]
    BY <1>2, <1>3, ConcatProperties
  <2> HIDE DEF rest
  <2>0. Len(before) = l - 1 /\ Len(after) = Len(cache) - l /\ (l - 1) + (Len(cache) - l) = Len(cache) - 1
    BY <1>1, <1>2, <1>3
  <2>2. /\ Len(rest) = Len(cache) - 1
        /\ \A i \in 1..(Len(cache) - 1) :
             rest[i] = IF i <= l - 1 THEN before[i] ELSE after[i - (l - 1)]
    BY <2>0, <2>1, Zenon
  <2>3. ASSUME NEW i \in 1..(Len(cache) - 1)
        PROVE  rest[i] = IF i <= l - 1 THEN cache[i] ELSE cache[i + 1]
    <3>1. CASE i <= l - 1
      BY <3>1, <2>2, <1>1, <1>2
    <3>2. CASE i > l - 1
      <4>1. i - (l - 1) \in 1..(Len(cache) - l) /\ l + (i - (l - 1)) = i + 1
        BY <3>2, <1>1
      <4>2. rest[i] = after[i - (l - 1)]
        BY <3>2, <2>2, <1>1
      <4> QED
        BY <4>1, <4>2, <1>3, <3>2, <1>1
    <3> QED
      BY <3>1, <3>2, <1>1
  <2> QED
    BY <2>1, <2>2, <2>3
<1> HIDE DEF rest
<1>5. /\ new \in Seq(S) /\ Len(new) = Len(cache)
      /\ \A i \in 1..Len(cache) : Old(i) \in 1..Len(cache) /\ new[i] = cache[Old(i)]
  <2>1. cache[l] \in S /\ <<cache[l]>> \in Seq(S) /\ Len(<<cache[l]>>) = 1 /\ <<cache[l]>>[1] = cache[l]
    BY <1>1
  <2>2. /\ new \in Seq(S) /\ Len(new) = 1 + (Len(cache) - 1)
        /\ \A i \in 1..Len(cache) : new[i] = IF i <= 1 THEN cache[l] ELSE rest[i - 1]
    BY <2>1, <1>4, ConcatProperties
  <2> HIDE DEF new
  <2> QED
    BY <2>2, <1>1, <1>4
<1>6. Touch(cache, k) = new
  BY DEF Touch, RemoveAt, l, new, rest, before, after
<1> HIDE DEF new
<1>7. DistinctKeys(cache) => DistinctKeys(new)
  <2> SUFFICES ASSUME DistinctKeys(cache), NEW i \in 1..Len(cache), NEW j \in 1..Len(cache),
                      new[i].key = new[j].key
               PROVE  i = j
    BY <1>5 DEF DistinctKeys
  <2>1. Old(i) \in 1..Len(cache) /\ Old(j) \in 1..Len(cache) /\ cache[Old(i)].key = cache[Old(j)].key
    BY <1>5
  <2>2. Old(i) = Old(j)
    BY <2>1 DEF DistinctKeys
  <2> QED
    BY <2>2, <1>1
<1> QED
  BY <1>5, <1>6, <1>7, <1>1, SMTT(30)

\* An insertion keeps the table within its bound, keeps its keys distinct, and
\* adds nothing but the entry given.
LEMMA InsertKeeps ==
    ASSUME NEW S, NEW cache \in Seq(S), NEW k, NEW v, [key |-> k, value |-> v] \in S,
           DistinctKeys(cache), Len(cache) <= CacheSize
    PROVE  /\ Insert(cache, k, v) \in Seq(S)
           /\ Len(Insert(cache, k, v)) <= CacheSize
           /\ DistinctKeys(Insert(cache, k, v))
           /\ \A i \in DOMAIN Insert(cache, k, v) :
                \/ Insert(cache, k, v)[i] = [key |-> k, value |-> v]
                \/ \E j \in DOMAIN cache : Insert(cache, k, v)[i] = cache[j]
<1>1. CASE k \in Keys(cache)
  BY <1>1 DEF Insert
<1>2. CASE k \notin Keys(cache)
  <2> DEFINE e == [key |-> k, value |-> v]
             all == <<e>> \o cache
             n == IF Len(cache) < CacheSize THEN Len(cache) + 1 ELSE CacheSize
             new == SubSeq(all, 1, n)
  <2>1. CacheSize \in Nat \ {0} /\ Len(cache) \in Nat /\ n \in Nat /\ n <= Len(cache) + 1 /\ n <= CacheSize
    BY QueryAssumption
  <2>2. e \in S /\ <<e>> \in Seq(S) /\ Len(<<e>>) = 1 /\ <<e>>[1] = e /\ e.key = k
    OBVIOUS
  <2> HIDE DEF e, n
  <2>3. /\ all \in Seq(S) /\ Len(all) = Len(cache) + 1
        /\ \A i \in 1..(Len(cache) + 1) : all[i] = IF i <= 1 THEN e ELSE cache[i - 1]
    BY <2>2, ConcatProperties
  <2> HIDE DEF all
  <2>4. /\ new \in Seq(S) /\ Len(new) = n
        /\ \A i \in 1..n : new[i] = IF i = 1 THEN e ELSE cache[i - 1]
    BY <2>1, <2>3, SubSeqProperties
  <2>5. Insert(cache, k, v) = new
    BY <1>2 DEF Insert, new, all, n, e
  <2> HIDE DEF new
  <2>6. \A i \in 1..n : new[i] = e \/ \E j \in DOMAIN cache : new[i] = cache[j]
    BY <2>1, <2>4
  <2>7. DistinctKeys(new)
    <3> SUFFICES ASSUME NEW i \in 1..n, NEW j \in 1..n, new[i].key = new[j].key
                 PROVE  i = j
      BY <2>4 DEF DistinctKeys
    <3>1. \A m \in 1..Len(cache) : cache[m].key # k
      BY <1>2 DEF Keys
    <3>2. CASE i = 1 \/ j = 1
      BY <3>1, <3>2, <2>1, <2>2, <2>4
    <3>3. CASE i # 1 /\ j # 1
      <4>1. i - 1 \in 1..Len(cache) /\ j - 1 \in 1..Len(cache)
        BY <3>3, <2>1
      <4>2. cache[i - 1].key = cache[j - 1].key
        BY <3>3, <2>4
      <4> QED
        BY <4>1, <4>2, <2>1 DEF DistinctKeys
    <3> QED
      BY <3>2, <3>3
  <2> QED
    BY <2>1, <2>4, <2>5, <2>6, <2>7 DEF e
<1> QED
  BY <1>1, <1>2

\* A table with distinct keys has as many keys as entries.
LEMMA KeysCounted ==
    ASSUME NEW S, NEW cache \in Seq(S), DistinctKeys(cache)
    PROVE  Cardinality(Keys(cache)) = Len(cache)
<1> DEFINE f == [i \in 1..Len(cache) |-> cache[i].key]
<1>1. f \in Bijection(1..Len(cache), Keys(cache))
  BY DEF Keys, DistinctKeys, Bijection, Injection, Surjection, IsInjective
<1>2. IsFiniteSet(1..Len(cache)) /\ Cardinality(1..Len(cache)) = Len(cache)
  <2>1. Len(cache) \in Nat
    OBVIOUS
  <2> QED
    BY <2>1, FS_Interval
<1> HIDE DEF f
<1> QED
  BY <1>1, <1>2, FS_Bijection DEF ExistsBijection

-----------------------------------------------------------------------------
(* The initial states. *)

\* Before the first call and the first build the invariant holds.
LEMMA QueryInitInv == QueryInit => QueryInv
<1> SUFFICES ASSUME QueryInit PROVE QueryInv
  OBVIOUS
<1>1. QueryTypeOK
  <2>1. NoAnswer \in Answer /\ NoRequest \in Request
    BY DEF NoAnswer, Answer, Rows, NoRequest, Request, Stored, Requested
  <2> QED
    BY <2>1, QueryAssumption, FormatAssumption
    DEF QueryInit, SnapshotInit, QueryTypeOK, Manifests, Rows, QueryPhases, Entry
<1>2. DirectoryInv
  BY FormatAssumption DEF QueryInit, SnapshotInit, DirectoryInv
<1>3. CacheInv
  BY QueryAssumption DEF QueryInit, CacheInv, DistinctKeys
<1>4. ASSUME NEW t \in Threads PROVE PinInv(t) /\ LoadInv(t) /\ AnswerInv(t)
  BY DEF QueryInit, PinInv, LoadInv, AnswerInv
<1> QED
  BY <1>1, <1>2, <1>3, <1>4 DEF QueryInv

-----------------------------------------------------------------------------
(* One step of a thread. *)

\* What a thread has resolved is the metadata of a build, or nothing.
LEMMA PathFacts ==
    ASSUME QueryTypeOK, NEW t \in Threads
    PROVE  /\ man[t] = Absent => Path(t) = Absent /\ StoredBackend(t) = "none"
           /\ man[t] # Absent => /\ man[t] \in Metadata
                                 /\ Path(t) = man[t].generation /\ Path(t) \in Generations
                                 /\ Path(t) # Absent
                                 /\ StoredBackend(t) = man[t].backend
                                 /\ man[t].content \in Contents /\ man[t].backend \in Stored
                                 /\ man[t].degraded \in BOOLEAN
                                 /\ VectorsOf(man[t]) \in Vectors
                                 /\ VectorsOf(man[t]) # Absent
           /\ Path(t) \in Generations \cup {Absent}
           /\ StoredBackend(t) \in Stored
BY QueryAssumption DEF QueryTypeOK, Metadata, Path, StoredBackend, VectorsOf, Vectors, Stored

\* The answers that calls end with are well typed.
LEMMA AnswerTypes ==
    ASSUME QueryTypeOK, NEW t \in Threads
    PROVE  /\ \A kind \in {"schema", "missing", "mismatch", "semantic"} :
                [NoAnswer EXCEPT !.error = kind] \in Answer
           /\ \A b \in Stored \cup {"disabled", "failed"}, v \in Vectors \cup {Absent},
                 why \in {"", "no vectors", "build", "exception"} :
                [error |-> "", generation |-> Path(t), rows |-> rows[t], vectors |-> v,
                 backend |-> b, reason |-> why] \in Answer
<1>1. Path(t) \in Generations \cup {Absent} /\ rows[t] \in Rows
  BY PathFacts DEF QueryTypeOK
<1> QED
  BY <1>1 DEF Answer, NoAnswer, Rows, Stored

\* So a call that ends, with an error or with results, keeps the types.
LEMMA EndingTypes ==
    ASSUME QueryTypeOK, NEW t \in Threads
    PROVE  /\ \A kind \in {"schema", "missing", "mismatch", "semantic"} : Raise(t, kind) =>
                ans' \in [Threads -> Answer] /\ rpc' \in [Threads -> QueryPhases]
           /\ \A b \in Stored \cup {"disabled", "failed"}, v \in Vectors \cup {Absent},
                 why \in {"", "no vectors", "build", "exception"} : Respond(t, b, v, why) =>
                ans' \in [Threads -> Answer] /\ rpc' \in [Threads -> QueryPhases]
           /\ SemanticFails(t) =>
                ans' \in [Threads -> Answer] /\ rpc' \in [Threads -> QueryPhases]
<1>1. ASSUME NEW kind \in {"schema", "missing", "mismatch", "semantic"}, Raise(t, kind)
      PROVE  ans' \in [Threads -> Answer] /\ rpc' \in [Threads -> QueryPhases]
  BY <1>1, AnswerTypes DEF Raise, Goto, QueryTypeOK, QueryPhases
<1>2. ASSUME NEW b \in Stored \cup {"disabled", "failed"}, NEW v \in Vectors \cup {Absent},
             NEW why \in {"", "no vectors", "build", "exception"}, Respond(t, b, v, why)
      PROVE  ans' \in [Threads -> Answer] /\ rpc' \in [Threads -> QueryPhases]
  BY <1>2, AnswerTypes DEF Respond, Goto, QueryTypeOK, QueryPhases
<1>3. SemanticFails(t) => ans' \in [Threads -> Answer] /\ rpc' \in [Threads -> QueryPhases]
  BY <1>1, <1>2 DEF SemanticFails
<1> QED
  BY <1>1, <1>2, <1>3

\* A step of one thread leaves the directory and the calls of the others alone.
LEMMA Locality ==
    ASSUME QueryTypeOK, NEW t \in Threads, ThreadNext(t)
    PROVE  /\ UNCHANGED disk
           /\ \A u \in Threads \ {t} :
                /\ rpc'[u] = rpc[u] /\ req'[u] = req[u] /\ man'[u] = man[u]
                /\ rows'[u] = rows[u] /\ vecs'[u] = vecs[u] /\ ans'[u] = ans[u]
                /\ window'[u] = window[u] /\ (u \in robbed' <=> u \in robbed)
<1> USE DEF disk, history, threadVars, caches, Goto, Raise, Respond, SemanticFails, QueryTypeOK
<1>1. CASE Submit(t)
  BY <1>1 DEF Submit
<1>2. CASE ReadManifest(t)
  BY <1>2 DEF ReadManifest
<1>3. CASE CheckSnapshot(t)
  BY <1>3 DEF CheckSnapshot
<1>4. CASE ClearCache(t)
  BY <1>4 DEF ClearCache
<1>5. CASE LookupBm25(t)
  BY <1>5 DEF LookupBm25
<1>6. CASE LoadChunks(t)
  BY <1>6 DEF LoadChunks
<1>7. CASE LoadLexical(t)
  BY <1>7 DEF LoadLexical
<1>8. CASE ReadLexical(t)
  BY <1>8 DEF ReadLexical
<1>9. CASE InsertBm25(t)
  BY <1>9 DEF InsertBm25
<1>10. CASE DecideSemantic(t)
  BY <1>10 DEF DecideSemantic
<1>11. CASE GetScorer(t)
  BY <1>11 DEF GetScorer
<1>12. CASE ScorerRaises(t)
  BY <1>12 DEF ScorerRaises
<1>13. CASE LookupVectors(t)
  BY <1>13 DEF LookupVectors
<1>14. CASE LoadVectors(t)
  BY <1>14 DEF LoadVectors
<1>15. CASE InsertVectors(t)
  BY <1>15 DEF InsertVectors
<1>16. CASE Rank(t)
  BY <1>16 DEF Rank
<1>17. CASE Return(t)
  BY <1>17 DEF Return
<1> QED
  BY <1>1, <1>2, <1>3, <1>4, <1>5, <1>6, <1>7, <1>8, <1>9, <1>10, <1>11, <1>12, <1>13,
     <1>14, <1>15, <1>16, <1>17 DEF ThreadNext

\* So their part of the invariant is not disturbed.
LEMMA OthersKeep ==
    ASSUME QueryInv, NEW t \in Threads, ThreadNext(t), NEW u \in Threads \ {t}
    PROVE  (PinInv(u) /\ LoadInv(u) /\ AnswerInv(u))'
<1>1. PinInv(u) /\ LoadInv(u) /\ AnswerInv(u) /\ QueryTypeOK
  BY DEF QueryInv
<1>2. /\ active' = active /\ snapshots' = snapshots /\ withdrawn' = withdrawn /\ files' = files
      /\ legacy' = legacy /\ rpc'[u] = rpc[u] /\ req'[u] = req[u] /\ man'[u] = man[u]
      /\ rows'[u] = rows[u] /\ vecs'[u] = vecs[u] /\ ans'[u] = ans[u]
      /\ window'[u] = window[u] /\ (u \in robbed' <=> u \in robbed)
  BY <1>1, Locality DEF disk
<1>3. Path(u)' = Path(u) /\ Wanted(u)' = Wanted(u) /\ View' = View
  BY <1>2 DEF Path, Wanted, View
<1>4. PinInv(u)'
  BY <1>1, <1>2, <1>3 DEF PinInv
<1>5. LoadInv(u)'
  BY <1>1, <1>2, <1>3 DEF LoadInv
<1>6. AnswerInv(u)'
  <2>1. \A v : NothingToRead(v)' <=> NothingToRead(v)
    BY <1>2 DEF NothingToRead
  <2> QED
    BY <1>1, <1>2, <1>3, <2>1 DEF AnswerInv
<1> QED
  BY <1>4, <1>5, <1>6

\* A step of a thread keeps the types.
LEMMA StepTypes ==
    ASSUME QueryInv, NEW t \in Threads, ThreadNext(t)
    PROVE  QueryTypeOK'
<1>0. QueryTypeOK /\ CacheInv /\ PinInv(t) /\ LoadInv(t)
  BY DEF QueryInv
<1> USE <1>0 DEF QueryTypeOK, disk, history, caches, Goto, Raise, QueryPhases
<1>1. CASE Submit(t)
  BY <1>1, QueryAssumption DEF Submit, View, Views
<1>2. CASE ReadManifest(t)
  <2>1. CASE active = Unsupported
    BY <1>2, <2>1, AnswerTypes, ZenonT(60) DEF ReadManifest
  <2>2. CASE active # Unsupported
    BY <1>2, <2>2, ZenonT(60) DEF ReadManifest, Manifests
  <2> QED
    BY <2>1, <2>2
<1>3. CASE CheckSnapshot(t)
  <2>1. CASE HasChunks(t)
    BY <1>3, <2>1 DEF CheckSnapshot
  <2>2. CASE ~HasChunks(t)
    BY <1>3, <2>2, AnswerTypes, ZenonT(60) DEF CheckSnapshot
  <2> QED
    BY <2>1, <2>2
<1>4. CASE ClearCache(t)
  BY <1>4, EmptySeq DEF ClearCache
<1>5. CASE LookupBm25(t)
  <2>1. CASE Path(t) \in Keys(bm25)
    <3>1. bm25' = Touch(bm25, Path(t)) /\ rows' = [rows EXCEPT ![t] = bm25'[1].value]
      BY <1>5, <2>1 DEF LookupBm25
    <3>2. bm25' \in Seq(Entry(Contents)) /\ Len(bm25') > 0
      BY <2>1, <3>1, TouchKeeps
    <3>3. bm25'[1].value \in Contents
      <4>1. bm25'[1] \in Entry(Contents)
        BY <3>2, ElementOfSeq
      <4> QED
        BY <4>1 DEF Entry
    <3> QED
      BY <1>5, <2>1, <3>1, <3>2, <3>3 DEF LookupBm25, Rows
  <2>2. CASE Path(t) \notin Keys(bm25)
    BY <1>5, <2>2 DEF LookupBm25
  <2> QED
    BY <2>1, <2>2
<1>6. CASE LoadChunks(t)
  BY <1>6, AnswerTypes, PathFacts DEF LoadChunks, Rows
<1>7. CASE LoadLexical(t)
  BY <1>7, AnswerTypes DEF LoadLexical
<1>8. CASE ReadLexical(t)
  <2>1. CASE "lexical" \in files[Path(t)]
    BY <1>8, <2>1 DEF ReadLexical
  <2>2. CASE "lexical" \notin files[Path(t)]
    BY <1>8, <2>2, AnswerTypes, ZenonT(60) DEF ReadLexical
  <2> QED
    BY <2>1, <2>2
<1>9. CASE InsertBm25(t)
  <2>1. [key |-> Path(t), value |-> rows[t]] \in Entry(Contents)
    BY <1>9, PathFacts DEF InsertBm25, LoadInv, Entry
  <2>2. Insert(bm25, Path(t), rows[t]) \in Seq(Entry(Contents))
    BY <2>1, InsertKeeps DEF CacheInv
  <2> QED
    BY <1>9, <2>2 DEF InsertBm25
<1>10. CASE DecideSemantic(t)
  <2>1. /\ UNCHANGED <<disk, caches, req, man, rows, vecs, history>>
        /\ ans' \in [Threads -> Answer] /\ rpc' \in [Threads -> QueryPhases]
    BY <1>10, EndingTypes DEF DecideSemantic
  <2> QED
    BY <2>1
<1>11. CASE GetScorer(t)
  BY <1>11, AnswerTypes DEF GetScorer
<1>12. CASE ScorerRaises(t)
  BY <1>12, EndingTypes DEF ScorerRaises
<1>13. CASE LookupVectors(t)
  <2>1. CASE Path(t) \in Keys(vectors)
    <3>1. vectors' = Touch(vectors, Path(t)) /\ vecs' = [vecs EXCEPT ![t] = vectors'[1].value]
      BY <1>13, <2>1 DEF LookupVectors
    <3>2. vectors' \in Seq(Entry(Vectors)) /\ Len(vectors') > 0
      BY <2>1, <3>1, TouchKeeps
    <3>3. vectors'[1].value \in Vectors
      <4>1. vectors'[1] \in Entry(Vectors)
        BY <3>2, ElementOfSeq
      <4> QED
        BY <4>1 DEF Entry
    <3> QED
      BY <1>13, <2>1, <3>1, <3>2, <3>3 DEF LookupVectors
  <2>2. CASE Path(t) \notin Keys(vectors)
    BY <1>13, <2>2 DEF LookupVectors
  <2> QED
    BY <2>1, <2>2
<1>14. CASE LoadVectors(t)
  <2>1. VectorsOf(man[t]) \in Vectors
    BY <1>14, PathFacts DEF LoadVectors, LoadInv
  <2>2. UNCHANGED <<disk, caches, req, man, rows, history>>
    BY <1>14 DEF LoadVectors
  <2>3. CASE "vectors" \in files[Path(t)]
    BY <1>14, <2>1, <2>2, <2>3 DEF LoadVectors, VectorsOf
  <2>4. CASE "vectors" \notin files[Path(t)]
    <3>1. SemanticFails(t) /\ vecs' = vecs
      BY <1>14, <2>4 DEF LoadVectors
    <3>2. ans' \in [Threads -> Answer] /\ rpc' \in [Threads -> QueryPhases]
      BY <3>1, EndingTypes
    <3> QED
      BY <2>2, <3>1, <3>2
  <2> QED
    BY <2>3, <2>4
<1>15. CASE InsertVectors(t)
  <2>1. vecs[t] \in Vectors
    BY <1>15, PathFacts DEF InsertVectors, LoadInv
  <2>2. [key |-> Path(t), value |-> vecs[t]] \in Entry(Vectors)
    BY <2>1, PathFacts DEF Entry
  <2>3. Insert(vectors, Path(t), vecs[t]) \in Seq(Entry(Vectors))
    BY <2>2, InsertKeeps DEF CacheInv
  <2> QED
    BY <1>15, <2>3 DEF InsertVectors
<1>16. CASE Rank(t)
  <2>1. vecs[t] \in Vectors \cup {Absent} /\ StoredBackend(t) \in Stored
    BY PathFacts
  <2>2. ans' \in [Threads -> Answer] /\ rpc' \in [Threads -> QueryPhases]
    BY <1>16, <2>1, EndingTypes DEF Rank
  <2> QED
    BY <1>16, <2>2 DEF Rank
<1>17. CASE Return(t)
  BY <1>17 DEF Return, NoRequest, NoAnswer, Request, Answer, Requested, Rows, Stored
<1> QED
  BY <1>1, <1>2, <1>3, <1>4, <1>5, <1>6, <1>7, <1>8, <1>9, <1>10, <1>11, <1>12, <1>13,
     <1>14, <1>15, <1>16, <1>17 DEF ThreadNext

\* Lookups, insertions and evictions, in any order, keep the caches coherent
\* with the snapshots.
LEMMA StepCaches ==
    ASSUME QueryInv, NEW t \in Threads, ThreadNext(t)
    PROVE  CacheInv'
<1>0. /\ QueryTypeOK /\ CacheInv /\ PinInv(t) /\ LoadInv(t)
      /\ bm25 \in Seq(Entry(Contents)) /\ vectors \in Seq(Entry(Vectors))
  BY DEF QueryInv, QueryTypeOK
<1>s. snapshots' = snapshots
  BY <1>0, Locality DEF disk
<1>k. UNCHANGED caches => CacheInv'
  BY <1>0, <1>s DEF CacheInv, DistinctKeys, caches
<1>1. CASE ClearCache(t)
  <2>1. bm25' = <<>> /\ vectors' = vectors
    BY <1>1 DEF ClearCache
  <2> QED
    BY <2>1, <1>0, <1>s, QueryAssumption DEF CacheInv, DistinctKeys
<1>2. CASE LookupBm25(t)
  <2>1. CASE Path(t) \in Keys(bm25)
    <3>1. bm25' = Touch(bm25, Path(t)) /\ vectors' = vectors
      BY <1>2, <2>1 DEF LookupBm25
    <3>2. /\ bm25' \in Seq(Entry(Contents)) /\ Len(bm25') = Len(bm25)
          /\ \A i \in DOMAIN bm25' : \E j \in DOMAIN bm25 : bm25'[i] = bm25[j]
          /\ DistinctKeys(bm25) => DistinctKeys(bm25')
      BY <1>0, <2>1, <3>1, TouchKeeps
    <3> QED
      BY <1>0, <1>s, <3>1, <3>2 DEF CacheInv, DistinctKeys
  <2>2. CASE Path(t) \notin Keys(bm25)
    BY <1>2, <2>2, <1>k DEF LookupBm25, caches
  <2> QED
    BY <2>1, <2>2
<1>3. CASE InsertBm25(t)
  <2>1. bm25' = Insert(bm25, Path(t), rows[t]) /\ vectors' = vectors
    BY <1>3 DEF InsertBm25
  <2>2. rows[t] \in Contents /\ (man[t] # Absent => man[t] \in snapshots /\ rows[t] = man[t].content)
    BY <1>0, <1>3 DEF InsertBm25, LoadInv, PinInv
  <2>3. [key |-> Path(t), value |-> rows[t]] \in Entry(Contents)
    BY <1>0, <2>2, PathFacts DEF Entry
  <2>4. /\ Len(bm25') <= CacheSize /\ DistinctKeys(bm25')
        /\ \A i \in DOMAIN bm25' : \/ bm25'[i] = [key |-> Path(t), value |-> rows[t]]
                                   \/ \E j \in DOMAIN bm25 : bm25'[i] = bm25[j]
    <3>1. /\ bm25 \in Seq(Entry(Contents)) /\ DistinctKeys(bm25) /\ Len(bm25) <= CacheSize
      BY <1>0 DEF CacheInv, QueryTypeOK
    <3> QED
      BY <2>1, <2>3, <3>1, InsertKeeps, SMTT(30)
  <2>5. ASSUME NEW i \in DOMAIN bm25', bm25'[i].key # Absent
        PROVE  \E m \in snapshots : m.generation = bm25'[i].key /\ m.content = bm25'[i].value
    <3>1. CASE bm25'[i] = [key |-> Path(t), value |-> rows[t]]
      <4>1. man[t] # Absent /\ Path(t) = man[t].generation
        BY <1>0, <2>5, <3>1, PathFacts
      <4> QED
        BY <4>1, <3>1, <2>2
    <3>2. CASE \E j \in DOMAIN bm25 : bm25'[i] = bm25[j]
      BY <1>0, <3>2, <2>5 DEF CacheInv
    <3> QED
      BY <2>4, <3>1, <3>2
  <2> QED
    BY <1>0, <1>s, <2>1, <2>4, <2>5 DEF CacheInv, DistinctKeys
<1>4. CASE LookupVectors(t)
  <2>1. CASE Path(t) \in Keys(vectors)
    <3>1. vectors' = Touch(vectors, Path(t)) /\ bm25' = bm25
      BY <1>4, <2>1 DEF LookupVectors
    <3>2. /\ vectors' \in Seq(Entry(Vectors)) /\ Len(vectors') = Len(vectors)
          /\ \A i \in DOMAIN vectors' : \E j \in DOMAIN vectors : vectors'[i] = vectors[j]
          /\ DistinctKeys(vectors) => DistinctKeys(vectors')
      BY <1>0, <2>1, <3>1, TouchKeeps
    <3> QED
      BY <1>0, <1>s, <3>1, <3>2 DEF CacheInv, DistinctKeys
  <2>2. CASE Path(t) \notin Keys(vectors)
    BY <1>4, <2>2, <1>k DEF LookupVectors, caches
  <2> QED
    BY <2>1, <2>2
<1>5. CASE InsertVectors(t)
  <2>1. vectors' = Insert(vectors, Path(t), vecs[t]) /\ bm25' = bm25
    BY <1>5 DEF InsertVectors
  <2>2. man[t] # Absent /\ man[t] \in snapshots /\ vecs[t] = VectorsOf(man[t])
    BY <1>0, <1>5 DEF InsertVectors, LoadInv, PinInv
  <2>3. [key |-> Path(t), value |-> vecs[t]] \in Entry(Vectors) /\ Path(t) = man[t].generation
    BY <1>0, <2>2, PathFacts DEF Entry
  <2>4. /\ Len(vectors') <= CacheSize /\ DistinctKeys(vectors')
        /\ \A i \in DOMAIN vectors' : \/ vectors'[i] = [key |-> Path(t), value |-> vecs[t]]
                                      \/ \E j \in DOMAIN vectors : vectors'[i] = vectors[j]
    <3>1. /\ [key |-> Path(t), value |-> vecs[t]] \in Entry(Vectors)
          /\ vectors \in Seq(Entry(Vectors)) /\ DistinctKeys(vectors) /\ Len(vectors) <= CacheSize
      BY <1>0, <2>3 DEF CacheInv
    <3> QED
      BY <2>1, <3>1, InsertKeeps, SMTT(30)
  <2>5. ASSUME NEW i \in DOMAIN vectors'
        PROVE  \E m \in snapshots : m.generation = vectors'[i].key /\ vectors'[i].value = VectorsOf(m)
    BY <1>0, <2>2, <2>3, <2>4 DEF CacheInv
  <2> QED
    BY <1>0, <1>s, <2>1, <2>4, <2>5 DEF CacheInv, DistinctKeys
<1>6. ASSUME ~ClearCache(t), ~LookupBm25(t), ~InsertBm25(t), ~LookupVectors(t), ~InsertVectors(t)
      PROVE  UNCHANGED caches
  BY <1>6 DEF ThreadNext, caches, Submit, ReadManifest, CheckSnapshot, LoadChunks, LoadLexical,
     ReadLexical, DecideSemantic, GetScorer, ScorerRaises, LoadVectors, Rank, Return
<1> QED
  BY <1>1, <1>2, <1>3, <1>4, <1>5, <1>6, <1>k

\* A step of a thread keeps what ties its call to one snapshot.
LEMMA StepPin ==
    ASSUME QueryInv, NEW t \in Threads, ThreadNext(t)
    PROVE  PinInv(t)'
<1>0. QueryTypeOK /\ DirectoryInv /\ PinInv(t) /\ UNCHANGED disk
  BY Locality DEF QueryInv
<1> USE <1>0 DEF QueryTypeOK, PinInv, disk, history, caches, View, Goto, Raise, Respond, SemanticFails
<1>1. CASE Submit(t)
  BY <1>1 DEF Submit
<1>2. CASE ReadManifest(t)
  BY <1>2, FormatAssumption DEF ReadManifest, DirectoryInv, Manifests
<1>3. CASE CheckSnapshot(t)
  BY <1>3, PathFacts DEF CheckSnapshot
<1>4. CASE ClearCache(t)
  BY <1>4 DEF ClearCache
<1>5. CASE LookupBm25(t)
  BY <1>5 DEF LookupBm25
<1>6. CASE LoadChunks(t)
  BY <1>6, PathFacts DEF LoadChunks
<1>7. CASE LoadLexical(t)
  BY <1>7, PathFacts DEF LoadLexical
<1>8. CASE ReadLexical(t)
  BY <1>8 DEF ReadLexical
<1>9. CASE InsertBm25(t)
  BY <1>9 DEF InsertBm25
<1>10. CASE DecideSemantic(t)
  BY <1>10 DEF DecideSemantic
<1>11. CASE GetScorer(t)
  BY <1>11 DEF GetScorer
<1>12. CASE ScorerRaises(t)
  BY <1>12 DEF ScorerRaises
<1>13. CASE LookupVectors(t)
  BY <1>13 DEF LookupVectors
<1>14. CASE LoadVectors(t)
  BY <1>14 DEF LoadVectors
<1>15. CASE InsertVectors(t)
  BY <1>15 DEF InsertVectors
<1>16. CASE Rank(t)
  BY <1>16 DEF Rank
<1>17. CASE Return(t)
  BY <1>17 DEF Return
<1> QED
  BY <1>1, <1>2, <1>3, <1>4, <1>5, <1>6, <1>7, <1>8, <1>9, <1>10, <1>11, <1>12, <1>13,
     <1>14, <1>15, <1>16, <1>17 DEF ThreadNext

\* A step of a thread loads only what belongs to the snapshot of its call.
LEMMA StepLoad ==
    ASSUME QueryInv, NEW t \in Threads, ThreadNext(t)
    PROVE  LoadInv(t)'
<1>0. QueryTypeOK /\ DirectoryInv /\ CacheInv /\ PinInv(t) /\ LoadInv(t) /\ UNCHANGED disk
  BY Locality DEF QueryInv
<1>p. Path(t) # Absent <=> man[t] # Absent
  BY <1>0, PathFacts
<1> USE <1>0 DEF QueryTypeOK, LoadInv, Wanted, disk, history, caches, Goto, Raise, Respond, SemanticFails
<1>1. CASE Submit(t)
  BY <1>1 DEF Submit
<1>2. CASE ReadManifest(t)
  BY <1>2 DEF ReadManifest, PinInv, View
<1>3. CASE CheckSnapshot(t)
  BY <1>3 DEF CheckSnapshot, HasChunks, PinInv
<1>4. CASE ClearCache(t)
  BY <1>4 DEF ClearCache
<1>5. CASE LookupBm25(t)
  <2>1. CASE Path(t) \in Keys(bm25)
    <3>1. /\ rpc' = [rpc EXCEPT ![t] = "semantic"] /\ rows' = [rows EXCEPT ![t] = bm25'[1].value]
          /\ bm25' = Touch(bm25, Path(t)) /\ UNCHANGED <<req, man, vecs>>
      BY <1>5, <2>1 DEF LookupBm25
    <3>2. bm25' \in Seq(Entry(Contents)) /\ Len(bm25') > 0 /\ bm25'[1].key = Path(t)
      BY <2>1, <3>1, TouchKeeps
    <3>3. bm25'[1].value \in Contents
      <4>1. bm25'[1] \in Entry(Contents)
        BY <3>2, ElementOfSeq
      <4> QED
        BY <4>1 DEF Entry
    <3>4. ASSUME man[t] # Absent PROVE bm25'[1].value = man[t].content
      <4>1. man[t] \in snapshots /\ Path(t) = man[t].generation /\ Path(t) # Absent
        BY <3>4, PathFacts DEF PinInv
      <4>2. 1 \in DOMAIN bm25'
        BY <3>2
      <4>3. \E m \in snapshots : m.generation = Path(t) /\ m.content = bm25'[1].value
        BY <4>1, <4>2, <3>2, StepCaches DEF CacheInv
      <4> QED
        BY <4>1, <4>3 DEF DirectoryInv
    <3> QED
      BY <3>1, <3>3, <3>4
  <2>2. CASE Path(t) \notin Keys(bm25)
    BY <1>5, <2>2 DEF LookupBm25
  <2> QED
    BY <2>1, <2>2
<1>6. CASE LoadChunks(t)
  BY <1>6, <1>p, PathFacts DEF LoadChunks, HasChunks, Rows
<1>7. CASE LoadLexical(t)
  BY <1>7 DEF LoadLexical
<1>8. CASE ReadLexical(t)
  BY <1>8 DEF ReadLexical
<1>9. CASE InsertBm25(t)
  BY <1>9 DEF InsertBm25
<1>10. CASE DecideSemantic(t)
  BY <1>10, PathFacts DEF DecideSemantic
<1>11. CASE GetScorer(t)
  BY <1>11 DEF GetScorer
<1>12. CASE ScorerRaises(t)
  BY <1>12 DEF ScorerRaises
<1>13. CASE LookupVectors(t)
  <2>0. man[t] # Absent /\ man[t] \in snapshots /\ Path(t) = man[t].generation
    BY <1>13, PathFacts DEF LookupVectors, PinInv
  <2>1. CASE Path(t) \in Keys(vectors)
    <3>1. /\ rpc' = [rpc EXCEPT ![t] = "rank"] /\ vecs' = [vecs EXCEPT ![t] = vectors'[1].value]
          /\ vectors' = Touch(vectors, Path(t)) /\ UNCHANGED <<req, man, rows>> /\ rpc[t] = "vectors"
      BY <1>13, <2>1 DEF LookupVectors
    <3>2. vectors' \in Seq(Entry(Vectors)) /\ Len(vectors') > 0 /\ vectors'[1].key = Path(t)
      BY <2>1, <3>1, TouchKeeps
    <3>3. 1 \in DOMAIN vectors'
      BY <3>2
    <3>4. \E m \in snapshots : m.generation = Path(t) /\ vectors'[1].value = VectorsOf(m)
      BY <3>2, <3>3, StepCaches DEF CacheInv
    <3>5. vectors'[1].value = VectorsOf(man[t])
      BY <3>4, <2>0 DEF DirectoryInv
    <3> QED
      BY <3>1, <3>5
  <2>2. CASE Path(t) \notin Keys(vectors)
    BY <1>13, <2>2 DEF LookupVectors
  <2> QED
    BY <2>1, <2>2
<1>14. CASE LoadVectors(t)
  BY <1>14 DEF LoadVectors, VectorsOf
<1>15. CASE InsertVectors(t)
  BY <1>15 DEF InsertVectors
<1>16. CASE Rank(t)
  BY <1>16 DEF Rank
<1>17. CASE Return(t)
  BY <1>17 DEF Return
<1> QED
  BY <1>1, <1>2, <1>3, <1>4, <1>5, <1>6, <1>7, <1>8, <1>9, <1>10, <1>11, <1>12, <1>13,
     <1>14, <1>15, <1>16, <1>17 DEF ThreadNext

\* How a call ends with an error, and how it ends with results.
LEMMA Endings ==
    ASSUME QueryTypeOK, NEW t \in Threads
    PROVE  /\ \A kind \in {"schema", "missing", "mismatch", "semantic"} : Raise(t, kind) =>
                rpc'[t] = "done" /\ ans'[t].error = kind
           /\ \A b, v, why : Respond(t, b, v, why) =>
                /\ rpc'[t] = "done" /\ ans'[t].error = ""
                /\ ans'[t].generation = Path(t) /\ ans'[t].rows = rows[t]
                /\ ans'[t].vectors = v /\ ans'[t].backend = b /\ ans'[t].reason = why
<1>1. rpc \in [Threads -> QueryPhases] /\ ans \in [Threads -> Answer]
  BY DEF QueryTypeOK
<1>2. ASSUME NEW kind \in {"schema", "missing", "mismatch", "semantic"}, Raise(t, kind)
      PROVE  rpc'[t] = "done" /\ ans'[t].error = kind
  BY <1>1, <1>2 DEF Raise, Goto, NoAnswer
<1>3. ASSUME NEW b, NEW v, NEW why, Respond(t, b, v, why)
      PROVE  /\ rpc'[t] = "done" /\ ans'[t].error = ""
             /\ ans'[t].generation = Path(t) /\ ans'[t].rows = rows[t]
             /\ ans'[t].vectors = v /\ ans'[t].backend = b /\ ans'[t].reason = why
  BY <1>1, <1>3 DEF Respond, Goto
<1> QED
  BY <1>2, <1>3

\* An error about the backend claims nothing about the directory.
LEMMA BackendErrors ==
    ASSUME QueryTypeOK, NEW t \in Threads, NEW kind \in {"mismatch", "semantic"}, Raise(t, kind)
    PROVE  AnswerInv(t)'
<1>1. ans'[t].error = kind
  BY Endings
<1> QED
  BY <1>1 DEF AnswerInv

\* Results without vectors are in order when they say why, or when none were
\* wanted.
LEMMA LexicalResults ==
    ASSUME QueryTypeOK, NEW t \in Threads, NEW b, NEW why, Respond(t, b, Absent, why),
           UNCHANGED <<req, man, rows>>,
           rows[t] \in Contents, man[t] # Absent => rows[t] = man[t].content,
           Wanted(t) => req[t].backend = "auto" /\ why \in {"no vectors", "exception"}
    PROVE  AnswerInv(t)'
<1>1. /\ ans'[t].error = "" /\ ans'[t].generation = Path(t) /\ ans'[t].rows = rows[t]
      /\ ans'[t].vectors = Absent /\ ans'[t].reason = why
  BY Endings
<1>2. Path(t)' = Path(t) /\ Wanted(t)' = Wanted(t)
  BY DEF Path, Wanted
<1> QED
  BY <1>1, <1>2 DEF AnswerInv

\* The except clause of the semantic channel ends a call in order.
LEMMA FailedResults ==
    ASSUME QueryTypeOK, NEW t \in Threads, SemanticFails(t), UNCHANGED <<req, man, rows>>,
           rows[t] \in Contents, man[t] # Absent => rows[t] = man[t].content
    PROVE  AnswerInv(t)'
BY BackendErrors, LexicalResults DEF SemanticFails

\* A call ends with what its snapshot holds, or with an error for a reason that
\* it has seen.
LEMMA StepAnswer ==
    ASSUME QueryInv, NEW t \in Threads, ThreadNext(t)
    PROVE  AnswerInv(t)'
<1>0. QueryTypeOK /\ DirectoryInv /\ PinInv(t) /\ LoadInv(t) /\ AnswerInv(t)
  BY DEF QueryInv
<1>t. rpc \in [Threads -> QueryPhases] /\ ans \in [Threads -> Answer]
  BY <1>0 DEF QueryTypeOK
<1>1. CASE ReadManifest(t)
  <2>1. CASE active = Unsupported
    <3>1. rpc[t] = "resolve" /\ Raise(t, "schema") /\ UNCHANGED <<active, legacy, window>>
      BY <1>1, <2>1 DEF ReadManifest, disk, history
    <3>2. View \in window'[t] /\ View.active = Unsupported
      BY <1>0, <3>1, <2>1 DEF PinInv, View
    <3>3. ans'[t].error = "schema"
      BY <1>0, <3>1, Endings
    <3> QED
      BY <3>2, <3>3 DEF AnswerInv
  <2>2. CASE active # Unsupported
    BY <1>1, <2>2, <1>t DEF ReadManifest, Goto, AnswerInv
  <2> QED
    BY <2>1, <2>2
<1>2. ASSUME rpc[t] \notin {"idle", "resolve", "done"}, Raise(t, "missing"), ~HasChunks(t),
             UNCHANGED <<legacy, withdrawn, files, man, window, robbed>>
      PROVE  AnswerInv(t)'
  <2>1. ans'[t].error = "missing"
    BY <1>0, <1>2, Endings
  <2>2. CASE man[t] = Absent
    <3>1. legacy = Absent /\ [active |-> Absent, legacy |-> legacy] \in window'[t]
      BY <1>0, <1>2, <2>2, PathFacts DEF HasChunks, PinInv
    <3>2. PICK v \in window'[t] : v = [active |-> Absent, legacy |-> legacy]
      BY <3>1
    <3>3. NothingToRead(v)'
      BY <3>1, <3>2, FormatAssumption DEF NothingToRead
    <3> QED
      BY <2>1, <3>3 DEF AnswerInv
  <2>3. CASE man[t] # Absent
    <3>1. man[t] \in Metadata /\ "chunks" \notin files[man[t].generation]
      BY <1>0, <1>2, <2>3, PathFacts DEF HasChunks
    <3>2. t \in robbed' \/ man[t] \in withdrawn
      BY <1>0, <1>2, <2>3, <3>1 DEF PinInv
    <3>3. PICK v \in window[t] : v.active = man[t]
      BY <1>0, <2>3 DEF PinInv
    <3>4. man[t] \in withdrawn => v \in window'[t] /\ NothingToRead(v)'
      BY <1>2, <3>1, <3>3 DEF NothingToRead
    <3> QED
      BY <2>1, <3>2, <3>4 DEF AnswerInv
  <2> QED
    BY <2>2, <2>3
<1>3. CASE CheckSnapshot(t)
  <2>1. CASE HasChunks(t)
    BY <1>3, <2>1, <1>t DEF CheckSnapshot, Goto, AnswerInv
  <2>2. CASE ~HasChunks(t)
    BY <1>3, <2>2, <1>2 DEF CheckSnapshot, disk, history
  <2> QED
    BY <2>1, <2>2
<1>4. CASE LoadChunks(t)
  <2>1. CASE HasChunks(t)
    BY <1>4, <2>1, <1>t DEF LoadChunks, Goto, AnswerInv
  <2>2. CASE ~HasChunks(t)
    BY <1>4, <2>2, <1>2 DEF LoadChunks, disk, history
  <2> QED
    BY <2>1, <2>2
<1>5. CASE ReadLexical(t)
  <2>1. CASE "lexical" \in files[Path(t)]
    BY <1>5, <2>1, <1>t DEF ReadLexical, Goto, AnswerInv
  <2>2. CASE "lexical" \notin files[Path(t)]
    <3>1. rpc[t] = "counts" /\ Raise(t, "missing") /\ UNCHANGED robbed
      BY <1>5, <2>2 DEF ReadLexical, history
    <3>2. t \in robbed
      BY <1>0, <3>1, <2>2, PathFacts DEF PinInv
    <3>3. ans'[t].error = "missing"
      BY <1>0, <3>1, Endings
    <3> QED
      BY <3>1, <3>2, <3>3 DEF AnswerInv
  <2> QED
    BY <2>1, <2>2
<1>6. CASE DecideSemantic(t)
  <2>0. /\ UNCHANGED <<req, man, rows>>
        /\ rows[t] \in Contents /\ (man[t] # Absent => rows[t] = man[t].content)
    BY <1>0, <1>6 DEF DecideSemantic, LoadInv
  <2>1. CASE ~Wanted(t)
    BY <1>0, <1>6, <2>0, <2>1, LexicalResults DEF DecideSemantic
  <2>2. CASE Wanted(t) /\ StoredBackend(t) = "none"
    BY <1>0, <1>6, <2>0, <2>2, LexicalResults, BackendErrors DEF DecideSemantic
  <2>3. CASE Wanted(t) /\ StoredBackend(t) # "none"
    <3>1. Raise(t, "mismatch") \/ Goto(t, "scorer")
      BY <1>6, <2>3 DEF DecideSemantic
    <3>2. CASE Goto(t, "scorer")
      BY <3>2, <1>t DEF Goto, AnswerInv
    <3> QED
      BY <1>0, <3>1, <3>2, BackendErrors
  <2> QED
    BY <2>1, <2>2, <2>3
<1>7. CASE ScorerRaises(t)
  BY <1>0, <1>7, FailedResults DEF ScorerRaises, LoadInv
<1>8. CASE LoadVectors(t)
  <2>1. CASE "vectors" \in files[Path(t)]
    BY <1>8, <2>1, <1>t DEF LoadVectors, Goto, AnswerInv
  <2>2. CASE "vectors" \notin files[Path(t)]
    BY <1>0, <1>8, <2>2, FailedResults DEF LoadVectors, LoadInv
  <2> QED
    BY <2>1, <2>2
<1>9. CASE Rank(t)
  <2>0. /\ UNCHANGED <<req, man, rows>> /\ rpc[t] = "rank" /\ man[t] # Absent
        /\ rows[t] \in Contents /\ rows[t] = man[t].content /\ vecs[t] = VectorsOf(man[t])
        /\ req[t].backend \in {"auto", man[t].backend}
    BY <1>0, <1>9 DEF Rank, LoadInv
  <2>1. vecs[t] # Absent /\ StoredBackend(t) = man[t].backend
    BY <1>0, <2>0, PathFacts
  <2>2. CASE Respond(t, StoredBackend(t), vecs[t], IF man[t].degraded THEN "build" ELSE "")
    <3>1. /\ ans'[t].error = "" /\ ans'[t].generation = Path(t) /\ ans'[t].rows = rows[t]
          /\ ans'[t].vectors = vecs[t] /\ ans'[t].backend = StoredBackend(t)
          /\ ans'[t].reason = IF man[t].degraded THEN "build" ELSE ""
      BY <1>0, <2>2, Endings
    <3>2. Path(t)' = Path(t)
      BY <2>0 DEF Path
    <3> QED
      BY <2>0, <2>1, <3>1, <3>2 DEF AnswerInv
  <2>3. CASE SemanticFails(t)
    BY <1>0, <2>0, <2>3, FailedResults
  <2> QED
    BY <1>9, <2>2, <2>3 DEF Rank
<1>10. ASSUME \/ Submit(t) \/ ClearCache(t) \/ LookupBm25(t) \/ LoadLexical(t) \/ InsertBm25(t)
              \/ GetScorer(t) \/ LookupVectors(t) \/ InsertVectors(t) \/ Return(t)
       PROVE  AnswerInv(t)'
  BY <1>10, <1>t DEF Submit, ClearCache, LookupBm25, LoadLexical, InsertBm25, GetScorer,
     LookupVectors, InsertVectors, Return, Goto, AnswerInv
<1> QED
  BY <1>1, <1>3, <1>4, <1>5, <1>6, <1>7, <1>8, <1>9, <1>10 DEF ThreadNext

-----------------------------------------------------------------------------
(* One step of the environment. *)

\* The locals of the calls, which no step of the environment touches.
Locals == <<rpc, req, man, rows, vecs, ans, bm25, vectors>>

\* As long as snapshots are only added, what the caches and the calls hold stays
\* right.
LEMMA GrowthKeeps ==
    ASSUME QueryInv, UNCHANGED Locals, snapshots \subseteq snapshots'
    PROVE  CacheInv' /\ \A t \in Threads : LoadInv(t)'
<1>1. CacheInv'
  BY DEF QueryInv, CacheInv, DistinctKeys, Locals
<1>2. ASSUME NEW t \in Threads PROVE LoadInv(t)'
  BY DEF QueryInv, LoadInv, Wanted, Locals
<1> QED
  BY <1>1, <1>2

\* A call that is done is not affected by what happens later, as a snapshot that
\* was withdrawn is not restored.
LEMMA DoneKeeps ==
    ASSUME QueryInv, UNCHANGED Locals, NEW t \in Threads,
           withdrawn \subseteq withdrawn',
           \A n \in withdrawn : files'[n.generation] \subseteq files[n.generation],
           rpc[t] = "done" => window'[t] = window[t] /\ (t \in robbed' <=> t \in robbed)
    PROVE  AnswerInv(t)'
<1>1. AnswerInv(t)
  BY DEF QueryInv
<1>2. Path(t)' = Path(t) /\ Wanted(t)' = Wanted(t)
  BY DEF Path, Wanted, Locals
<1>3. \A v : NothingToRead(v) /\ v.active \in Metadata => NothingToRead(v)'
  BY DEF NothingToRead
<1>4. \A v : NothingToRead(v) /\ v.active \notin Metadata => NothingToRead(v)'
  BY DEF NothingToRead
<1> QED
  BY <1>1, <1>2, <1>3, <1>4 DEF AnswerInv, Locals

\* A rebuild adds a snapshot under a new name and makes it the active one.
LEMMA RebuildKeeps ==
    ASSUME QueryInv, NEW m \in Builds, Rebuild(m)
    PROVE  QueryInv'
<1>0. /\ QueryTypeOK /\ DirectoryInv /\ m \in Metadata /\ m.generation \in Generations
      /\ UNCHANGED Locals /\ UNCHANGED <<withdrawn, legacy, robbed>>
      /\ active' = m /\ snapshots' = snapshots \cup {m} /\ m.generation \notin Names
      /\ files' = [files EXCEPT ![m.generation] =
                     IF m.backend = "none" THEN {"chunks", "lexical"} ELSE SnapshotFiles]
      /\ Witness([active |-> m, legacy |-> legacy])
  BY QueryAssumption DEF QueryInv, Metadata, Rebuild, Publish, Locals, caches
<1>w. \A t \in Threads : /\ window[t] \subseteq window'[t]
                         /\ rpc[t] \notin {"idle", "done"} => View' \in window'[t]
                         /\ rpc[t] = "done" => window'[t] = window[t]
  BY <1>0 DEF Witness, View
<1>1. QueryTypeOK'
  <2>1. window' \in [Threads -> SUBSET Views]
    BY <1>0 DEF QueryTypeOK, Witness, Views, Manifests
  <2>2. files' \in [Generations -> SUBSET SnapshotFiles]
    BY <1>0 DEF QueryTypeOK, SnapshotFiles
  <2> QED
    BY <1>0, <2>1, <2>2 DEF QueryTypeOK, Manifests, Locals
<1>2. DirectoryInv'
  <2>1. "chunks" \in files'[m.generation]
    BY <1>0 DEF QueryTypeOK, SnapshotFiles
  <2>2. \A n \in snapshots : n.generation # m.generation
    BY <1>0 DEF Names
  <2> QED
    BY <1>0, <2>1, <2>2 DEF DirectoryInv
<1>f. \A n \in withdrawn : files'[n.generation] \subseteq files[n.generation]
  <2> SUFFICES ASSUME NEW n \in withdrawn PROVE files'[n.generation] = files[n.generation]
    OBVIOUS
  <2>1. n \in Metadata /\ n.generation \in Generations /\ n.generation # m.generation
    BY <1>0 DEF QueryTypeOK, Names, Metadata
  <2> QED
    BY <1>0, <2>1 DEF QueryTypeOK
<1>3. CacheInv' /\ \A t \in Threads : LoadInv(t)'
  BY <1>0, GrowthKeeps
<1>4. ASSUME NEW t \in Threads PROVE PinInv(t)'
  <2>1. PinInv(t) /\ (man[t] # Absent => man[t] \in Metadata /\ man[t].generation \in Generations)
    BY PathFacts DEF QueryInv
  <2>2. man[t] # Absent => /\ man[t] \in snapshots /\ man[t].generation # m.generation
                           /\ files'[man[t].generation] = files[man[t].generation]
    BY <1>0, <2>1 DEF PinInv, Names, QueryTypeOK
  <2> QED
    BY <1>0, <1>w, <2>1, <2>2 DEF PinInv, Locals
<1>5. ASSUME NEW t \in Threads PROVE AnswerInv(t)'
  BY <1>0, <1>f, <1>w, DoneKeeps
<1> QED
  BY <1>1, <1>2, <1>3, <1>4, <1>5 DEF QueryInv

\* An index of the old layout is rewritten only while there is no manifest.
LEMMA LegacyRewriteKeeps ==
    ASSUME QueryInv, LegacyRewrite
    PROVE  QueryInv'
<1>0. /\ QueryTypeOK /\ DirectoryInv /\ active = Absent
      /\ UNCHANGED Locals /\ UNCHANGED <<active, snapshots, withdrawn, files, robbed>>
      /\ legacy' \in Contents /\ Witness([active |-> Absent, legacy |-> legacy'])
  BY QueryAssumption DEF QueryInv, LegacyRewrite, Locals, caches
<1>w. \A t \in Threads : /\ window[t] \subseteq window'[t]
                         /\ rpc[t] \notin {"idle", "done"} =>
                              /\ View' \in window'[t]
                              /\ [active |-> Absent, legacy |-> legacy'] \in window'[t]
                         /\ rpc[t] = "done" => window'[t] = window[t]
  BY <1>0 DEF Witness, View
<1>1. QueryTypeOK'
  <2>1. window' \in [Threads -> SUBSET Views]
    BY <1>0 DEF QueryTypeOK, Witness, Views, Manifests, Rows
  <2> QED
    BY <1>0, <2>1 DEF QueryTypeOK, Rows, Locals
<1>2. DirectoryInv'
  BY <1>0 DEF DirectoryInv
<1>3. CacheInv' /\ \A t \in Threads : LoadInv(t)'
  BY <1>0, GrowthKeeps
<1>4. ASSUME NEW t \in Threads PROVE PinInv(t)'
  BY <1>0, <1>w DEF PinInv, Locals, QueryInv
<1>5. ASSUME NEW t \in Threads PROVE AnswerInv(t)'
  BY <1>0, <1>w, DoneKeeps
<1> QED
  BY <1>1, <1>2, <1>3, <1>4, <1>5 DEF QueryInv

\* Removing a file of a snapshot, superseded or withdrawn, harms only the
\* readers of that snapshot, which are recorded as robbed.
LEMMA RemoveFileKeeps ==
    ASSUME QueryInv, NEW m \in snapshots, NEW f \in SnapshotFiles, RemoveFile(m, f) \/ RebuildFails(m, f)
    PROVE  QueryInv'
<1>0. /\ QueryTypeOK /\ DirectoryInv /\ m \in Metadata /\ m.generation \in Generations
      /\ UNCHANGED Locals /\ UNCHANGED <<active, snapshots, legacy, window>>
      /\ (m # active /\ withdrawn' = withdrawn) \/ (m = active /\ withdrawn' = withdrawn \cup {m})
      /\ files' = [files EXCEPT ![m.generation] = @ \ {f}]
      /\ robbed' = robbed \cup Readers(m.generation)
  BY DEF QueryInv, QueryTypeOK, Metadata, RemoveFile, RebuildFails, Unlink, Locals, caches
<1>f. withdrawn \subseteq withdrawn' /\ \A n \in withdrawn : files'[n.generation] \subseteq files[n.generation]
  <2> SUFFICES ASSUME NEW n \in withdrawn PROVE files'[n.generation] \subseteq files[n.generation]
    BY <1>0
  <2>1. n.generation \in Generations
    BY <1>0 DEF QueryTypeOK, Metadata
  <2> QED
    BY <1>0, <2>1 DEF QueryTypeOK
<1>1. QueryTypeOK'
  BY <1>0 DEF QueryTypeOK, Locals, Readers
<1>2. DirectoryInv'
  <2>1. active \in Metadata \ withdrawn' =>
          active.generation # m.generation /\ active.generation \in Generations
    BY <1>0, FormatAssumption DEF DirectoryInv, Metadata
  <2> QED
    BY <1>0, <2>1 DEF DirectoryInv, QueryTypeOK
<1>3. CacheInv' /\ \A t \in Threads : LoadInv(t)'
  BY <1>0, GrowthKeeps
<1>4. ASSUME NEW t \in Threads PROVE PinInv(t)'
  <2>1. PinInv(t)
    BY DEF QueryInv
  <2>2. /\ t \notin robbed' => t \notin robbed
        /\ rpc[t] \in {"idle", "resolve"} => (t \in robbed' <=> t \in robbed)
        /\ View' = View
    BY <1>0, <2>1, PathFacts, QueryAssumption DEF Readers, PinInv, View
  <2>3. rpc[t] \notin {"idle", "done"} /\ man[t] # Absent /\ t \notin robbed' =>
          /\ man[t].generation # m.generation /\ man[t].generation \in Generations
          /\ files'[man[t].generation] = files[man[t].generation]
    BY <1>0, PathFacts DEF Readers, QueryTypeOK
  <2> QED
    BY <1>0, <2>1, <2>2, <2>3 DEF PinInv, Locals
<1>5. ASSUME NEW t \in Threads PROVE AnswerInv(t)'
  BY <1>0, <1>f, DoneKeeps DEF Readers
<1> QED
  BY <1>1, <1>2, <1>3, <1>4, <1>5 DEF QueryInv

-----------------------------------------------------------------------------
\* Every step of the threads and of the environment preserves the invariant.
LEMMA QueryNextInv == ASSUME QueryInv, [QueryNext]_queryVars PROVE QueryInv'
<1>1. CASE UNCHANGED queryVars
  <2>0. UNCHANGED <<active, snapshots, withdrawn, files, legacy, window, robbed>> /\ UNCHANGED Locals
    BY <1>1 DEF queryVars, disk, caches, threadVars, Locals
  <2>1. QueryTypeOK' /\ DirectoryInv'
    BY <2>0 DEF QueryInv, QueryTypeOK, DirectoryInv, Locals
  <2>2. CacheInv' /\ \A t \in Threads : LoadInv(t)'
    BY <2>0, GrowthKeeps
  <2>3. ASSUME NEW t \in Threads PROVE PinInv(t)' /\ AnswerInv(t)'
    BY <2>0, DoneKeeps DEF QueryInv, PinInv, View, Locals
  <2> QED
    BY <2>1, <2>2, <2>3 DEF QueryInv
<1>2. ASSUME NEW t \in Threads, ThreadNext(t) PROVE QueryInv'
  <2>1. DirectoryInv'
    BY <1>2, Locality DEF QueryInv, DirectoryInv, disk
  <2>2. ASSUME NEW u \in Threads PROVE (PinInv(u) /\ LoadInv(u) /\ AnswerInv(u))'
    BY <1>2, OthersKeep, StepPin, StepLoad, StepAnswer
  <2> QED
    BY <1>2, <2>1, <2>2, StepTypes, StepCaches DEF QueryInv
<1> QED
  BY <1>1, <1>2, RebuildKeeps, LegacyRewriteKeeps, RemoveFileKeeps DEF QueryNext

\* QueryInv is an invariant of the query service.
THEOREM QueryInvariant == QuerySpec => []QueryInv
<1> QED
  BY QueryInitInv, QueryNextInv, PTL DEF QuerySpec

\* Every variable of the query service keeps its type (_retrieve_index and the
\* two caches).
THEOREM QueryTypeCorrect == QuerySpec => []QueryTypeOK
<1>1. QueryInv => QueryTypeOK
  BY DEF QueryInv
<1> QED
  BY <1>1, QueryInvariant, PTL

\* Whatever the interleaving of lookups, loads, evictions and insertions, each
\* lru_cache table holds what the snapshots hold, each key once, within maxsize.
THEOREM CachesStayCoherent == QuerySpec => []CachesCoherent
<1>1. QueryInv => CachesCoherent
  <2> SUFFICES ASSUME QueryInv PROVE CachesCoherent
    OBVIOUS
  <2>1. CacheInv /\ bm25 \in Seq(Entry(Contents)) /\ vectors \in Seq(Entry(Vectors))
    BY DEF QueryInv, QueryTypeOK
  <2>2. Cardinality(Keys(bm25)) = Len(bm25) /\ Cardinality(Keys(vectors)) = Len(vectors)
    BY <2>1, KeysCounted DEF CacheInv
  <2> QED
    BY <2>1, <2>2 DEF CacheInv, CachesCoherent, VectorsOf
<1> QED
  BY <1>1, QueryInvariant, PTL

\* A query that lost no file of its snapshot fails for want of an index only if
\* there was none at some instant of the call, or only one that its own build
\* had deleted after it failed (resolve_snapshot).
THEOREM FailuresAreReal == QuerySpec => []NoSpuriousFailure
<1>1. QueryInv => NoSpuriousFailure
  BY DEF QueryInv, AnswerInv, NoSpuriousFailure
<1> QED
  BY <1>1, QueryInvariant, PTL

\* No fallback goes unreported and no explicit backend is substituted
\* (_retrieve_index, semantic section).
THEOREM BackendsAreHonest == QuerySpec => []BackendHonest
<1>1. QueryInv => BackendHonest
  <2> SUFFICES ASSUME QueryInv PROVE BackendHonest
    OBVIOUS
  <2>1. QueryTypeOK /\ DirectoryInv
    BY DEF QueryInv
  <2>2. ASSUME NEW t \in Threads, Succeeded(t), ans[t].vectors # Absent
        PROVE  /\ man[t] \in Metadata /\ man[t] \in snapshots
               /\ ans[t].generation = man[t].generation
               /\ ans[t].vectors.backend = man[t].backend /\ ans[t].backend = man[t].backend
               /\ req[t].backend \in {"auto", man[t].backend}
               /\ ans[t].reason = IF man[t].degraded THEN "build" ELSE ""
    <3>1. PinInv(t) /\ AnswerInv(t)
      BY DEF QueryInv
    <3>2. /\ man[t] # Absent /\ ans[t].vectors = VectorsOf(man[t]) /\ ans[t].generation = Path(t)
          /\ ans[t].backend = man[t].backend /\ req[t].backend \in {"auto", man[t].backend}
          /\ ans[t].reason = IF man[t].degraded THEN "build" ELSE ""
      BY <2>2, <3>1 DEF Succeeded, AnswerInv
    <3>3. man[t] \in Metadata /\ man[t] \in snapshots /\ Path(t) = man[t].generation
      BY <2>1, <3>1, <3>2, PathFacts DEF PinInv
    <3>4. VectorsOf(man[t]).backend = man[t].backend
      BY DEF VectorsOf
    <3> QED
      BY <3>2, <3>3, <3>4
  <2>3. FallbackReported
    <3>1. ASSUME NEW t \in Threads, Succeeded(t), Wanted(t), ans[t].vectors = Absent
          PROVE  ans[t].reason \in {"no vectors", "exception"}
      BY <3>1 DEF QueryInv, Succeeded, AnswerInv
    <3>2. ASSUME NEW t \in Threads, Succeeded(t), ans[t].vectors # Absent
          PROVE  (ans[t].reason = "build") <=>
                   \E m \in snapshots : m.generation = ans[t].generation /\ m.degraded
      <4>1. /\ man[t] \in snapshots /\ ans[t].generation = man[t].generation
            /\ ans[t].reason = IF man[t].degraded THEN "build" ELSE ""
        BY <2>2, <3>2
      <4>2. \A m \in snapshots : m.generation = man[t].generation => m = man[t]
        BY <2>1, <4>1 DEF DirectoryInv
      <4> QED
        BY <4>1, <4>2
    <3> QED
      BY <3>1, <3>2 DEF FallbackReported
  <2>4. ExplicitNeverSubstituted
    <3>1. ASSUME NEW t \in Threads, Succeeded(t), Wanted(t), req[t].backend # "auto"
          PROVE  ans[t].vectors # Absent
      BY <3>1 DEF QueryInv, Succeeded, AnswerInv
    <3> QED
      BY <2>2, <3>1 DEF ExplicitNeverSubstituted
  <2> QED
    BY <2>3, <2>4 DEF BackendHonest
<1> QED
  BY <1>1, QueryInvariant, PTL

\* An answer from a generation is the answer of that generation.
LEMMA AnswersOfBuild ==
    ASSUME QueryInv, NEW t \in Threads, Succeeded(t), ans[t].generation # Absent
    PROVE  \E v \in window[t] : AnswersFrom(ans[t], v)
<1>1. QueryTypeOK /\ PinInv(t) /\ AnswerInv(t)
  BY DEF QueryInv
<1>2. man[t] # Absent /\ man[t] \in Metadata /\ Path(t) = man[t].generation
  BY <1>1, PathFacts DEF Succeeded, AnswerInv
<1>3. PICK v \in window[t] : v.active = man[t]
  BY <1>1, <1>2 DEF PinInv
<1>4. /\ ans[t].generation = man[t].generation /\ ans[t].rows = man[t].content
      /\ ans[t].vectors \in {Absent, VectorsOf(man[t])}
  BY <1>1, <1>2 DEF Succeeded, AnswerInv
<1>5. AnswersFrom(ans[t], v)
  BY <1>2, <1>3, <1>4 DEF AnswersFrom, VectorsOf
<1> QED
  BY <1>5

\* Chunks, vectors and index_generation of an answer never come from two builds,
\* nor from a build superseded before the call (_retrieve_index).
THEOREM AnswersFromOneBuild == QuerySpec => []AnswersOneBuild
<1>1. QueryInv => AnswersOneBuild
  BY AnswersOfBuild DEF AnswersOneBuild
<1> QED
  BY <1>1, QueryInvariant, PTL

-----------------------------------------------------------------------------
(* The index of the old layout, which has no generation. *)

Loaded == {"lexical", "counts", "insert", "semantic", "scorer", "vectors", "mmap", "keep", "rank"}

\* A step of a thread keeps LegacyInv: what it loads without a snapshot is what
\* chunks.jsonl holds, and what it finds in the cache is what it holds too.
LEMMA LegacyStep ==
    ASSUME LegacyUndisturbed, QueryInv, LegacyInv, NEW t \in Threads, ThreadNext(t)
    PROVE  LegacyInv'
<1>0. /\ QueryTypeOK /\ CacheInv /\ PinInv(t) /\ LoadInv(t) /\ UNCHANGED disk /\ legacy' = legacy
      /\ rpc \in [Threads -> QueryPhases] /\ ans \in [Threads -> Answer] /\ rows \in [Threads -> Rows]
      /\ man \in [Threads -> Metadata \cup {Absent}] /\ window \in [Threads -> SUBSET Views]
      /\ bm25 \in Seq(Entry(Contents))
  BY Locality DEF QueryInv, QueryTypeOK, disk
<1> DEFINE Same == \A c, d \in LegacyContents : c = d
           From(u) == /\ rows[u] \in LegacyContents /\ legacy # Absent
                      /\ [active |-> Absent, legacy |-> rows[u]] \in window[u]
           Part(u) == man[u] = Absent =>
                        /\ rpc[u] = "lookup" /\ ~Same => Absent \notin Keys(bm25)
                        /\ rpc[u] \in Loaded \/ (rpc[u] = "done" /\ ans[u].error = "") => From(u)
<1>p. /\ man[t] = Absent <=> Path(t) = Absent
      /\ man[t] = Absent /\ rpc[t] \in Loaded => From(t)
      /\ man[t] = Absent /\ rpc[t] = "lookup" /\ ~Same => Absent \notin Keys(bm25)
  BY <1>0, PathFacts DEF LegacyInv, Loaded
<1>c. ASSUME NEW i \in DOMAIN bm25', bm25'[i].key = Absent
      PROVE  bm25'[i].value \in LegacyContents /\ legacy # Absent
  <2>1. CASE ClearCache(t)
    BY <2>1, <1>c DEF ClearCache
  <2>2. CASE LookupBm25(t)
    <3>1. CASE Path(t) \in Keys(bm25)
      <4>1. bm25' = Touch(bm25, Path(t))
        BY <2>2, <3>1 DEF LookupBm25
      <4>2. \E j \in DOMAIN bm25 : bm25'[i] = bm25[j]
        BY <1>0, <1>c, <3>1, <4>1, TouchKeeps
      <4> QED
        BY <1>c, <4>2 DEF LegacyInv
    <3>2. CASE Path(t) \notin Keys(bm25)
      BY <2>2, <3>2, <1>c DEF LookupBm25, LegacyInv
    <3> QED
      BY <3>1, <3>2
  <2>3. CASE InsertBm25(t)
    <3>1. bm25' = Insert(bm25, Path(t), rows[t]) /\ rpc[t] = "insert"
      BY <2>3 DEF InsertBm25
    <3>2. [key |-> Path(t), value |-> rows[t]] \in Entry(Contents)
      BY <1>0, <3>1, PathFacts DEF Entry, LoadInv
    <3>3. \/ bm25'[i] = [key |-> Path(t), value |-> rows[t]]
          \/ \E j \in DOMAIN bm25 : bm25'[i] = bm25[j]
      <4>1. DistinctKeys(bm25) /\ Len(bm25) <= CacheSize
        BY <1>0 DEF CacheInv
      <4> QED
        BY <1>0, <1>c, <3>1, <3>2, <4>1, InsertKeeps
    <3>4. CASE bm25'[i] = [key |-> Path(t), value |-> rows[t]]
      <4>1. man[t] = Absent /\ rows[t] \in LegacyContents
        BY <1>c, <1>p, <3>1, <3>4 DEF Loaded
      <4>3. legacy # Absent
        BY <1>p, <3>1, <4>1 DEF Loaded
      <4> QED
        BY <3>4, <4>1, <4>3
    <3> QED
      BY <1>c, <3>3, <3>4 DEF LegacyInv
  <2>4. CASE UNCHANGED bm25
    BY <2>4, <1>c DEF LegacyInv
  <2> QED
    BY <2>1, <2>2, <2>3, <2>4 DEF ThreadNext, caches, Submit, ReadManifest, CheckSnapshot, LoadChunks,
       LoadLexical, ReadLexical, DecideSemantic, GetScorer, ScorerRaises, LookupVectors, LoadVectors,
       InsertVectors, Rank, Return
<1>o. ASSUME NEW u \in Threads \ {t} PROVE Part(u)'
  <2>1. Part(u)
    BY DEF LegacyInv, Loaded
  <2>2. Same
    BY DEF LegacyUndisturbed
  <2>3. /\ rpc'[u] = rpc[u] /\ man'[u] = man[u] /\ rows'[u] = rows[u] /\ ans'[u] = ans[u]
        /\ window'[u] = window[u]
    BY <1>0, Locality
  <2> QED
    BY <1>0, <2>1, <2>2, <2>3
<1>l. ASSUME man'[t] = Absent, rpc'[t] = "lookup", ~Same PROVE Absent \notin Keys(bm25')
  <2>1. CASE ClearCache(t)
    BY <2>1 DEF ClearCache, Keys
  <2>2. CASE CheckSnapshot(t)
    BY <2>2, <1>l, <1>p, <1>0 DEF CheckSnapshot, Goto, Raise
  <2> QED
    BY <2>1, <2>2, <1>l, <1>0 DEF ThreadNext, Goto, Raise, Respond, SemanticFails, Submit, ReadManifest,
       LookupBm25, LoadChunks, LoadLexical, ReadLexical, InsertBm25, DecideSemantic, GetScorer,
       ScorerRaises, LookupVectors, LoadVectors, InsertVectors, Rank, Return
<1>f. ASSUME man'[t] = Absent, rpc'[t] \in Loaded \/ (rpc'[t] = "done" /\ ans'[t].error = "")
      PROVE  From(t)'
  <2>1. CASE LookupBm25(t)
    <3>0. rpc[t] = "lookup" /\ man[t] = Absent /\ Path(t) = Absent /\ UNCHANGED window
      BY <2>1, <1>f, <1>p DEF LookupBm25, history
    <3>1. CASE Path(t) \in Keys(bm25)
      <4>1. bm25' = Touch(bm25, Path(t)) /\ rows' = [rows EXCEPT ![t] = bm25'[1].value]
        BY <2>1, <3>1 DEF LookupBm25
      <4>2. 1 \in DOMAIN bm25' /\ bm25'[1].key = Absent
        BY <1>0, <3>0, <3>1, <4>1, TouchKeeps
      <4>3. bm25'[1].value \in LegacyContents /\ legacy \in LegacyContents /\ Same
        BY <1>c, <1>p, <3>0, <3>1, <4>2 DEF LegacyInv
      <4>4. [active |-> Absent, legacy |-> legacy] \in window[t]
        BY <1>0, <3>0 DEF PinInv
      <4> QED
        BY <1>0, <1>c, <3>0, <4>1, <4>2, <4>3, <4>4
    <3>2. CASE Path(t) \notin Keys(bm25)
      BY <1>0, <2>1, <3>2, <1>f DEF LookupBm25, Goto, Loaded
    <3> QED
      BY <3>1, <3>2
  <2>2. CASE LoadChunks(t)
    <3>0. rpc[t] = "chunks" /\ man[t] = Absent /\ Path(t) = Absent /\ UNCHANGED window
      BY <2>2, <1>f, <1>p DEF LoadChunks, history
    <3>1. CASE HasChunks(t)
      <4>1. legacy # Absent /\ rows' = [rows EXCEPT ![t] = legacy]
        BY <2>2, <3>0, <3>1 DEF LoadChunks, HasChunks
      <4>2. [active |-> Absent, legacy |-> legacy] \in window[t]
        BY <1>0, <3>0 DEF PinInv
      <4> QED
        BY <1>0, <3>0, <4>1, <4>2 DEF LegacyInv
    <3>2. CASE ~HasChunks(t)
      <4>1. Raise(t, "missing")
        BY <2>2, <3>2 DEF LoadChunks
      <4> QED
        BY <1>0, <1>f, <4>1, Endings DEF Loaded
    <3> QED
      BY <3>1, <3>2
  <2>3. CASE /\ UNCHANGED <<man, rows, window>> /\ rpc[t] \in Loaded
    BY <2>3, <1>f, <1>p, <1>0
  <2>4. ASSUME \/ Submit(t) \/ ReadManifest(t) \/ CheckSnapshot(t) \/ ClearCache(t) \/ Return(t)
        PROVE  FALSE
    <3>1. CASE \E kind \in {"schema", "missing"} : Raise(t, kind)
      BY <1>0, <1>f, <3>1, Endings DEF Loaded
    <3>2. CASE ~\E kind \in {"schema", "missing"} : Raise(t, kind)
      BY <1>0, <1>f, <2>4, <3>2 DEF Submit, ReadManifest, CheckSnapshot, ClearCache, Return, Goto, Loaded
    <3> QED
      BY <3>1, <3>2
  <2> QED
    BY <2>1, <2>2, <2>3, <2>4 DEF ThreadNext, history, LoadLexical, ReadLexical, InsertBm25,
       DecideSemantic, GetScorer, ScorerRaises, LookupVectors, LoadVectors, InsertVectors, Rank, Loaded
<1>t. Part(t)'
  BY <1>l, <1>f
<1> QED
  <2>1. \A u \in Threads : Part(u)'
    BY <1>o, <1>t
  <2>2. legacy' \in LegacyContents \cup {Absent}
    BY <1>0 DEF LegacyInv
  <2>3. \A i \in DOMAIN bm25' : bm25'[i].key = Absent =>
          bm25'[i].value \in LegacyContents /\ legacy' # Absent
    BY <1>0, <1>c
  <2> QED
    <3>1. ASSUME NEW u \in Threads, man'[u] = Absent, rpc'[u] = "lookup",
                 ~(\A c, d \in LegacyContents : c = d)
          PROVE  Absent \notin Keys(bm25)'
      BY <2>1, <3>1 DEF Keys
    <3>2. ASSUME NEW u \in Threads, man'[u] = Absent,
                 \/ rpc'[u] \in {"lexical", "counts", "insert", "semantic", "scorer", "vectors",
                                 "mmap", "keep", "rank"}
                 \/ rpc'[u] = "done" /\ ans'[u].error = ""
          PROVE  /\ rows'[u] \in LegacyContents /\ legacy' # Absent
                 /\ [active |-> Absent, legacy |-> rows'[u]] \in window'[u]
      BY <2>1, <3>2 DEF Loaded
    <3> QED
      BY <2>2, <2>3, <3>1, <3>2 DEF LegacyInv

\* Nothing is cached and no call is under way at first.
LEMMA LegacyInit == QueryInit => LegacyInv
<1> SUFFICES ASSUME QueryInit PROVE LegacyInv
  OBVIOUS
<1>1. legacy \in LegacyContents \cup {Absent} /\ bm25 = << >>
  BY DEF QueryInit
<1>2. ASSUME NEW t \in Threads PROVE rpc[t] = "idle"
  BY DEF QueryInit
<1>3. DOMAIN bm25 = {}
  BY <1>1, EmptySeq
<1> QED
  BY <1>1, <1>2, <1>3 DEF LegacyInv

\* A step outside the process keeps LegacyInv: it leaves the caches and the
\* calls alone, a call under way only sees more, and chunks.jsonl is rewritten
\* but not removed.
LEMMA LegacyEnvironment ==
    ASSUME QueryInv, LegacyInv, UNCHANGED <<bm25, rpc, man, rows, ans>>,
           legacy' \in LegacyContents \/ legacy' = legacy,
           \A t \in Threads : window[t] \subseteq window'[t]
    PROVE  LegacyInv'
<1>1. legacy' \in LegacyContents \cup {Absent} /\ (legacy # Absent => legacy' # Absent)
  BY QueryAssumption DEF LegacyInv
<1>2. \A i \in DOMAIN bm25' : bm25'[i].key = Absent =>
        bm25'[i].value \in LegacyContents /\ legacy' # Absent
  BY <1>1 DEF LegacyInv
<1>3. ASSUME NEW t \in Threads, man[t] = Absent
      PROVE  /\ rpc[t] = "lookup" /\ ~(\A c, d \in LegacyContents : c = d) => Absent \notin Keys(bm25)
             /\ rpc[t] \in Loaded \/ (rpc[t] = "done" /\ ans[t].error = "")
                => /\ rows[t] \in LegacyContents /\ legacy' # Absent
                   /\ [active |-> Absent, legacy |-> rows[t]] \in window'[t]
  BY <1>1, <1>3 DEF LegacyInv, Loaded
<1> QED
  BY <1>1, <1>2, <1>3 DEF LegacyInv, Loaded

\* Every step keeps LegacyInv.
LEMMA LegacyNextInv ==
    ASSUME LegacyUndisturbed, QueryInv, LegacyInv, [QueryNext]_queryVars PROVE LegacyInv'
<1>0. window \in [Threads -> SUBSET Views]
  BY DEF QueryInv, QueryTypeOK
<1>1. CASE UNCHANGED queryVars
  BY <1>1, LegacyEnvironment DEF queryVars, disk, caches, threadVars
<1>2. ASSUME NEW m \in Builds, Rebuild(m) PROVE LegacyInv'
  <2>1. UNCHANGED <<legacy, bm25, rpc, man, rows, ans>> /\ \A t \in Threads : window[t] \subseteq window'[t]
    BY <1>2 DEF Rebuild, Witness, caches
  <2> QED
    BY <2>1, LegacyEnvironment
<1>3. CASE LegacyRewrite
  <2>1. /\ UNCHANGED <<bm25, rpc, man, rows, ans>> /\ legacy' \in LegacyContents
        /\ \A t \in Threads : window[t] \subseteq window'[t]
    BY <1>3 DEF LegacyRewrite, Witness, caches
  <2> QED
    BY <2>1, LegacyEnvironment
<1>4. ASSUME NEW m \in snapshots, NEW f \in SnapshotFiles, RemoveFile(m, f) \/ RebuildFails(m, f)
      PROVE  LegacyInv'
  <2>1. UNCHANGED <<legacy, bm25, rpc, man, rows, ans, window>>
    BY <1>4 DEF RemoveFile, RebuildFails, Unlink, caches
  <2> QED
    BY <2>1, LegacyEnvironment
<1> QED
  BY <1>1, <1>2, <1>3, <1>4, LegacyStep DEF QueryNext

\* If the old layout is not rewritten, or calls do not overlap, LegacyInv holds
\* throughout.  The hypothesis is not a technicality: two overlapping calls and
\* a rewrite between them answer from a stale entry.
THEOREM LegacyInvariant == ASSUME LegacyUndisturbed PROVE QuerySpec => []LegacyInv
<1>1. QueryInv /\ LegacyInv /\ [QueryNext]_queryVars => LegacyInv'
  BY LegacyUndisturbed, LegacyNextInv
<1> QED
  BY <1>1, LegacyInit, QueryInvariant, PTL DEF QuerySpec

\* Then every answer, with or without a generation, is that of the index that
\* was active at one instant of the call (_retrieve_index, resolve_snapshot).
THEOREM AnswersFromActiveIndex ==
    ASSUME LegacyUndisturbed PROVE QuerySpec => []AnswersActiveIndex
<1>1. QueryInv /\ LegacyInv => AnswersActiveIndex
  <2> SUFFICES ASSUME QueryInv, LegacyInv, NEW t \in Threads, Succeeded(t), ans[t].generation = Absent
               PROVE  \E v \in window[t] : AnswersFrom(ans[t], v)
    BY AnswersOfBuild DEF AnswersActiveIndex
  <2>1. QueryTypeOK /\ PinInv(t) /\ AnswerInv(t)
    BY DEF QueryInv
  <2>2. Path(t) = Absent /\ man[t] = Absent /\ ans[t].rows = rows[t] /\ ans[t].vectors = Absent
    BY <2>1, PathFacts DEF Succeeded, AnswerInv
  <2>3. [active |-> Absent, legacy |-> rows[t]] \in window[t]
    BY <2>2 DEF Succeeded, LegacyInv
  <2>4. AnswersFrom(ans[t], [active |-> Absent, legacy |-> rows[t]])
    BY <2>2, FormatAssumption DEF AnswersFrom
  <2> QED
    BY <2>3, <2>4
<1> QED
  BY <1>1, QueryInvariant, LegacyInvariant, PTL

\* In particular an answer from the old layout shows what chunks.jsonl held
\* during the call: the cache is cleared first (_retrieve_index).
THEOREM LegacyAnswersAreFresh ==
    ASSUME LegacyUndisturbed PROVE QuerySpec => []LegacyBypassesCache
<1>1. QueryInv /\ LegacyInv => LegacyBypassesCache
  <2> SUFFICES ASSUME QueryInv, LegacyInv, NEW t \in Threads, Succeeded(t), ans[t].generation = Absent
               PROVE  ans[t].rows \in {v.legacy : v \in window[t]}
    BY DEF LegacyBypassesCache
  <2>1. QueryTypeOK /\ PinInv(t) /\ AnswerInv(t)
    BY DEF QueryInv
  <2>2. man[t] = Absent /\ ans[t].rows = rows[t]
    BY <2>1, PathFacts DEF Succeeded, AnswerInv
  <2>3. [active |-> Absent, legacy |-> rows[t]] \in window[t]
    BY <2>2 DEF Succeeded, LegacyInv
  <2> QED
    BY <2>2, <2>3
<1> QED
  BY <1>1, QueryInvariant, LegacyInvariant, PTL
=============================================================================
