-------------------------- MODULE ScorerCacheProofs -------------------------
(***************************************************************************)
(* Proofs about the double-checked lock of ScorerCache, for any number of  *)
(* threads, keys and failing constructors.                                 *)
(***************************************************************************)
EXTENDS ScorerCache, TLAPS

\* With an empty cache and a free lock the invariant holds.
LEMMA ScorerInitInv == ScorerInit => ScorerInv
BY CacheAssumption DEF ScorerInit, ScorerInv, ScorerTypeOK, ScorerPhases, LockDiscipline,
   Critical, Constructing, SharesCached

\* Every step of the double-checked lookup (retriever.py) preserves it, the step
\* in which a constructor raises inside the with block included.
LEMMA ScorerNextInv == ASSUME ScorerInv, [ScorerNext]_scorerVars PROVE ScorerInv'
<1> USE CacheAssumption DEF ScorerInv, ScorerTypeOK, ScorerPhases, LockDiscipline, Critical,
        Constructing, SharesCached, Goto
<1>1. CASE UNCHANGED scorerVars
  BY <1>1 DEF scorerVars
<1>2. ASSUME NEW t \in Threads, Call(t) PROVE ScorerInv'
  BY <1>2 DEF Call
<1>3. ASSUME NEW t \in Threads, FastGet(t) PROVE ScorerInv'
  BY <1>3 DEF FastGet
<1>4. ASSUME NEW t \in Threads, Acquire(t) PROVE ScorerInv'
  BY <1>4 DEF Acquire
<1>5. ASSUME NEW t \in Threads, Recheck(t) PROVE ScorerInv'
  BY <1>5 DEF Recheck
<1>6. ASSUME NEW t \in Threads, Construct(t) PROVE ScorerInv'
  BY <1>6 DEF Construct
<1>7. ASSUME NEW t \in Threads, ConstructRaises(t) PROVE ScorerInv'
  BY <1>7 DEF ConstructRaises
<1>8. ASSUME NEW t \in Threads, Store(t) PROVE ScorerInv'
  BY <1>8 DEF Store
<1>9. ASSUME NEW t \in Threads, Release(t) PROVE ScorerInv'
  BY <1>9 DEF Release
<1>10. ASSUME NEW t \in Threads, Return(t) PROVE ScorerInv'
  BY <1>10 DEF Return
<1> QED
  BY <1>1, <1>2, <1>3, <1>4, <1>5, <1>6, <1>7, <1>8, <1>9, <1>10 DEF ScorerNext

\* The inductive invariant of the double-checked lock.
THEOREM ScorerInvariant == ScorerSpec => []ScorerInv
BY ScorerInitInv, ScorerNextInv, PTL DEF ScorerSpec

\* However many threads miss the fast path of _get_semantic_scorer together,
\* and whichever constructors raise, no key's model is loaded twice.
THEOREM ScorerLoadedOnce == ScorerSpec => []LoadedOnce
<1>1. ScorerInv => LoadedOnce
  BY DEF ScorerInv, Constructing, LoadedOnce
<1> QED
  BY <1>1, ScorerInvariant, PTL

\* Every scorer that _get_semantic_scorer hands out is the cached one.
THEOREM ScorerShared == ScorerSpec => []SharesCached
<1>1. ScorerInv => SharesCached
  BY DEF ScorerInv
<1> QED
  BY <1>1, ScorerInvariant, PTL

-----------------------------------------------------------------------------
(* Refinement of the atomic cache. *)

\* A step that moves thread t alone, to p with the local scorer n.
LEMMA OneThreadMoves ==
    ASSUME ScorerTypeOK, NEW t \in Threads, NEW p, NEW n,
           spc' = [spc EXCEPT ![t] = p], scorer' = [scorer EXCEPT ![t] = n]
    PROVE  /\ PhaseOf(t)' = IF p = "idle" THEN "idle"
                            ELSE IF p \in {"release", "return"} THEN "served" ELSE "called"
           /\ Phase' = [Phase EXCEPT ![t] = PhaseOf(t)']
           /\ \A u \in Threads \ {t} : u \in Success' <=> u \in Success
           /\ t \in Success' <=> PhaseOf(t)' # "called" /\ n # 0
BY DEF ScorerTypeOK, Phase, PhaseOf, Success

\* The call of t is served: the scorer n is in its hands and in the cache.
LEMMA Served ==
    ASSUME ScorerTypeOK, NEW t \in Threads, NEW p, NEW n,
           spc' = [spc EXCEPT ![t] = p], scorer' = [scorer EXCEPT ![t] = n],
           spc[t] \in {"fast", "recheck", "store"}, p \in {"release", "return"}, n # 0,
           key' = key, Loaded' = Loaded \cup {key[t]}
    PROVE  Atomic!Serve(t)
<1>1. PhaseOf(t) = "called" /\ PhaseOf(t)' = "served"
  BY OneThreadMoves DEF PhaseOf
<1>2. Phase[t] = "called" /\ Phase' = [Phase EXCEPT ![t] = "served"]
  BY <1>1, OneThreadMoves DEF Phase
<1>3. Success' = Success \cup {t}
  BY <1>1, OneThreadMoves DEF Success
<1> QED
  BY <1>2, <1>3 DEF Atomic!Serve

\* Steps inside a call that its caller cannot see.
LEMMA Invisible ==
    ASSUME ScorerTypeOK, NEW t \in Threads, NEW p, NEW n,
           spc' = [spc EXCEPT ![t] = p], scorer' = [scorer EXCEPT ![t] = n],
           key' = key, cache' = cache,
           \/ /\ {spc[t], p} \subseteq {"fast", "acquire", "recheck", "construct", "store"}
           \/ spc[t] = "release" /\ p = "return" /\ n = scorer[t]
    PROVE  UNCHANGED Atomic!atomicVars
<1>1. PhaseOf(t)' = PhaseOf(t)
  BY OneThreadMoves DEF PhaseOf
<1>2. Phase' = Phase
  BY <1>1, OneThreadMoves DEF Phase
<1>3. Success' = Success
  BY <1>1, OneThreadMoves DEF Success, PhaseOf
<1> QED
  BY <1>2, <1>3 DEF Atomic!atomicVars, Loaded

\* Each call of _get_semantic_scorer takes effect at one instant.
THEOREM ScorerRefinement == ScorerSpec => ImplementsAtomicScorers
<1>1. ScorerInit => Atomic!AtomicInit
  BY DEF ScorerInit, Atomic!AtomicInit, Loaded, Phase, PhaseOf, Success
<1>2. ASSUME ScorerInv, [ScorerNext]_scorerVars
      PROVE  [Atomic!AtomicNext]_(Atomic!atomicVars)
  <2>0. ScorerTypeOK
    BY <1>2 DEF ScorerInv
  <2> USE <2>0 DEF Goto
  <2>1. CASE UNCHANGED scorerVars
    BY <2>1 DEF scorerVars, Atomic!atomicVars, Loaded, Phase, PhaseOf, Success
  <2>2. ASSUME NEW t \in Threads, Call(t) PROVE Atomic!AtomicNext
    <3>1. PICK k \in Keys : key' = [key EXCEPT ![t] = k]
      BY <2>2 DEF Call
    <3>2. PhaseOf(t) = "idle" /\ PhaseOf(t)' = "called"
      BY <2>2, OneThreadMoves DEF Call, PhaseOf
    <3>3. Phase[t] = "idle" /\ Phase' = [Phase EXCEPT ![t] = "called"]
      BY <2>2, <3>2, OneThreadMoves DEF Call, Phase
    <3>4. Success' = Success \ {t}
      BY <2>2, <3>2, OneThreadMoves DEF Call, Success
    <3>5. Atomic!AtomicCall(t, k)
      BY <2>2, <3>1, <3>3, <3>4 DEF Call, Atomic!AtomicCall, Loaded
    <3> QED
      BY <3>5 DEF Atomic!AtomicNext
  <2>3. ASSUME NEW t \in Threads, FastGet(t) \/ Recheck(t), cache[key[t]] # 0
        PROVE  Atomic!Serve(t)
    <3>1. Loaded' = Loaded \cup {key[t]}
      BY <2>3 DEF FastGet, Recheck, Loaded, ScorerTypeOK
    <3> QED
      BY <2>3, <3>1, Served DEF FastGet, Recheck
  <2>4. ASSUME NEW t \in Threads, FastGet(t) \/ Recheck(t), cache[key[t]] = 0
        PROVE  UNCHANGED Atomic!atomicVars
    BY <2>4, Invisible DEF FastGet, Recheck
  <2>5. ASSUME NEW t \in Threads, Acquire(t) \/ Construct(t) \/ Release(t)
        PROVE  UNCHANGED Atomic!atomicVars
    <3>1. scorer' = [scorer EXCEPT ![t] = scorer'[t]]
      BY <2>5 DEF Acquire, Construct, Release, ScorerTypeOK
    <3> QED
      BY <2>5, <3>1, Invisible DEF Acquire, Construct, Release
  <2>6. ASSUME NEW t \in Threads, ConstructRaises(t) PROVE Atomic!Refuse(t)
    <3>1. scorer[t] = 0 /\ cache[key[t]] = 0
      BY <1>2, <2>6 DEF ConstructRaises, ScorerInv, Constructing
    <3>2. scorer' = [scorer EXCEPT ![t] = 0]
      BY <2>6, <3>1 DEF ConstructRaises, ScorerTypeOK
    <3>3. PhaseOf(t) = "called" /\ PhaseOf(t)' = "served"
      <4>1. spc[t] = "construct" /\ spc' = [spc EXCEPT ![t] = "release"]
        BY <2>6 DEF ConstructRaises
      <4> QED
        BY <1>2, <3>2, <4>1, OneThreadMoves DEF PhaseOf
    <3>4. Phase[t] = "called" /\ Phase' = [Phase EXCEPT ![t] = "served"]
      BY <2>6, <3>2, <3>3, OneThreadMoves DEF ConstructRaises, Phase
    <3>5. Success' = Success
      BY <2>6, <3>1, <3>2, <3>3, OneThreadMoves DEF ConstructRaises, Success
    <3> QED
      BY <2>6, <3>1, <3>4, <3>5 DEF ConstructRaises, Atomic!Refuse, Loaded
  <2>7. ASSUME NEW t \in Threads, Store(t) PROVE Atomic!Serve(t)
    <3>1. scorer[t] # 0
      BY <1>2, <2>7 DEF Store, ScorerInv, Constructing
    <3>2. scorer' = [scorer EXCEPT ![t] = scorer[t]]
      BY <2>7 DEF Store, ScorerTypeOK
    <3>3. Loaded' = Loaded \cup {key[t]}
      BY <2>7, <3>1 DEF Store, Loaded, ScorerTypeOK
    <3> QED
      BY <2>7, <3>1, <3>2, <3>3, Served DEF Store
  <2>8. ASSUME NEW t \in Threads, Return(t) PROVE Atomic!AtomicReturn(t)
    <3>1. scorer' = [scorer EXCEPT ![t] = scorer[t]]
      BY <2>8 DEF Return, ScorerTypeOK
    <3>2. PhaseOf(t) = "served" /\ PhaseOf(t)' = "idle"
      BY <2>8, <3>1, OneThreadMoves DEF Return, PhaseOf
    <3>3. Phase[t] = "served" /\ Phase' = [Phase EXCEPT ![t] = "idle"]
      BY <2>8, <3>1, <3>2, OneThreadMoves DEF Return, Phase
    <3>4. Success' = Success
      BY <2>8, <3>1, <3>2, OneThreadMoves DEF Return, Success
    <3> QED
      BY <2>8, <3>3, <3>4 DEF Return, Atomic!AtomicReturn, Loaded
  <2> QED
    BY <1>2, <2>1, <2>2, <2>3, <2>4, <2>5, <2>6, <2>7, <2>8
       DEF ScorerNext, Atomic!AtomicNext, FastGet, Recheck
<1> QED
  BY <1>1, <1>2, ScorerInvariant, PTL
     DEF ScorerSpec, ImplementsAtomicScorers, Atomic!AtomicSpec
=============================================================================
