----------------------------- MODULE ScorerCache ----------------------------
(***************************************************************************)
(* The double-checked lock of _get_semantic_scorer (rag/retriever.py):     *)
(* query threads look in _scorer_cache without _scorer_lock, then again    *)
(* with it, and construct the SemanticScorer (rag/semantic.py) only if it  *)
(* is still missing.  One dictionary operation is one step of the          *)
(* interpreter; constructing a model takes arbitrarily long and may raise. *)
(***************************************************************************)
EXTENDS Naturals, FiniteSets

CONSTANTS
    Threads,
    Keys,           \* the (backend, model, dimension) triples in use
    FailingKeys,    \* those whose model may fail to load
    NoThread,       \* the lock is free
    MaxFailures     \* bound on the constructor calls that raise

ASSUME CacheAssumption ==
    /\ FailingKeys \subseteq Keys
    /\ NoThread \notin Threads
    /\ MaxFailures \in Nat

VARIABLES
    cache,      \* _scorer_cache: 0, or the serial number of the key's scorer
    lock,       \* holder of _scorer_lock
    spc, key,   \* each thread's place in the function and its argument
    scorer,     \* its local variable; 0 is None
    made,       \* history: how many scorers were constructed for each key
    failures    \* history: how many constructor calls raised

scorerVars == <<cache, lock, spc, key, scorer, made, failures>>

ScorerPhases == {"idle", "fast", "acquire", "recheck", "construct", "store",
                 "release", "return"}
Critical == {"recheck", "construct", "store", "release"}
Goto(t, phase) == spc' = [spc EXCEPT ![t] = phase]

ScorerInit ==
    /\ cache = [k \in Keys |-> 0]
    /\ lock = NoThread
    /\ spc = [t \in Threads |-> "idle"]
    /\ key \in [Threads -> Keys]
    /\ scorer = [t \in Threads |-> 0]
    /\ made = [k \in Keys |-> 0]
    /\ failures = 0

Call(t) ==
    /\ spc[t] = "idle"
    /\ \E k \in Keys : key' = [key EXCEPT ![t] = k]
    /\ scorer' = [scorer EXCEPT ![t] = 0]
    /\ Goto(t, "fast")
    /\ UNCHANGED <<cache, lock, made, failures>>

\* Mutant: no look at the cache before the lock.
FastGetOmitted(t) ==
    /\ spc[t] = "fast"
    /\ Goto(t, "acquire")
    /\ UNCHANGED <<cache, lock, key, scorer, made, failures>>

FastGet(t) ==
    /\ spc[t] = "fast"
    /\ scorer' = [scorer EXCEPT ![t] = cache[key[t]]]
    /\ Goto(t, IF cache[key[t]] # 0 THEN "return" ELSE "acquire")
    /\ UNCHANGED <<cache, lock, key, made, failures>>

\* Mutant: the lock does not exclude anybody.
AcquireUnlocked(t) ==
    /\ spc[t] = "acquire"
    /\ lock' = t
    /\ Goto(t, "recheck")
    /\ UNCHANGED <<cache, key, scorer, made, failures>>

Acquire(t) ==
    /\ spc[t] = "acquire"
    /\ lock = NoThread
    /\ lock' = t
    /\ Goto(t, "recheck")
    /\ UNCHANGED <<cache, key, scorer, made, failures>>

\* Mutant: no second look under the lock.
RecheckOmitted(t) ==
    /\ spc[t] = "recheck"
    /\ Goto(t, "construct")
    /\ UNCHANGED <<cache, lock, key, scorer, made, failures>>

Recheck(t) ==
    /\ spc[t] = "recheck"
    /\ scorer' = [scorer EXCEPT ![t] = cache[key[t]]]
    /\ Goto(t, IF cache[key[t]] # 0 THEN "release" ELSE "construct")
    /\ UNCHANGED <<cache, lock, key, made, failures>>

Construct(t) ==
    /\ spc[t] = "construct"
    /\ made' = [made EXCEPT ![key[t]] = @ + 1]
    /\ scorer' = [scorer EXCEPT ![t] = made'[key[t]]]
    /\ Goto(t, "store")
    /\ UNCHANGED <<cache, lock, key, failures>>

\* Mutant: acquire() and release() without with or finally.
ConstructRaisesLocked(t) ==
    /\ spc[t] = "construct"
    /\ key[t] \in FailingKeys
    /\ failures < MaxFailures
    /\ failures' = failures + 1
    /\ Goto(t, "return")
    /\ UNCHANGED <<cache, lock, key, scorer, made>>

\* The with statement releases the lock on the way out.
ConstructRaises(t) ==
    /\ spc[t] = "construct"
    /\ key[t] \in FailingKeys
    /\ failures < MaxFailures
    /\ failures' = failures + 1
    /\ Goto(t, "release")
    /\ UNCHANGED <<cache, lock, key, scorer, made>>

\* Mutant: the scorer is not stored.
StoreOmitted(t) ==
    /\ spc[t] = "store"
    /\ Goto(t, "release")
    /\ UNCHANGED <<cache, lock, key, scorer, made, failures>>

Store(t) ==
    /\ spc[t] = "store"
    /\ cache' = [cache EXCEPT ![key[t]] = scorer[t]]
    /\ Goto(t, "release")
    /\ UNCHANGED <<lock, key, scorer, made, failures>>

Release(t) ==
    /\ spc[t] = "release"
    /\ lock' = NoThread
    /\ Goto(t, "return")
    /\ UNCHANGED <<cache, key, scorer, made, failures>>

\* The scorer goes to the caller, or the exception does.
Return(t) ==
    /\ spc[t] = "return"
    /\ Goto(t, "idle")
    /\ UNCHANGED <<cache, lock, key, scorer, made, failures>>

ScorerNext ==
    \E t \in Threads :
      \/ Call(t) \/ FastGet(t) \/ Acquire(t) \/ Recheck(t) \/ Construct(t)
      \/ ConstructRaises(t) \/ Store(t) \/ Release(t) \/ Return(t)

ScorerSpec == ScorerInit /\ [][ScorerNext]_scorerVars

\* A runnable thread is eventually scheduled; threading.Lock does not queue its
\* waiters, so acquiring it is only weakly fair; nobody has to make calls, and a
\* model may take for ever to load.
Light(t) == FastGet(t) \/ Acquire(t) \/ Recheck(t) \/ Store(t) \/ Release(t) \/ Return(t)
Load(t) == Construct(t) \/ ConstructRaises(t)
ScorerFairSpec == ScorerSpec /\ \A t \in Threads : WF_scorerVars(Light(t))
LoadsEnd == \A t \in Threads : WF_scorerVars(Load(t))

-----------------------------------------------------------------------------
(* Properties. *)

ScorerTypeOK ==
    /\ cache \in [Keys -> Nat]
    /\ lock \in Threads \cup {NoThread}
    /\ spc \in [Threads -> ScorerPhases]
    /\ key \in [Threads -> Keys]
    /\ scorer \in [Threads -> Nat]
    /\ made \in [Keys -> Nat]
    /\ failures \in Nat

\* "Cache initialization can race even with lru_cache; serialize model
\* construction" (retriever.py): no model is loaded twice for one key, also
\* when several threads miss the fast path together or a load failed before.
LoadedOnce == \A k \in Keys : made[k] <= 1

\* Every call that returns a scorer returns the one that is in the cache, so
\* that all threads share it.
SharesCached ==
    \A t \in Threads : spc[t] \in {"release", "return"} /\ scorer[t] # 0 =>
      scorer[t] = cache[key[t]]

\* The lock is held exactly by the thread inside the with block: a constructor
\* that raises does not leave it locked.
LockDiscipline ==
    \A t \in Threads : (lock = t) <=> (spc[t] \in Critical)

\* While a thread constructs or stores a scorer, the key is not yet cached and
\* the scorer in hand is the only one made.
Constructing ==
    /\ \A k \in Keys : (cache[k] # 0 \/ \E t \in Threads : spc[t] = "store" /\ key[t] = k)
                       <=> made[k] # 0
    /\ \A k \in Keys : cache[k] <= 1 /\ made[k] <= 1
    /\ \A t \in Threads : spc[t] \in {"construct", "store"} => cache[key[t]] = 0
    /\ \A t \in Threads : spc[t] \in {"fast", "acquire", "construct"} => scorer[t] = 0
    /\ \A t \in Threads : spc[t] = "store" => scorer[t] = 1

ScorerInv == ScorerTypeOK /\ LockDiscipline /\ Constructing /\ SharesCached

\* Every call returns or raises, provided that models do load or fail
\* eventually and do not fail for ever: nobody waits for a lock that a raising
\* constructor has left behind.
CallsReturn == LoadsEnd => \A t \in Threads : spc[t] # "idle" ~> spc[t] = "idle"

\* "Fast path for an initialized model" (retriever.py): a call for a scorer
\* that exists returns even if another thread never finishes loading its model
\* while holding the lock.
InitializedNeverBlocks ==
    \A t \in Threads :
      (spc[t] = "fast" /\ cache[key[t]] # 0) ~> (spc[t] = "idle")

\* The function behaves as if each call took effect at one instant: when the
\* scorer is found, when it is stored, or when its constructor raises.
PhaseOf(t) == IF spc[t] = "idle" THEN "idle"
              ELSE IF spc[t] \in {"release", "return"} THEN "served" ELSE "called"
Phase == [t \in Threads |-> PhaseOf(t)]
Success == {t \in Threads : PhaseOf(t) # "called" /\ scorer[t] # 0}
Loaded == {k \in Keys : cache[k] # 0}
Atomic == INSTANCE AtomicScorers
          WITH loaded <- Loaded, phase <- Phase, asked <- key, success <- Success
\* Every step of the double-checked lookup (retriever.py) is a step of that
\* atomic function or changes nothing a caller can see.
ImplementsAtomicScorers == Atomic!AtomicSpec
=============================================================================
