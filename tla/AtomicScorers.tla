---------------------------- MODULE AtomicScorers ---------------------------
(***************************************************************************)
(* What _get_semantic_scorer (rag/retriever.py) promises its callers: one  *)
(* scorer per key, loaded at most once, shared by everybody, and handed    *)
(* out as if every call took effect in a single step.                      *)
(***************************************************************************)
EXTENDS Naturals

CONSTANTS
    Threads,
    Keys,           \* the (backend, model, dimension) triples in use
    FailingKeys     \* those whose model cannot be relied on to load

VARIABLES
    loaded,         \* keys whose scorer exists
    phase,          \* "idle", "called" or "served"
    asked,          \* the key of the thread's latest call
    success         \* threads whose latest call ended with the scorer

atomicVars == <<loaded, phase, asked, success>>

AtomicInit ==
    /\ loaded = {}
    /\ phase = [t \in Threads |-> "idle"]
    /\ asked \in [Threads -> Keys]
    /\ success = {}

AtomicCall(t, k) ==
    /\ phase[t] = "idle"
    /\ phase' = [phase EXCEPT ![t] = "called"]
    /\ asked' = [asked EXCEPT ![t] = k]
    /\ success' = success \ {t}
    /\ UNCHANGED loaded

\* The scorer is there, or is loaded now.
Serve(t) ==
    /\ phase[t] = "called"
    /\ phase' = [phase EXCEPT ![t] = "served"]
    /\ success' = success \cup {t}
    /\ loaded' = loaded \cup {asked[t]}
    /\ UNCHANGED asked

\* Loading was attempted, so nobody had succeeded before.
Refuse(t) ==
    /\ phase[t] = "called"
    /\ asked[t] \in FailingKeys \ loaded
    /\ phase' = [phase EXCEPT ![t] = "served"]
    /\ UNCHANGED <<loaded, asked, success>>

AtomicReturn(t) ==
    /\ phase[t] = "served"
    /\ phase' = [phase EXCEPT ![t] = "idle"]
    /\ UNCHANGED <<loaded, asked, success>>

AtomicNext ==
    \E t \in Threads :
      \/ \E k \in Keys : AtomicCall(t, k)
      \/ Serve(t) \/ Refuse(t) \/ AtomicReturn(t)

AtomicSpec == AtomicInit /\ [][AtomicNext]_atomicVars
=============================================================================
