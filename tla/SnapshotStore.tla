--------------------------- MODULE SnapshotStore ----------------------------
(***************************************************************************)
(* What the index directory promises its readers: a set of whole,          *)
(* immutable snapshots, and one active snapshot that changes in a single   *)
(* step, to a snapshot under a new name.  A snapshot is withdrawn only     *)
(* when the build that published it fails after the switch.                *)
(* IndexStore implements it; QueryService and Evaluation read from it.     *)
(***************************************************************************)
EXTENDS IndexFormat

VARIABLES
    active,     \* the root manifest
    snapshots   \* the snapshots that are whole on disk and were published

snapshotVars == <<active, snapshots>>

Names == {s.generation : s \in snapshots}

SnapshotInit ==
    /\ active \in {Absent, Unsupported}
    /\ snapshots = {}

Publish(m) ==
    /\ m.generation \notin Names
    /\ WellFormed(m)
    /\ active' = m
    /\ snapshots' = snapshots \cup {m}

\* The clean-up after os.replace raises, and build_index deletes what it has
\* just published.
Withdraw(m) ==
    /\ m \in snapshots
    /\ snapshots' = snapshots \ {m}
    /\ UNCHANGED active

SnapshotNext == \E m \in Metadata : Publish(m) \/ Withdraw(m)
SnapshotSpec == SnapshotInit /\ [][SnapshotNext]_snapshotVars
=============================================================================
