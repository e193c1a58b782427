--------------------------- MODULE MCStorageEngine ---------------------------
(* The instance of StorageEngine for TLC.                                   *)
EXTENDS StorageEngine, TLC

\* Every thread may work on every session.
Shared == [t \in Threads |-> Sessions]

\* Which address is given out is immaterial, and nothing in a run that shares
\* every session tells one thread or one session from another.
Symmetry ==
  Permutations(Handles) \cup Permutations(Watchers)
    \cup Permutations(Threads) \cup Permutations(Sessions)
=============================================================================
