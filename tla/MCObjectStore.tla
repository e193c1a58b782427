---------------------------- MODULE MCObjectStore ----------------------------
(* The instance of ObjectStore for TLC.                                     *)
EXTENDS ObjectStore, TLC

CONSTANTS t1, t2, s1, s2

\* Each thread has sessions of its own, as the concurrent tests do
\* (object_store_test.cpp: one session per thread).
Partitioned == t1 :> {s1} @@ t2 :> {s2}

\* Handles, watchers and objects are addresses: which one is given out is
\* immaterial.
Symmetry ==
  Permutations(Handles) \cup Permutations(Watchers) \cup Permutations(Addresses)
=============================================================================
