---------------------------- MODULE MCJsSession ----------------------------
(* The instance of JsSession for TLC that is reduced by symmetry.           *)
EXTENDS JsSession, TLC

\* Objects, sessions and callbacks are interchangeable.
Symmetry ==
  Permutations(Objects) \cup Permutations(Sessions) \cup Permutations(Callbacks)
=============================================================================
