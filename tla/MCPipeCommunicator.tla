------------------------- MODULE MCPipeCommunicator -------------------------
(* The instances of PipeCommunicator for TLC.                               *)
EXTENDS PipeCommunicator, TLC

CONSTANTS d1, n1, n2

\* A device of one network id.
OneId == n1 :> d1

\* A device that comes back under another id.
TwoIds == n1 :> d1 @@ n2 :> d1

OfThreads == Permutations(Threads)

OfIds == OfThreads \cup Permutations({n1, n2})
=============================================================================
