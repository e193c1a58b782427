CONSTANTS
  Workers = {w1}
  Sessions = {s1}
  Snapshots = {"old"}
  NoWorker = NoWorker
  NoSession = NoSession
  Nothing = Nothing
SPECIFICATION Spec
INVARIANT CallHasObject
