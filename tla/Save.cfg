CONSTANTS
  Workers = {w1, w2}
  Sessions = {s1}
  Snapshots = {"old"}
  NoWorker = NoWorker
  NoSession = NoSession
  Nothing = Nothing
SPECIFICATION FairSpec
INVARIANTS TypeOK AnswerHasFrame Agreement
PROPERTY LockIsReleased
