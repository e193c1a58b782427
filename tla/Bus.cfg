CONSTANTS
  Senders = {t1, t2}
  Peers = {p1, p2}
  SessionIds = {i1, i2}
  LookupFaults = {"opened", "closed"}
  NoPeer = NoPeer
  NoId = NoId
SPECIFICATION FairSpec
INVARIANTS TypeOK MapMeansSession
PROPERTIES AnswerIsOwn EndsUnlessClosed
CHECK_DEADLOCK FALSE
