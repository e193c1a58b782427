CONSTANTS
  t1 = t1
  t2 = t2
  s1 = s1
  s2 = s2
  Threads = {t1, t2}
  WatchThreads = {t1}
  Sessions = {s1, s2}
  Serves <- Partitioned
  Handles = {h1, h2, h3}
  Addresses = {a1, a2, a3}
  Watchers = {w1, w2}
  Items = {i1}
  Values = {v1}
  DbFaults = {"open", "pragma", "close", "register", "unregister", "put", "get", "sync"}
  MaxRetrievals = 1
  NoSession = NoSession
  NoHandle = NoHandle
  NoWatcher = NoWatcher
  NoValue = NoValue
SPECIFICATION StoreSpec
SYMMETRY Symmetry
INVARIANTS StoreTypeOK TablesAgree WatchedMeansObserved
PROPERTIES KeepsLifecycle
