CONSTANTS
  Threads = {t1, t2}
  Sessions = {s1, s2}
  Serves <- Shared
  Handles = {h1, h2, h3}
  Watchers = {w1, w2}
  Items = {i1}
  Values = {v1}
  DbFaults = {"open", "pragma", "getKvStore", "close", "register", "unregister", "put", "get", "sync"}
  NoSession = NoSession
  NoHandle = NoHandle
  NoWatcher = NoWatcher
  NoValue = NoValue
SPECIFICATION Spec
SYMMETRY Symmetry
INVARIANTS TypeOK HandleOwnership ObserverAlive NoHandleLeak DeletedMeansGone
PROPERTIES NeverReplaced
CHECK_DEADLOCK FALSE
