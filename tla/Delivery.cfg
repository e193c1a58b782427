CONSTANTS
  Wrappers = {w1}
  Callbacks = {c1, c2}
  Producers = {t1, t2}
  Changers = {t1}
  Reporters = {t2}
  Inside = {"change", "status", "leave"}
  MaxQueued = 1
  NoWrapper = NoWrapper
  NoCallback = NoCallback
  Nobody = Nobody
SPECIFICATION Spec
INVARIANTS TypeOK StatusIsSafe LiveMeansAttached 
PROPERTY Delivered
CHECK_DEADLOCK FALSE
