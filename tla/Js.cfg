CONSTANTS
  Objects = {o1, o2}
  Sessions = {s1, s2}
  Callbacks = {c1, c2}
  Faults = {"watch", "unwatch", "delete"}
  OffWithout = TRUE
  NoObject = NoObject
  NoSession = NoSession
SPECIFICATION Spec
INVARIANTS TypeOK CallbacksReached SessionsAreJoined CallbacksFollow
SYMMETRY Symmetry
