CONSTANTS
  Objects = {o1}
  Sessions = {s1, s2}
  Callbacks = {c1}
  Faults = {}
  OffWithout = TRUE
  NoObject = NoObject
  NoSession = NoSession
SPECIFICATION Spec
INVARIANT OffIsKept
