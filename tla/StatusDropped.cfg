CONSTANTS
  d1 = d1
  n1 = n1
  n2 = n2
  Devices = {d1}
  Nodes = {n1, n2}
  Owner <- TwoIds
  Threads = {t1, t2}
  Calls = {"device", "report"}
  Calm = TRUE
  NoDevice = NoDevice
  Nameless = Nameless
  NoNode = NoNode
SPECIFICATION Spec
SYMMETRY OfIds
INVARIANT StatusIsNamed
