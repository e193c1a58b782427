CONSTANTS
  d1 = d1
  n1 = n1
  n2 = n2
  Devices = {d1}
  Nodes = {n1}
  Owner <- OneId
  Threads = {t1, t2}
  Calls = {"data", "device", "report"}
  Calm = FALSE
  NoDevice = NoDevice
  Nameless = Nameless
  NoNode = NoNode
SPECIFICATION Spec
SYMMETRY OfThreads
INVARIANTS TypeOK NoCallAfterClear ViewIsRight NamesCurrent
PROPERTY RegistersAgain
