SPECIFICATION Spec
CONSTANTS
  Keys = {k1, k2}
  NoKey = NoKey
  Numbers <- OneNumber
  Texts <- TwoTexts
  WordLen = 2
  Faults = {"put", "get"}
SYMMETRY Symmetry
INVARIANTS TypeOK GetIsTrue JoinPublishes
PROPERTY KeepsOnLeave
