SPECIFICATION Spec
CONSTANTS
  k1 = k1
  k2 = k2
  k3 = k3
  d1 = d1
  d2 = d2
  NULL = NULL
  UNKNOW = UNKNOW
  Tables = {ta, tb}
  Keys = {k1, k2, k3}
  Data = {d1, d2}
  Types = {str}
  Size = 2
  HashOf <- Colliding
  MaxStr = 2
  ta = ta
  tb = tb
  str = str
  TypeOf <- Created
SYMMETRY Symmetric
INVARIANTS TypeOK CountMatches KeyOnce OperationsCorrect
PROPERTY RefinesMap
CHECK_DEADLOCK FALSE
VIEW Sharing
