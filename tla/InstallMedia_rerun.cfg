SPECIFICATION Spec
CONSTANTS
  a = a
  b = b
  f = f
  w = w
  None = None
  Inst = {a}
  Mechanism <- Kinds
  FirstKey = "none"
  MaxRelease = 2
  MaxKeys = 2
INVARIANT
  WholeMedium
