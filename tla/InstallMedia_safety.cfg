SPECIFICATION Spec
CONSTANTS
  a = a
  b = b
  f = f
  w = w
  None = None
  Inst = {a, f, w}
  Mechanism <- Kinds
  FirstKey = "none"
  MaxRelease = 2
  MaxKeys = 2
INVARIANTS
  TypeOK
  BootsVerified
  LoginWorks
