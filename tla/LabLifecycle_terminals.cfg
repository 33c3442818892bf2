SPECIFICATION Spec
CONSTANTS
  a = a
  b = b
  p1 = p1
  p2 = p2
  Inst = {a, b}
  NoInst = NoInst
  DefaultInst = a
  Port = {p1}
  NoPort = NoPort
  Setting <- DefaultPort
  Offered = {"create", "destroy"}
  Term = {t1, t2}
  NoCommand = NoCommand
  NoVM = NoVM
  SataPorts = 1
  NoDisk = NoDisk
CONSTRAINT OneCreate
SYMMETRY TermSymmetry
PROPERTIES
  DestroyOnlyWhatWasNamed
