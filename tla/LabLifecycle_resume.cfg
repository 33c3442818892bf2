SPECIFICATION FairSpec
CONSTANTS
  a = a
  b = b
  p1 = p1
  p2 = p2
  Inst = {a}
  NoInst = NoInst
  DefaultInst = a
  Port = {p1}
  NoPort = NoPort
  Setting <- VaryingCount
  Offered = {"create", "all", "apply", "destroy"}
  Term = {t1}
  NoCommand = NoCommand
  NoVM = NoVM
  SataPorts = 4
  NoDisk = NoDisk
INVARIANTS
  RecordedDisksAttached
PROPERTIES
  CommandsEnd
