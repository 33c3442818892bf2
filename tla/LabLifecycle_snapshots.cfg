SPECIFICATION Spec
CONSTANTS
  a = a
  b = b
  p1 = p1
  p2 = p2
  Inst = {a}
  NoInst = NoInst
  DefaultInst = a
  Port = {p1, p2}
  NoPort = NoPort
  Setting <- OwnPorts
  Offered = {"create", "all", "apply", "destroy", "restore", "snapshot"}
  Term = {t1}
  NoCommand = NoCommand
  NoVM = NoVM
  SataPorts = 3
  NoDisk = NoDisk
INVARIANTS
  SnapshotsWhole
  ProvisionMeansInstalled
  RecordedDisksAttached
