SPECIFICATION Spec
CONSTANT MaxBoots = 4
INVARIANTS
  TypeOK
  VerifiedAcrossReboot
  RecordedMeansInstalled
  InstallsIntoPools
