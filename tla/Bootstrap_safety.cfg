CONSTANTS
  Manifest <- Shipped
  MaxInvocations = 2
SPECIFICATION Spec
CHECK_DEADLOCK FALSE
INVARIANTS
  TypeOK
  UpdatedOnce
  Isolated
  NoPostWithoutInstall
  ReportedInstalled
PROPERTY DryRunIsInert
