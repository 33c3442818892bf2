SPECIFICATION Spec
CONSTANTS
  Hosts <- SmallHosts
  Scopes <- SmallScopes
INVARIANTS
  TypeOK
  ZeroIsEarned
  AppliedClears
PROPERTIES
  UnattendedOnlyStarts
  DesktopLeftAlone
  FixStillNeeded
