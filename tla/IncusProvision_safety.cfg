SPECIFICATION FairSpec
CONSTANTS
  Offered = {"ubuntu-server", "fedora", "windows-10", "windows-11"}
  MaxRuns = 3
INVARIANTS TypeOK RerunAccepted
PROPERTIES RecordedWhenReady BootedEquipped RunsEnd
