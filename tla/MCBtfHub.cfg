SPECIFICATION FairHubSpec
CONSTANTS
  debian = debian
  rhel = rhel
  debs = debs
  rpms = rpms
  p1 = p1
  p2 = p2
  p3 = p3
  NumCPU = 3
  WorkersFlag = 0
  MaxRuns = 1
  ForceFlags = {FALSE}
  Producers <- MCProducers
  Slices <- MCSlices
  Owner <- MCOwner
  Strict <- MCStrict
  Pkgs <- MCPkgs
  Queue <- MCQueue
  HasBTF <- MCHasBTF
  Names <- MCPkgs
  DownloadName <- MCName
  VmlinuxName <- MCName
  BTFName <- MCName
INVARIANTS
  HubTypeOK
  IncompleteIsWritten
  NoLeftovers
PROPERTIES
  Termination
CHECK_DEADLOCK FALSE
