SPECIFICATION HubSpec
CONSTANTS
  distro = distro
  kernels = kernels
  p1 = p1
  p2 = p2
  p3 = p3
  NumCPU = 3
  WorkersFlag = 0
  MaxRuns = 1
  ForceFlags = {FALSE}
  Strict = {}
  HasBTF = {}
  Producers <- MCProducers
  Slices <- MCSlices
  Owner <- MCOwner
  Pkgs <- MCPkgs
  Queue <- MCQueue
  Names <- MCPkgs
  DownloadName <- MCName
  VmlinuxName <- MCName
  BTFName <- MCSharedName
INVARIANTS
  SuccessIsKept
CHECK_DEADLOCK FALSE
