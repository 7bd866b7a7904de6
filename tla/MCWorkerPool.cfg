SPECIFICATION FairPoolSpec
CONSTANTS
  ubuntu = ubuntu
  rhel = rhel
  generic = generic
  aws = aws
  main_rhel = main_rhel
  p1 = p1
  p2 = p2
  p3 = p3
  p4 = p4
  NumCPU = 3
  WorkersFlag = 0
  MaxRuns = 2
  Producers <- MCProducers
  Slices <- MCSlices
  Owner <- MCOwner
  Strict <- MCStrict
  Pkgs <- MCPkgs
  Queue <- MCQueue
INVARIANTS
  PoolTypeOK
  ReplyMatched
  ClosedIsQuiet
  OkExitComplete
PROPERTIES
  Termination
CHECK_DEADLOCK FALSE
