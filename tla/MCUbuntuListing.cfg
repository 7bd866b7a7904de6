SPECIFICATION Spec
CONSTANTS
  k1 = k1
  k2 = k2
  k3 = k3
  k4 = k4
  Kernels <- MCKernels
  Flavor <- MCFlavor
  URLs <- MCURLs
  MainLists <- MCMainLists
  DebugLists <- MCDebugLists
  Archives <- MCArchives
INVARIANTS
  NoKernelLost
  OneEntryPerFile
  LaterIsNewer
CHECK_DEADLOCK FALSE
