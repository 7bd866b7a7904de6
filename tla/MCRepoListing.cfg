SPECIFICATION Spec
CONSTANTS
  Selections <- MCSelections
  Entries <- MCEntries
  Pages <- MCPages
  HostRepos <- MCHostRepos
  EnabledBefore <- MCEnabledBefore
INVARIANTS
  NoKernelMissed
  OneDirectory
  LaterIsNewer
  OnePackagePerName
  AliasesSuffice
  StaysOffered
CHECK_DEADLOCK FALSE
