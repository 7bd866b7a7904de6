SPECIFICATION Spec
CONSTANTS
  Selections <- RHELReleases
  Entries <- MCEntries
  Pages <- MCPages
  HostRepos = {}
  EnabledBefore = {{}}
INVARIANTS
  OwnRelease
CHECK_DEADLOCK FALSE
