SPECIFICATION Spec
CONSTANTS
  Words <- MCWords
  RepoFiles <- MCRepoFiles
  Calls <- MCCalls
  MaxPatterns = 5
INVARIANTS
  SelectionIsAsked
  TreeIsAsked
CHECK_DEADLOCK FALSE
