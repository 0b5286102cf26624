SPECIFICATION FairSpec
CONSTANTS
  Repositories = {repository}
  Worktrees = {w1, w2}
  RepositoryOf <- OneRepository
  Runs = {a1}
  WorktreeOf <- OneEach
  Collectors = {c1, c2}
  MaxTokens = 2
  MaxFaults = 1
  MaxCrashes = 1
  Nothing = Nothing
INVARIANT RowsAreClaimedOnce
PROPERTIES LeasedFilesStay DeletionIsReal CollectionSettles
\* runs end, and the tokens are bounded
CHECK_DEADLOCK FALSE
