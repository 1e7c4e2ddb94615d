SPECIFICATION ShareFairSpec
CONSTANTS
  Paths = 2
  Ptr <- MCPtr
  MaxChanges = 1
  MaxMoves = 1
  MaxRestarts = 1
CHECK_DEADLOCK FALSE
INVARIANTS IndicesAgree DownloadsKeepInfo QhtCovers
PROPERTY Converges
