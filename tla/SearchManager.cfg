SPECIFICATION SearchFairSpec
CONSTANTS
  near = near  far = far  s1 = s1
  Hub <- MCHub
  Neighbor <- MCNeighbor
  Searcher <- MCSearcher
  Self = Self
  NoKey = NoKey
  Capacity = 1
  LinearMax = 1
  MinKeyRequests = 1
INVARIANT SearchedIsSent
PROPERTY SearchesGoOn
