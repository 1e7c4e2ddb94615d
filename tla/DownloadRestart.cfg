SPECIFICATION FairSpec
CONSTANTS
  d1 = d1  d2 = d2  s1 = s1
  NoChunk = NoChunk
  NoSlot = NoSlot
  Slot <- OneSlot
  Source <- MCSource
  HashFails = FALSE
  Chunks = 3
  PerLeaf = 2
  MaxPerHost = 1
  MaxSurplus = 0
  MaxStops = 0
  MaxRestarts = 1
CHECK_DEADLOCK FALSE
INVARIANT SavedVerdicts
PROPERTY ArrivedIsSettled
