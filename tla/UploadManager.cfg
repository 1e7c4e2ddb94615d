SPECIFICATION FairSpec
CONSTANTS
  MaxShare = 2
  Tenth = 2
  Keep = 1
  Uploader <- MCUploader
  Host = {a, b}
  MaxUploads = 1
  QueueSize = 0
  UploadsPerHost = 1
  Length = 2
  BulkSize = 2
CHECK_DEADLOCK FALSE
INVARIANTS TransfersWithinLimit OneOperation WithinShare
PROPERTY DeadLeaves
