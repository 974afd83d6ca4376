SPECIFICATION FairSpec
CONSTANTS
  bytes_per_frame = 4
  MAX_QUEUE_SIZE_RUPTURE = 1
  MAX_QUEUE_SIZE_DEFAULT = 2
  ChunkSizes <- Sizes
  MaxBytes = 20
  MaxCheckpoints = 2
  MaxTransfers = 1
  MayDrop = TRUE
INVARIANTS
  TypeOK
  StreamIntact
CHECK_DEADLOCK FALSE
PROPERTIES CheckpointAcked AcksTruthful
