\* Three lines of flash in two sectors, two lines of cache; or batches of up to
\* three records, of which a line holds two.
CONSTANTS
  v1 = v1
  v2 = v2
  Erased = Erased
  Free = Free
  Values <- TwoValues
  Data <- Pieces
  Offsets = {1, 2, 4}
  Owners = {"app", "telemetry"}
  kMaxLines = 2
  lineSize = 2
  SectorSize = 4
  TotalSize = 6
  kMaxRecords = 3
  uploadInterval = 3
  WordSize = 5
SPECIFICATION CacheSpec
INVARIANTS CacheConsistent
PROPERTIES BatchStored RecordsLeave
