CONSTANTS
  BufferRecords = 2
  FsyncOnFlush = TRUE
  MaxEvents = 4
  Limits = {0, 2}
SPECIFICATION Spec
INVARIANTS DeliversWhatWasAppended TearReported FlushIsDurable
CHECK_DEADLOCK FALSE
