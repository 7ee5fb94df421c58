SPECIFICATION FairSpec
CONSTANTS
  Versions = {"a", "b", "c"}
  Length <- MCLength
  Retries = 2
  Limits = {0, 2}
  Destinations = {"memory", "stream", "device", "file"}
  Framings = {"length", "chunked", "close"}
INVARIANTS
  TypeOK
  ResumesWhatItHolds
  LeavesNothingBehind
PROPERTIES
  DeliversOneBody
  DownloadEnds
CHECK_DEADLOCK FALSE
