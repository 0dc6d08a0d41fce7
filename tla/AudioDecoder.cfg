\* Every command, in a pool that overflows before the client stops.
SPECIFICATION FairSpec
CONSTANTS
  MessageMax = 3
  Command = {"PAUSE", "RESUME", "SET_VOL"}
  NULL = NULL
CHECK_DEADLOCK FALSE
INVARIANTS TypeOK PlaybackAllocated NothingLeft ReleaseAnswered
PROPERTIES ReleaseReturns
