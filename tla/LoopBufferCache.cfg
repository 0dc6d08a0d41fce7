\* The first read that the cache misses is made at the start of the stream.
SPECIFICATION Spec
CONSTANTS
    Size = 4
    RESERVE = 1
    MARGIN = 2
    SLACK = 1
    ENOUGH = 1
    BlockSize = 2
    FileSize = 6
    CacheSize = 1
    ReadSize = {3}
    MaxReadSeek = {0, 2}
PROPERTIES ReadAtPosition
CHECK_DEADLOCK FALSE
