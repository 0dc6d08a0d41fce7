\* A ring of four bytes, shorter than the stream of six.
SPECIFICATION Spec
CONSTANTS
    Size = 4
    RESERVE = 1
    MARGIN = 2
    SLACK = 1
    ENOUGH = 1
    BlockSize = 2
    FileSize = 6
    CacheSize = 1
    ReadSize = {3}
    MaxReadSeek = {0, 2}
INVARIANTS TypeOK WindowIsStream NoFalseEnd SkipOnCourse
PROPERTIES StreamSteps
