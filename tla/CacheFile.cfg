\* Pages of two bytes; the pages are written whole, but a part of one is read.
SPECIFICATION Spec
CONSTANTS
    PageSize = 2
    FileSize = 6
    Request = {1, 2, 3}
    Fault = {"read of a part"}
INVARIANT ReadIsStored
CHECK_DEADLOCK FALSE
