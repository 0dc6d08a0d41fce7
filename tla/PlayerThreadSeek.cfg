\* Every seek that check_msg accepts is carried out or given up.
SPECIFICATION FairSpec
CONSTANTS
    Command = {"SEEK", "SEEK_FULL", "SEEK_OVER"}
    MessageMax = 1
    LoopForever = 1
INVARIANTS SeekInterrupts
PROPERTIES SeekServed
CHECK_DEADLOCK FALSE
