\* A stop taken by the mate after a seek and a reset is lost.
SPECIFICATION HelpedSpec
CONSTANTS
    Command = {"SEEK", "SEEK_RESET"}
    MessageMax = 1
    LoopForever = 1
PROPERTIES StopReturns
CHECK_DEADLOCK FALSE
