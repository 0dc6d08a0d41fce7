\* Safety of the play loop with starts, stops, pauses and trick modes, with and without a loop mode.
SPECIFICATION StopLastSpec
CONSTANTS
    Command = {"START", "STOP", "PAUSE", "RESUME", "FF"}
    MessageMax = 1
    LoopForever = 2
INVARIANTS TypeOK PauseShown
PROPERTIES StopIsFinal StopIsNoError
CHECK_DEADLOCK FALSE
