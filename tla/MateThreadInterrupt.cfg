\* One seek is enough to leave an interrupt behind.
SPECIFICATION Spec
CONSTANTS
    SEM_VALUE_MAX = 2
    MESSAGE_MAX = 1
INVARIANT InterruptUndone
