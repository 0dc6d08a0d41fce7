\* Two clients, each with a player of its own; either may stop the other's asynchronously.
SPECIFICATION Spec
CONSTANTS
  MaxPlayers = 2
  Client = {c1, c2}
  StopOthers = FALSE
  Address = {a1, a2}
  Thread = {t1, t2, t3}
  ReuseIds = FALSE
  NULL = NULL
SYMMETRY Symmetry
CHECK_DEADLOCK FALSE
INVARIANTS TypeOK ExitAfterThread  OpenIsSafe
PROPERTIES InterruptKept ImplementsLease
