\* The same clients, when one may player_stop the other's player, and the id of a joined
\* thread is given to the next thread.  Either is enough.
SPECIFICATION Spec
CONSTANTS
  MaxPlayers = 2
  Client = {c1, c2}
  StopOthers = TRUE
  Address = {a1, a2}
  Thread = {t1, t2}
  ReuseIds = TRUE
  NULL = NULL
CHECK_DEADLOCK FALSE
INVARIANT ExitAfterThread
