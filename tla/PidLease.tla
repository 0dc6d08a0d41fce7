------------------------------ MODULE PidLease ------------------------------
(***************************************************************************)
(* What the pid table promises to those who start players: a pid is lent   *)
(* to one owner at a time and only a free pid is lent.  A start that runs  *)
(* out of memory loses its pid for good (player_ctrl.c 126-129).  Players  *)
(* implements this.                                                        *)
(***************************************************************************)
CONSTANTS Owner,    \* the threads that start players
          Pid,      \* the player ids
          Free,     \* the holder of a pid that can be lent
          Lost      \* the holder of a pid that nobody will return

VARIABLE holder

LeaseInit == holder = [p \in Pid |-> Free]

Lend(o, p) == /\ holder[p] = Free
              /\ \A q \in Pid : holder[q] # o
              /\ holder' = [holder EXCEPT ![p] = o]

Return(o, p) == /\ holder[p] = o
                /\ holder' = [holder EXCEPT ![p] = Free]

Lose(o, p) == /\ holder[p] = o
              /\ holder' = [holder EXCEPT ![p] = Lost]

LeaseNext == \E o \in Owner, p \in Pid : Lend(o, p) \/ Return(o, p) \/ Lose(o, p)

LeaseSpec == LeaseInit /\ [][LeaseNext]_holder
=============================================================================
