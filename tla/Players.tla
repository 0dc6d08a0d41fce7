------------------------------ MODULE Players -------------------------------
(***************************************************************************)
(* Several players at once: the pid table (amplayer/player/player_id.c),   *)
(* player_start, player_stop, player_stop_async and player_exit            *)
(* (player_ctrl.c), the creation and the joins of the player threads       *)
(* (thread_mgt.c) and the list of interrupted threads                      *)
(* (player_ffmpeg_ctrl.c).                                                 *)
(*                                                                         *)
(* A client starts a player, may stop it, and exits it; while it has none  *)
(* it may stop a player of another client, whose pid player_list_pid has   *)
(* shown it.  What a player thread does in between is PlayerThread's: here *)
(* it plays, takes a stop, is interrupted and released by its mate, and    *)
(* ends, at any time and in any order.  Every action is one critical       *)
(* section of priv_pid_mutex, one library call, or the code between two    *)
(* of them.                                                                *)
(*                                                                         *)
(* priv_pid_used is left out: it decides nothing but a log line.  The      *)
(* allocation of a command is taken to succeed.                            *)
(***************************************************************************)
EXTENDS Integers

CONSTANTS MaxPlayers,   \* MAX_PLAYER_THREADS
          Client,       \* threads that use the player_xxx API
          StopOthers,   \* a client may player_stop a player that is not its own
          Address,      \* where play_para_t may be allocated
          Thread,       \* thread ids
          ReuseIds,     \* a joined thread's id may be given to a new thread
          NULL

Pid == 0 .. MaxPlayers - 1

ASSUME PlayersAssumption == /\ MaxPlayers \in Nat \ {0}
                            /\ NULL \notin Address \cup Thread
                            /\ {"free", "lost"} \cap Client = {}
                            /\ StopOthers \in BOOLEAN
                            /\ ReuseIds \in BOOLEAN

VARIABLES pool,     \* priv_pid_pool
          data,     \* priv_pid_data
          last,     \* where player_request_pid left off
          para,     \* play_para_t at each address; a freed one keeps its contents
          thread,   \* the threads, and the parameters each was given
          kill,     \* kill_item_list
          at,       \* where each client is
          call      \* the pid, the parameters and the thread id a client has in hand

vars == <<pool, data, last, para, thread, kill, at, call>>

\* A stop is the only content of the message pool that matters here.
Para == [live : BOOLEAN, pthread_id : Thread \cup {NULL}, exited : BOOLEAN, stop : BOOLEAN]

\* What MALLOC and memset leave.
NewPara == [live |-> TRUE, pthread_id |-> NULL, exited |-> FALSE, stop |-> FALSE]

\* A thread runs with request_end_flag clear, was asked to end (the flag is set), is past
\* PLAYER_EXIT, has ended, was joined.
Phase == {"none", "running", "asked", "leaving", "ended", "joined"}

Starting == {"requested", "published", "created", "failed"}
Stopping == {"stop", "clear", "send", "join", "joining", "uninterrupt"}
Exiting == {"lastjoin", "lastjoining", "lastuninterrupt"}
At == {"idle", "playing", "freed"} \cup Starting \cup Stopping \cup Exiting

Call == [home : {"idle", "playing"}, op : {"start", "async", "stop", "exit"}, pid : Pid,
         para : Address \cup {NULL}, tid : Thread \cup {NULL}]

NoCall == [home |-> "idle", op |-> "start", pid |-> 0, para |-> NULL, tid |-> NULL]

Init == /\ pool = {}
        /\ data = [p \in Pid |-> NULL]
        /\ last = -1
        /\ para = [a \in Address |-> [NewPara EXCEPT !.live = FALSE]]
        /\ thread = [t \in Thread |-> [is |-> "none", para |-> NULL]]
        /\ kill = {}
        /\ at = [c \in Client |-> "idle"]
        /\ call = [c \in Client |-> NoCall]

Goto(c, label) == at' = [at EXCEPT ![c] = label]

-----------------------------------------------------------------------------
(* The pid table. *)

\* The k-th place player_request_pid looks at, after last and around the table.
Probe(k) == (last + k) % MaxPlayers

FreeProbes == {k \in 1 .. MaxPlayers : Probe(k) \notin pool}

\* mutant: the scan takes a pid that is in use when it comes around
RequestAny(p) == p = Probe(1)

\* player_request_pid takes the first free pid after last.
Requested(p) == \E k \in FreeProbes : /\ p = Probe(k)
                                      /\ \A j \in FreeProbes : k <= j

\* mutant: last is where the next scan begins, one too far at the end of the table
RequestPast(o) == /\ at[o] = "idle"
                  /\ \E p \in Pid : /\ Requested(p)
                                    /\ pool' = pool \cup {p}
                                    /\ data' = [data EXCEPT ![p] = NULL]
                                    /\ last' = p + 1
                                    /\ call' = [call EXCEPT ![o] = [NoCall EXCEPT !.pid = p]]
                  /\ Goto(o, "requested")
                  /\ UNCHANGED <<para, thread, kill>>

\* player_start without a free pid returns PLAYER_NOT_VALID_PID.
Request(o) == /\ at[o] = "idle"
              /\ \E p \in Pid : /\ Requested(p)
                                /\ pool' = pool \cup {p}
                                /\ data' = [data EXCEPT ![p] = NULL]
                                /\ last' = p
                                /\ call' = [call EXCEPT ![o] = [NoCall EXCEPT !.pid = p]]
              /\ Goto(o, "requested")
              /\ UNCHANGED <<para, thread, kill>>

\* player_release_pid
Release(o) == /\ at[o] = "freed"
              /\ pool' = pool \ {call[o].pid}
              /\ data' = [data EXCEPT ![call[o].pid] = NULL]
              /\ call' = [call EXCEPT ![o] = NoCall]
              /\ Goto(o, "idle")
              /\ UNCHANGED <<last, para, thread, kill>>

-----------------------------------------------------------------------------
(* player_start *)

\* A heap that is full is a return without a release of the pid.
OutOfMemory(o) == /\ at[o] = "requested"
                  /\ call' = [call EXCEPT ![o] = NoCall]
                  /\ Goto(o, "idle")
                  /\ UNCHANGED <<pool, data, last, para, thread, kill>>

\* MALLOC, and player_init_pid_data publishes the parameters.
Allocate(o) ==
    /\ at[o] = "requested"
    /\ \E a \in Address :
          /\ ~para[a].live
          /\ para' = [para EXCEPT ![a] = NewPara]
          /\ data' = [data EXCEPT ![call[o].pid] = a]
          /\ call' = [call EXCEPT ![o].para = a]
    /\ Goto(o, "published")
    /\ UNCHANGED <<pool, last, thread, kill>>

NewId(t) == thread[t].is = "none" \/ (ReuseIds /\ thread[t].is = "joined")

\* message_pool_init, which forgets what another client has sent, and pthread_create.
Create(o) ==
    /\ at[o] = "published"
    /\ para' = [para EXCEPT ![call[o].para].stop = FALSE]
    /\ \/ \E t \in Thread :
             /\ NewId(t)
             /\ thread' = [thread EXCEPT ![t] = [is |-> "running", para |-> call[o].para]]
             /\ call' = [call EXCEPT ![o].tid = t]
             /\ Goto(o, "created")
       \/ /\ Goto(o, "failed")
          /\ UNCHANGED <<thread, call>>
    /\ UNCHANGED <<pool, data, last, kill>>

\* player_thread_create stores the id while the thread already runs.
Started(o) == /\ at[o] = "created"
              /\ para' = [para EXCEPT ![call[o].para].pthread_id = call[o].tid]
              /\ call' = [call EXCEPT ![o].para = NULL, ![o].tid = NULL]
              /\ Goto(o, "playing")
              /\ UNCHANGED <<pool, data, last, thread, kill>>

\* mutant: a failed start forgets the pid
StartFailedKeep(o) == /\ at[o] = "failed"
                      /\ para' = [para EXCEPT ![call[o].para].live = FALSE]
                      /\ call' = [call EXCEPT ![o] = NoCall]
                      /\ Goto(o, "idle")
                      /\ UNCHANGED <<pool, data, last, thread, kill>>

\* The parameters are freed while the pid still leads to them.
StartFailed(o) == /\ at[o] = "failed"
                  /\ para' = [para EXCEPT ![call[o].para].live = FALSE]
                  /\ Goto(o, "freed")
                  /\ UNCHANGED <<pool, data, last, thread, kill, call>>

-----------------------------------------------------------------------------
(* The player thread. *)

Playing(t) == thread[t].is \in {"running", "asked"}

\* check_flag, the mate or check_stop_cmd takes the stop.  The thread need not end for it:
\* a reset that is waiting clears end_flag, and play goes on.
TakeStop(t) == /\ Playing(t)
               /\ para[thread[t].para].stop
               /\ para' = [para EXCEPT ![thread[t].para].stop = FALSE]
               /\ thread' = [thread EXCEPT ![t].is = "asked"]
               /\ UNCHANGED <<pool, data, last, kill, at, call>>

\* A window in which the mate takes a seek: it interrupts the read and player_mate_sleep
\* takes the thread off the list again, with what a player_stop has put there.  No call
\* reads the list in between, and an id that is not stored yet is on no list.
MateWindow(t) == /\ Playing(t)
                 /\ kill' = kill \ {para[thread[t].para].pthread_id}
                 /\ UNCHANGED <<pool, data, last, para, thread, at, call>>

\* Playback is over, by itself, by an error or by a stop: the state becomes PLAYER_EXIT.
Ending(t) == /\ Playing(t)
             /\ thread' = [thread EXCEPT ![t].is = "leaving"]
             /\ para' = [para EXCEPT ![thread[t].para].exited = TRUE]
             /\ UNCHANGED <<pool, data, last, kill, at, call>>

\* The last update_player_states and pthread_exit.
Ended(t) == /\ thread[t].is = "leaving"
            /\ thread' = [thread EXCEPT ![t] = [is |-> "ended", para |-> NULL]]
            /\ UNCHANGED <<pool, data, last, para, kill, at, call>>

-----------------------------------------------------------------------------
(* player_stop, player_stop_async and player_exit.  A call goes on with the
   parameters it has opened, freed or not. *)

\* player_open_pid_data
Open(p) == IF p \in pool THEN data[p] ELSE NULL

\* The calls a client may make and the pids it may make them with.
May(c, op, p) == \/ at[c] = "playing" /\ op \in {"stop", "exit"} /\ p = call[c].pid
                 \/ at[c] = "idle" /\ op = "async"
                 \/ at[c] = "idle" /\ op = "stop" /\ StopOthers

\* Entering a call; PLAYER_NOT_VALID_PID leaves nothing behind, and player_exit
\* of a player in PLAYER_EXIT does not stop it.
Enter(c, op, p) ==
    /\ May(c, op, p)
    /\ Open(p) # NULL
    /\ call' = [call EXCEPT ![c] = [home |-> at[c], op |-> op, pid |-> p, para |-> Open(p), tid |-> NULL]]
    /\ Goto(c, IF op = "exit" /\ para[Open(p)].exited THEN "lastjoin" ELSE "stop")
    /\ UNCHANGED <<pool, data, last, para, thread, kill>>

\* player_stop returns, into player_exit or to the client.
Return(c) ==
    LET pid == IF call[c].home = "playing" THEN call[c].pid ELSE 0
    IN IF call[c].op = "exit"
       THEN /\ Goto(c, "lastjoin")
            /\ call' = [call EXCEPT ![c].tid = NULL]
       ELSE /\ Goto(c, call[c].home)
            /\ call' = [call EXCEPT ![c] = [NoCall EXCEPT !.pid = pid]]

\* The thread is in PLAYER_EXIT already.
NoStop(c) == /\ at[c] = "stop"
             /\ para[call[c].para].exited
             /\ Return(c)
             /\ UNCHANGED <<pool, data, last, para, thread, kill>>

\* The thread is not stopped yet; it may be before the next line.
Stops(c) == /\ at[c] = "stop"
            /\ ~para[call[c].para].exited
            /\ Goto(c, "clear")
            /\ UNCHANGED <<pool, data, last, para, thread, kill, call>>

\* clear_all_message takes back every stop that is waiting, ffmpeg_interrupt lists the
\* thread; nothing tells a step between the two from one before or after.  An entry
\* for an id that is not set yet matches no thread.
Interrupt(c) == /\ at[c] = "clear"
                /\ para' = [para EXCEPT ![call[c].para].stop = FALSE]
                /\ kill' = kill \cup ({para[call[c].para].pthread_id} \ {NULL})
                /\ Goto(c, "send")
                /\ UNCHANGED <<pool, data, last, thread, call>>

\* mutant: player_stop_async finds no memory for its command, after it has cleared the pool
SendSync(c) == /\ at[c] = "send"
               /\ para' = [para EXCEPT ![call[c].para].stop = @ \/ call[c].op # "async"]
               /\ IF call[c].op = "async" THEN Return(c) ELSE Goto(c, "join") /\ UNCHANGED call
               /\ UNCHANGED <<pool, data, last, thread, kill>>

\* send_message; player_stop_async is done.
Send(c) == /\ at[c] = "send"
           /\ para' = [para EXCEPT ![call[c].para].stop = TRUE]
           /\ IF call[c].op = "async" THEN Return(c) ELSE Goto(c, "join") /\ UNCHANGED call
           /\ UNCHANGED <<pool, data, last, thread, kill>>

\* pthread_join returns at once for a thread that is gone or being joined already.
NoJoin(c, t) == \/ t = NULL
                \/ thread[t].is = "joined"
                \/ \E d \in Client \ {c} : at[d] \in {"joining", "lastjoining"} /\ call[d].tid = t

\* player_thread_wait_exit
Join(c) == /\ at[c] \in {"join", "lastjoin"}
           /\ LET t == para[call[c].para].pthread_id
              IN IF NoJoin(c, t)
                 THEN /\ Goto(c, IF at[c] = "join" THEN "uninterrupt" ELSE "lastuninterrupt")
                      /\ call' = [call EXCEPT ![c].tid = NULL]
                 ELSE /\ Goto(c, IF at[c] = "join" THEN "joining" ELSE "lastjoining")
                      /\ call' = [call EXCEPT ![c].tid = t]
           /\ UNCHANGED <<pool, data, last, para, thread, kill>>

Joined(c) == /\ at[c] \in {"joining", "lastjoining"}
             /\ thread[call[c].tid].is = "ended"
             /\ thread' = [thread EXCEPT ![call[c].tid] = [is |-> "joined", para |-> NULL]]
             /\ call' = [call EXCEPT ![c].tid = NULL]
             /\ Goto(c, IF at[c] = "joining" THEN "uninterrupt" ELSE "lastuninterrupt")
             /\ UNCHANGED <<pool, data, last, para, kill>>

\* mutant: one player's uninterrupt takes every thread off the list
UninterruptAll(c) == /\ at[c] = "uninterrupt"
                     /\ para' = [para EXCEPT ![call[c].para].stop = FALSE]
                     /\ kill' = {}
                     /\ Return(c)
                     /\ UNCHANGED <<pool, data, last, thread>>

\* The end of player_stop: clear_all_message and ffmpeg_uninterrupt.
Uninterrupt(c) == /\ at[c] = "uninterrupt"
                  /\ para' = [para EXCEPT ![call[c].para].stop = FALSE]
                  /\ kill' = kill \ {para[call[c].para].pthread_id}
                  /\ Return(c)
                  /\ UNCHANGED <<pool, data, last, thread>>

\* mutant: player_exit trusts player_stop to have waited
ExitUnjoined(c) == /\ at[c] \in {"lastjoin", "lastuninterrupt"}
                   /\ kill' = kill \ {para[call[c].para].pthread_id}
                   /\ para' = [para EXCEPT ![call[c].para].live = FALSE]
                   /\ Goto(c, "freed")
                   /\ UNCHANGED <<pool, data, last, thread, call>>

\* The end of player_exit: ffmpeg_uninterrupt and FREE; the release follows.
Exit(c) == /\ at[c] = "lastuninterrupt"
           /\ kill' = kill \ {para[call[c].para].pthread_id}
           /\ para' = [para EXCEPT ![call[c].para].live = FALSE]
           /\ Goto(c, "freed")
           /\ UNCHANGED <<pool, data, last, thread, call>>

-----------------------------------------------------------------------------

Start(o) == Request(o) \/ OutOfMemory(o) \/ Allocate(o) \/ Create(o)
            \/ Started(o) \/ StartFailed(o) \/ Release(o)

Stop(c) == NoStop(c) \/ Stops(c) \/ Interrupt(c) \/ Send(c) \/ Join(c) \/ Joined(c)
           \/ Uninterrupt(c) \/ Exit(c)

PlayerStep(t) == TakeStop(t) \/ MateWindow(t) \/ Ending(t) \/ Ended(t)

Next == \/ \E o \in Client : Start(o)
        \/ \E c \in Client : Stop(c)
        \/ \E c \in Client, op \in {"async", "stop", "exit"}, p \in Pid : Enter(c, op, p)
        \/ \E t \in Thread : PlayerStep(t)

Spec == Init /\ [][Next]_vars

-----------------------------------------------------------------------------

TypeOK == /\ pool \subseteq Pid
          /\ data \in [Pid -> Address \cup {NULL}]
          /\ last \in Pid \cup {-1}
          /\ para \in [Address -> Para]
          /\ thread \in [Thread -> [is : Phase, para : Address \cup {NULL}]]
          /\ kill \subseteq Thread
          /\ at \in [Client -> At]
          /\ call \in [Client -> Call]

\* The parameters of a player outlive its thread: player_exit frees them only after the
\* thread has ended ("player thread already exit"), a failed start only without one.
ExitAfterThread ==
    \A t \in Thread : Playing(t) \/ thread[t].is = "leaving" =>
        /\ para[thread[t].para].live
        /\ para[thread[t].para].pthread_id \in {t, NULL}

\* The client has sent its stop, or is about to, and waits for the thread of its player.
Awaits(c, t) == /\ at[c] \in {"send", "join", "joining", "lastjoin", "lastjoining"}
                /\ para[call[c].para].pthread_id = t
                /\ Playing(t)

\* A stop was taken by the player, or waits in its pool.
Asked(t) == thread[t].is = "asked" \/ para[thread[t].para].stop

\* The player whose end a call waits for was asked to end: its stop was taken by the player,
\* waits in the pool, or a client is about to send one that its clear_all_message has
\* taken out.  No stop that a call waits for is lost between the clients, as long as
\* only its owner waits for a player.  That a stop that was taken also ends the player
\* is not said: StopReturns of PlayerThread fails.
JoinAnswered ==
    \A c \in Client, t \in Thread :
        Awaits(c, t) => \/ Asked(t)
                        \/ \E d \in Client : at[d] = "send" /\ call[d].para = call[c].para

\* No client takes back the interrupt of a player whose end another call waits for, however
\* the calls of several clients overlap; only the mate of the same player does.
InterruptKept ==
    [][\A c \in Client, t \in Thread :
          Awaits(c, t) /\ t \in kill /\ at' # at => t \in kill']_vars

\* player_open_pid_data returns parameters that no other pid leads to and that are
\* allocated; except while the client that has the pid is between the FREE of a
\* player_exit or of a failed player_start and the release of the pid.
OpenIsSafe ==
    \A p \in pool : data[p] # NULL =>
        \/ para[data[p]].live /\ \A q \in pool \ {p} : data[q] # data[p]
        \/ \E c \in Client : at[c] = "freed" /\ call[c].pid \in {q \in pool : data[q] = data[p]}

\* The client is between player_request_pid and player_release_pid, or a lost pid.
Holds(o, p) == /\ call[o].pid = p
               /\ \/ at[o] \in Starting \cup Exiting \cup {"playing", "freed"}
                  \/ at[o] \in Stopping /\ call[o].home = "playing"

\* Whom a pid is lent to.
Holder(p) == IF p \notin pool THEN "free"
             ELSE IF \E o \in Client : Holds(o, p)
             THEN CHOOSE o \in Client : Holds(o, p)
             ELSE "lost"

\* Everybody who starts players gets a pid of its own, until its player_exit.
Lease == INSTANCE PidLease WITH
           Owner <- Client, Free <- "free", Lost <- "lost",
           holder <- [p \in Pid |-> Holder(p)]

ImplementsLease == Lease!LeaseSpec

=============================================================================
