----------------------------- MODULE MateThread -----------------------------
(***************************************************************************)
(* The player thread and its mate: amplayer/player/player_mate.c with the  *)
(* buffering windows of read_av_packet (player_av.c) and                   *)
(* ffmpeg_buffering_data (player_ffmpeg_ctrl.c).                           *)
(*                                                                         *)
(* While the player thread is inside a read that may block on the network, *)
(* the mate takes commands and updates the state for it; outside a window  *)
(* the mate must be idle, because both write the same play_para_t and no   *)
(* mutex protects it.  The two hand over with plain flags and a semaphore. *)
(* Each read or write of a shared flag is a step of its own, under         *)
(* sequential consistency.  Timed waits on the condition variable may end  *)
(* at any moment, so they are steps without a guard.                       *)
(***************************************************************************)
EXTENDS Integers

CONSTANTS SEM_VALUE_MAX,   \* sem_post fails (EOVERFLOW) above this count
          MESSAGE_MAX      \* commands the pool can hold

ASSUME MateAssumption == SEM_VALUE_MAX \in Nat \ {0} /\ MESSAGE_MAX \in Nat \ {0}

VARIABLES main,                   \* where the player thread is
          mate,                   \* where the mate thread is
          player_mate,            \* the mate is allocated
          mate_sem,
          wake_delay,             \* a delay before working is asked for
          mate_isrunng,
          mate_should_sleep,
          mate_should_exit,
          search_flag,            \* playctrl_info.search_flag
          ignore_ffmpeg_errors,
          temp_interrupt_ffmpeg,
          killed,                 \* the player thread is in kill_item_list
          failed,                 \* the read of this window returned ret < 0
          pending                 \* commands in the message pool

flags == <<wake_delay, mate_isrunng, mate_should_sleep, mate_should_exit>>
seek == <<search_flag, ignore_ffmpeg_errors, temp_interrupt_ffmpeg, killed>>
vars == <<main, mate, player_mate, mate_sem, flags, seek, failed, pending>>

\* The code's int flags; player_mate and killed are recorded the same way.
Flag == {0, 1}

MainAt == {"start", "play", "wake_delay", "wake_clear", "wake_post", "read", "check",
           "sleep_test", "sleep_clear", "sleep_undo", "sleep_set", "sleep_wait",
           "release", "release_exit", "release_delay", "post", "join", "exited"}
MateAt == {"none", "loop", "sem_wait", "woken", "delay", "delayed", "check", "work",
           "proxy", "ignore", "temp", "kill", "wakeup", "stopped", "exited"}

\* The mate touches the player's state: it is inside player_mate_thread_run_l.
Working == mate \in {"work", "proxy", "ignore", "temp", "kill"}

\* The player thread is outside any buffering window, and free to touch the state too.
Outside == main \in {"start", "play", "release", "release_exit", "release_delay", "post",
                     "join", "exited"}

Post(n) == mate_sem' = IF mate_sem + n <= SEM_VALUE_MAX THEN mate_sem + n
                       ELSE SEM_VALUE_MAX

-----------------------------------------------------------------------------

Init == /\ main = "start"
        /\ mate = "none"
        /\ player_mate = 0
        /\ mate_sem = 0
        /\ wake_delay \in Flag          \* player_mate_init leaves it unset
        /\ mate_isrunng = 0
        /\ mate_should_sleep = 0
        /\ mate_should_exit = 0
        /\ search_flag = 0
        /\ ignore_ffmpeg_errors = 0
        /\ temp_interrupt_ffmpeg = 0
        /\ killed = 0
        /\ failed = 0
        /\ pending = 0

\* A client sends a command; a full pool drops one and keeps the new one.
Send == /\ pending' = IF pending < MESSAGE_MAX THEN pending + 1 ELSE pending
        /\ UNCHANGED <<main, mate, player_mate, mate_sem, flags, seek, failed>>

MainGoes(from, to) == main = from /\ main' = to
MateGoes(from, to) == mate = from /\ mate' = to

\* player_mate_init; it leaves player_mate NULL when there is no memory.  pthread_create is
\* taken to succeed: nobody looks at its result, and the release would join an unset id.
MateInit == /\ MainGoes("start", "play")
            /\ \/ player_mate' = 1 /\ mate' = "loop"
               \/ UNCHANGED <<player_mate, mate>>
            /\ UNCHANGED <<mate_sem, flags, seek, failed, pending>>

\* The player thread takes a command itself, in check_flag; player_reset ends a seek.
PlayCommand == /\ main = "play"
               /\ pending > 0
               /\ pending' = pending - 1
               /\ search_flag' \in Flag
               /\ UNCHANGED <<main, mate, player_mate, mate_sem, flags, failed,
                              ignore_ffmpeg_errors, temp_interrupt_ffmpeg, killed>>

PlayReset == /\ main = "play"
             /\ search_flag = 1
             /\ search_flag' = 0
             /\ UNCHANGED <<main, mate, player_mate, mate_sem, flags, failed, pending,
                            ignore_ffmpeg_errors, temp_interrupt_ffmpeg, killed>>

\* A window opens: player_mate_wake(para, 100 * 1000), a no-op without a mate.
WindowOpen == /\ MainGoes("play", IF player_mate = 1 THEN "wake_delay" ELSE "read")
              /\ UNCHANGED <<mate, player_mate, mate_sem, flags, seek, failed, pending>>

WakeDelay == /\ MainGoes("wake_delay", "wake_clear")
             /\ wake_delay' = 1
             /\ UNCHANGED <<mate, player_mate, mate_sem, mate_isrunng, mate_should_sleep,
                            mate_should_exit, seek, failed, pending>>

WakeClear == /\ MainGoes("wake_clear", "wake_post")
             /\ mate_should_sleep' = 0
             /\ UNCHANGED <<mate, player_mate, mate_sem, wake_delay, mate_isrunng,
                            mate_should_exit, seek, failed, pending>>

\* mutant: the token is posted only if the mate does not seem to run already
WakePostIfIdle == /\ MainGoes("wake_post", "read")
                  /\ IF mate_isrunng = 1 THEN UNCHANGED mate_sem ELSE Post(1)
                  /\ UNCHANGED <<mate, player_mate, flags, seek, failed, pending>>

WakePost == /\ MainGoes("wake_post", "read")
            /\ Post(1)
            /\ UNCHANGED <<mate, player_mate, flags, seek, failed, pending>>

\* raw_read, non_raw_read, url_buffering_data: data, or an error.
ReadDone == /\ MainGoes("read", "check")
            /\ failed' \in Flag
            /\ UNCHANGED <<mate, player_mate, mate_sem, flags, seek, pending>>

\* ffmpeg_interrupt_callback says the thread is interrupted: the read gives up.
ReadInterrupted == /\ killed = 1
                   /\ MainGoes("read", "check")
                   /\ failed' = 1
                   /\ UNCHANGED <<mate, player_mate, mate_sem, flags, seek, pending>>

\* ret < 0 with ignore_ffmpeg_errors set is turned into ret = 0.
IgnoreError == /\ MainGoes("check", IF player_mate = 1 THEN "sleep_test" ELSE "play")
               /\ IF failed = 1 /\ ignore_ffmpeg_errors = 1
                  THEN ignore_ffmpeg_errors' = 0 /\ failed' = 0
                  ELSE UNCHANGED <<ignore_ffmpeg_errors, failed>>
               /\ UNCHANGED <<mate, player_mate, mate_sem, flags, pending,
                              search_flag, temp_interrupt_ffmpeg, killed>>

\* player_mate_sleep, which undoes the mate's interrupt first.
SleepTest == /\ MainGoes("sleep_test", IF temp_interrupt_ffmpeg = 1 THEN "sleep_clear"
                                       ELSE "sleep_set")
             /\ UNCHANGED <<mate, player_mate, mate_sem, flags, seek, failed, pending>>

SleepClear == /\ MainGoes("sleep_clear", "sleep_undo")
              /\ temp_interrupt_ffmpeg' = 0
              /\ UNCHANGED <<mate, player_mate, mate_sem, flags, failed, pending,
                             search_flag, ignore_ffmpeg_errors, killed>>

SleepUndo == /\ MainGoes("sleep_undo", "sleep_set")
             /\ killed' = 0
             /\ UNCHANGED <<mate, player_mate, mate_sem, flags, failed, pending,
                            search_flag, ignore_ffmpeg_errors, temp_interrupt_ffmpeg>>

SleepSet == /\ MainGoes("sleep_set", "sleep_wait")
            /\ mate_should_sleep' = 1
            /\ UNCHANGED <<mate, player_mate, mate_sem, wake_delay, mate_isrunng,
                           mate_should_exit, seek, failed, pending>>

\* mutant: the window closes without waiting for the mate to stop
SleepNoWait == /\ MainGoes("sleep_wait", "play")
               /\ UNCHANGED <<mate, player_mate, mate_sem, flags, seek, failed, pending>>

\* The loop of player_mate_sleep ends when it reads mate_isrunng = 0.
SleepWait == /\ mate_isrunng = 0
             /\ MainGoes("sleep_wait", "play")
             /\ UNCHANGED <<mate, player_mate, mate_sem, flags, seek, failed, pending>>

\* player_mate_release at the end of player_thread.
ReleaseCall == /\ MainGoes("play", IF player_mate = 1 THEN "release" ELSE "exited")
               /\ UNCHANGED <<mate, player_mate, mate_sem, flags, seek, failed, pending>>

\* The mutex of the release does not keep the mate from reading the flags.
ReleaseSleep == /\ MainGoes("release", "release_exit")
                /\ mate_should_sleep' = 1
                /\ UNCHANGED <<mate, player_mate, mate_sem, wake_delay, mate_isrunng,
                               mate_should_exit, seek, failed, pending>>

ReleaseExit == /\ MainGoes("release_exit", "release_delay")
               /\ mate_should_exit' = 1
               /\ UNCHANGED <<mate, player_mate, mate_sem, wake_delay, mate_isrunng,
                              mate_should_sleep, seek, failed, pending>>

ReleaseDelay == /\ MainGoes("release_delay", "post")
                /\ wake_delay' = 0
                /\ UNCHANGED <<mate, player_mate, mate_sem, mate_isrunng, mate_should_sleep,
                               mate_should_exit, seek, failed, pending>>

\* mutant: the release posts no token, only signals
ReleaseNoPost == /\ MainGoes("post", "join")
                 /\ UNCHANGED <<mate, player_mate, mate_sem, flags, seek, failed, pending>>

ReleasePost == /\ MainGoes("post", "join")
               /\ Post(3)
               /\ UNCHANGED <<mate, player_mate, flags, seek, failed, pending>>

ReleaseJoin == /\ mate = "exited"
               /\ MainGoes("join", "exited")
               /\ player_mate' = 0
               /\ UNCHANGED <<mate, mate_sem, flags, seek, failed, pending>>

-----------------------------------------------------------------------------

\* while (!mate->mate_should_exit)
MateLoop == /\ MateGoes("loop", IF mate_should_exit = 1 THEN "exited" ELSE "sem_wait")
            /\ UNCHANGED <<main, player_mate, mate_sem, flags, seek, failed, pending>>

MateSemWait == /\ mate_sem > 0
               /\ MateGoes("sem_wait", "woken")
               /\ mate_sem' = mate_sem - 1
               /\ UNCHANGED <<main, player_mate, flags, seek, failed, pending>>

MateRunning == /\ MateGoes("woken", IF wake_delay = 1 THEN "delay" ELSE "delayed")
               /\ mate_isrunng' = 1
               /\ UNCHANGED <<main, player_mate, mate_sem, wake_delay, mate_should_sleep,
                              mate_should_exit, seek, failed, pending>>

\* player_mate_thread_wait(mate, wake_delay) times out or is signalled.
MateDelay == /\ MateGoes("delay", "delayed")
             /\ UNCHANGED <<main, player_mate, mate_sem, flags, seek, failed, pending>>

MateDelayed == /\ MateGoes("delayed", "check")
               /\ wake_delay' = 0
               /\ UNCHANGED <<main, player_mate, mate_sem, mate_isrunng, mate_should_sleep,
                              mate_should_exit, seek, failed, pending>>

MateCheck == /\ MateGoes("check", IF mate_should_sleep = 1 THEN "wakeup" ELSE "work")
             /\ UNCHANGED <<main, player_mate, mate_sem, flags, seek, failed, pending>>

\* mutant: the mate leaves its loop only to exit
WorkTillExit == /\ MateGoes("work", IF mate_should_exit = 1 THEN "wakeup" ELSE "proxy")
                /\ UNCHANGED <<main, player_mate, mate_sem, flags, seek, failed, pending>>

\* One turn of the loop of player_mate_thread_run_l.
MateWork == /\ MateGoes("work", IF mate_should_sleep = 1 \/ mate_should_exit = 1
                                THEN "wakeup" ELSE "proxy")
            /\ UNCHANGED <<main, player_mate, mate_sem, flags, seek, failed, pending>>

\* player_mate_thread_cmd_proxy takes nothing: there is no command, or it is a seek that
\* has to wait until the frame of the seek before it is shown (any command, here).
MateNoCommand == /\ MateGoes("proxy", "work")
                 /\ UNCHANGED <<main, player_mate, mate_sem, flags, seek, failed, pending>>

\* mutant: the command is used without a check that there is one
TakeBlindly == /\ pending' = pending - 1
               /\ search_flag' \in Flag
               /\ MateGoes("proxy", IF search_flag' = 1 THEN "ignore" ELSE "work")
               /\ UNCHANGED <<main, player_mate, mate_sem, flags, failed,
                              ignore_ffmpeg_errors, temp_interrupt_ffmpeg, killed>>

\* It takes a command and runs check_msg: a seek sets search_flag, a stop clears it,
\* other commands leave it; if it is set afterwards the read is interrupted.
MateCommand == /\ pending > 0
               /\ pending' = pending - 1
               /\ search_flag' \in Flag
               /\ MateGoes("proxy", IF search_flag' = 1 THEN "ignore" ELSE "work")
               /\ UNCHANGED <<main, player_mate, mate_sem, flags, failed,
                              ignore_ffmpeg_errors, temp_interrupt_ffmpeg, killed>>

MateIgnore == /\ MateGoes("ignore", "temp")
              /\ ignore_ffmpeg_errors' = 1
              /\ UNCHANGED <<main, player_mate, mate_sem, flags, failed, pending,
                             search_flag, temp_interrupt_ffmpeg, killed>>

MateTemp == /\ MateGoes("temp", "kill")
            /\ temp_interrupt_ffmpeg' = 1
            /\ UNCHANGED <<main, player_mate, mate_sem, flags, failed, pending,
                           search_flag, ignore_ffmpeg_errors, killed>>

MateKill == /\ MateGoes("kill", "work")
            /\ killed' = 1
            /\ UNCHANGED <<main, player_mate, mate_sem, flags, failed, pending,
                           search_flag, ignore_ffmpeg_errors, temp_interrupt_ffmpeg>>

\* wakeup_player_thread, then mate_isrunng = 0.
MateWakeup == /\ MateGoes("wakeup", "stopped")
              /\ UNCHANGED <<main, player_mate, mate_sem, flags, seek, failed, pending>>

MateStopped == /\ MateGoes("stopped", "loop")
               /\ mate_isrunng' = 0
               /\ UNCHANGED <<main, player_mate, mate_sem, wake_delay, mate_should_sleep,
                              mate_should_exit, seek, failed, pending>>

-----------------------------------------------------------------------------

\* The steps the player thread takes without the help of the network.
MainStep == \/ MateInit
            \/ WakeDelay \/ WakeClear \/ WakePost
            \/ ReadInterrupted \/ IgnoreError
            \/ SleepTest \/ SleepClear \/ SleepUndo \/ SleepSet \/ SleepWait
            \/ ReleaseSleep \/ ReleaseExit \/ ReleaseDelay \/ ReleasePost \/ ReleaseJoin

MateStep == \/ MateLoop \/ MateSemWait \/ MateRunning \/ MateDelay \/ MateDelayed
            \/ MateCheck \/ MateWork \/ MateNoCommand \/ MateCommand
            \/ MateIgnore \/ MateTemp \/ MateKill \/ MateWakeup \/ MateStopped

Next == \/ Send \/ PlayCommand \/ PlayReset \/ WindowOpen \/ ReadDone \/ ReleaseCall
        \/ MainStep
        \/ MateStep

Spec == Init /\ [][Next]_vars

\* Both threads are scheduled; nothing makes a read return except an interrupt.
FairSpec == Spec /\ WF_vars(MainStep) /\ WF_vars(MateStep)

-----------------------------------------------------------------------------

TypeOK == /\ main \in MainAt
          /\ mate \in MateAt
          /\ mate_sem \in 0 .. SEM_VALUE_MAX
          /\ pending \in 0 .. MESSAGE_MAX
          /\ player_mate \in Flag /\ failed \in Flag
          /\ wake_delay \in Flag /\ mate_isrunng \in Flag
          /\ mate_should_sleep \in Flag /\ mate_should_exit \in Flag
          /\ search_flag \in Flag /\ ignore_ffmpeg_errors \in Flag
          /\ temp_interrupt_ffmpeg \in Flag /\ killed \in Flag

\* The mate works on the player's state only while the player thread is inside a
\* buffering window.  The semaphore keeps stale tokens, so the mate may start its
\* round at any moment: the two flags alone keep the threads apart.
MateExclusive == Working => ~Outside

\* player_mate_sleep and player_mate_release always return: the mate always notices.
SleepReturns == main = "sleep_wait" ~> main = "play"
ReleaseReturns == main = "join" ~> main = "exited"

\* No wake-up is lost: a command that waits while the player thread is blocked in a
\* read reaches the mate, whatever round the mate was in when the window opened.
CommandServed == (main = "read" /\ player_mate = 1 /\ pending > 0)
                    ~> main # "read" \/ (mate = "proxy" /\ pending > 0)

\* The mate does not sleep through what the player thread waits for.  Inside a window a token
\* is left for it, and neither flag sends it back to sleep; at the join of
\* player_mate_release a token is left for its last round, whatever rounds stale tokens
\* have made it run before.
NoLostWakeup ==
    /\ main = "read" /\ player_mate = 1 =>
          mate_should_sleep = 0 /\ (mate \in {"loop", "sem_wait"} => mate_sem > 0)
    /\ main = "join" => mate_should_exit = 1 /\ (mate = "sem_wait" => mate_sem > 0)

\* The interrupt of the mate's seek is called temporary, and player_mate_sleep says it
\* undoes it ("ffmpeg_uninterrupt tmped by player mate!"): when the player thread is
\* interrupted outside a window, at least the mark by which it is undone is there.
InterruptUndone == (main = "play" /\ killed = 1) => temp_interrupt_ffmpeg = 1
=============================================================================
