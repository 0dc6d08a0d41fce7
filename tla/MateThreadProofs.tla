-------------------------- MODULE MateThreadProofs --------------------------
(***************************************************************************)
(* Proofs about MateThread: the mate and the player thread exclude each    *)
(* other, for every bound on the semaphore and on the pool.                *)
(***************************************************************************)
EXTENDS MateThread, TLAPS

\* mate_isrunng tells exactly when the mate is between its two assignments.
RunningShape ==
    mate_isrunng = 1 <=> mate \in {"delay", "delayed", "check", "work", "proxy", "ignore",
                               "temp", "kill", "wakeup", "stopped"}

\* The mate was told to sleep, or was never woken.
ToldToSleep == \/ mate_should_sleep = 1
               \/ (mate_sem = 0 /\ mate \in {"none", "loop", "sem_wait"})

\* Before the player thread clears mate_should_sleep and after it has seen
\* mate_isrunng = 0 the mate cannot start to work.
SleepShape ==
    /\ (Outside \/ main \in {"wake_delay", "wake_clear"}) => (ToldToSleep /\ ~Working)
    /\ main \in {"sleep_wait", "release_exit"} \/ mate_should_exit = 1 => mate_should_sleep = 1

\* The life of the mate.
LifeShape ==
    /\ main \in {"wake_delay", "wake_clear", "wake_post", "sleep_test", "sleep_clear",
                 "sleep_undo", "sleep_set", "sleep_wait", "release", "release_exit",
                 "release_delay", "post", "join"} => player_mate = 1
    /\ main = "start" => (mate = "none" /\ player_mate = 0)
    /\ mate = "none" => (mate_sem = 0 /\ player_mate = 0)
    /\ player_mate = 0 => (mate = "none" \/ (mate = "exited" /\ main = "exited"))
    /\ mate = "exited" => mate_should_exit = 1
    /\ mate_should_exit = 1 => main \in {"release_delay", "post", "join", "exited"}
    /\ main \in {"release_delay", "post", "join"} => mate_should_exit = 1

\* From the post that opens a window until player_mate_sleep sets its flag the mate has a
\* token whenever it is on its way to sem_wait: what it was woken for is not behind it.
Span == {"read", "check", "sleep_test", "sleep_clear", "sleep_undo", "sleep_set"}

TokenShape ==
    /\ main \in Span \cup {"wake_post"} /\ player_mate = 1 => mate_should_sleep = 0
    /\ /\ main \in Span /\ player_mate = 1
       /\ mate \in {"loop", "sem_wait", "wakeup", "stopped"}
       => mate_sem > 0
    /\ main = "join" /\ mate = "sem_wait" => mate_sem > 0

MateInv == TypeOK /\ RunningShape /\ SleepShape /\ LifeShape /\ TokenShape

-----------------------------------------------------------------------------

LEMMA MateInitial == Init => MateInv
<1> SUFFICES ASSUME Init PROVE MateInv
  OBVIOUS
<1>1. TypeOK
  BY MateAssumption DEF Init, TypeOK, MainAt, MateAt, Flag
<1>2. RunningShape /\ LifeShape
  BY DEF Init, RunningShape, LifeShape
<1>3. SleepShape
  BY DEF Init, SleepShape, ToldToSleep, Working
<1>4. TokenShape
  BY DEF Init, TokenShape, Span
<1> QED BY <1>1, <1>2, <1>3, <1>4 DEF MateInv

LEMMA MateType == TypeOK /\ [Next]_vars => TypeOK'
<1> SUFFICES ASSUME TypeOK, [Next]_vars PROVE TypeOK'
  OBVIOUS
<1> USE MateAssumption DEF TypeOK, MainAt, MateAt, MainGoes, MateGoes, flags, seek, Post, Flag
<1>1. CASE Send \/ PlayCommand \/ PlayReset \/ WindowOpen \/ ReadDone \/ ReleaseCall
  BY <1>1 DEF Send, PlayCommand, PlayReset, WindowOpen, ReadDone, ReleaseCall
<1>2. CASE MateInit \/ WakeDelay \/ WakeClear \/ WakePost
  BY <1>2 DEF MateInit, WakeDelay, WakeClear, WakePost
<1>3. CASE ReadInterrupted \/ IgnoreError \/ SleepTest \/ SleepClear \/ SleepUndo \/ SleepSet
        \/ SleepWait
  BY <1>3 DEF ReadInterrupted, IgnoreError, SleepTest, SleepClear, SleepUndo, SleepSet, SleepWait
<1>4. CASE ReleaseSleep \/ ReleaseExit \/ ReleaseDelay \/ ReleasePost \/ ReleaseJoin
  BY <1>4 DEF ReleaseSleep, ReleaseExit, ReleaseDelay, ReleasePost, ReleaseJoin
<1>5. CASE MateLoop \/ MateSemWait \/ MateRunning \/ MateDelay \/ MateDelayed
  BY <1>5 DEF MateLoop, MateSemWait, MateRunning, MateDelay, MateDelayed
<1>6. CASE MateCheck \/ MateWork \/ MateNoCommand \/ MateCommand
  BY <1>6 DEF MateCheck, MateWork, MateNoCommand, MateCommand
<1>7. CASE MateIgnore \/ MateTemp \/ MateKill \/ MateWakeup \/ MateStopped
  BY <1>7 DEF MateIgnore, MateTemp, MateKill, MateWakeup, MateStopped
<1>8. CASE UNCHANGED vars
  BY <1>8 DEF vars
<1> QED
  BY <1>1, <1>2, <1>3, <1>4, <1>5, <1>6, <1>7, <1>8 DEF Next, MainStep, MateStep

LEMMA MateRunningStep == MateInv /\ [Next]_vars => RunningShape'
<1> SUFFICES ASSUME MateInv, [Next]_vars PROVE RunningShape'
  OBVIOUS
<1> USE MateAssumption DEF MateInv, TypeOK, MainAt, MateAt, Flag, MainGoes, MateGoes, flags, seek,
        Post, RunningShape, LifeShape
<1>1. CASE Send \/ PlayCommand \/ PlayReset \/ WindowOpen \/ ReadDone \/ ReleaseCall
  BY <1>1 DEF Send, PlayCommand, PlayReset, WindowOpen, ReadDone, ReleaseCall
<1>2. CASE MateInit \/ WakeDelay \/ WakeClear \/ WakePost
  BY <1>2 DEF MateInit, WakeDelay, WakeClear, WakePost
<1>3. CASE ReadInterrupted \/ IgnoreError \/ SleepTest \/ SleepClear \/ SleepUndo \/ SleepSet
        \/ SleepWait
  BY <1>3 DEF ReadInterrupted, IgnoreError, SleepTest, SleepClear, SleepUndo, SleepSet, SleepWait
<1>4. CASE ReleaseSleep \/ ReleaseExit \/ ReleaseDelay \/ ReleasePost \/ ReleaseJoin
  BY <1>4 DEF ReleaseSleep, ReleaseExit, ReleaseDelay, ReleasePost, ReleaseJoin
<1>5. CASE MateLoop \/ MateSemWait \/ MateRunning \/ MateDelay \/ MateDelayed
  BY <1>5 DEF MateLoop, MateSemWait, MateRunning, MateDelay, MateDelayed
<1>6. CASE MateCheck \/ MateWork \/ MateNoCommand \/ MateCommand
  BY <1>6 DEF MateCheck, MateWork, MateNoCommand, MateCommand
<1>7. CASE MateIgnore \/ MateTemp \/ MateKill \/ MateWakeup \/ MateStopped
  BY <1>7 DEF MateIgnore, MateTemp, MateKill, MateWakeup, MateStopped
<1>8. CASE UNCHANGED vars
  BY <1>8 DEF vars
<1> QED
  BY <1>1, <1>2, <1>3, <1>4, <1>5, <1>6, <1>7, <1>8 DEF Next, MainStep, MateStep

LEMMA MateSleepStep == MateInv /\ [Next]_vars => SleepShape'
<1> SUFFICES ASSUME MateInv, [Next]_vars PROVE SleepShape'
  OBVIOUS
<1> USE MateAssumption DEF MateInv, TypeOK, MainAt, MateAt, Flag, MainGoes, MateGoes, flags, seek,
        Post, RunningShape, SleepShape, ToldToSleep, LifeShape, Outside, Working
<1>1. CASE Send \/ PlayCommand \/ PlayReset \/ WindowOpen \/ ReadDone \/ ReleaseCall
  BY <1>1 DEF Send, PlayCommand, PlayReset, WindowOpen, ReadDone, ReleaseCall
<1>2. CASE MateInit \/ WakeDelay \/ WakeClear \/ WakePost
  BY <1>2 DEF MateInit, WakeDelay, WakeClear, WakePost
<1>3. CASE ReadInterrupted \/ IgnoreError \/ SleepTest \/ SleepClear \/ SleepUndo \/ SleepSet
        \/ SleepWait
  BY <1>3 DEF ReadInterrupted, IgnoreError, SleepTest, SleepClear, SleepUndo, SleepSet, SleepWait
<1>4. CASE ReleaseSleep \/ ReleaseExit \/ ReleaseDelay \/ ReleasePost \/ ReleaseJoin
  BY <1>4 DEF ReleaseSleep, ReleaseExit, ReleaseDelay, ReleasePost, ReleaseJoin
<1>5. CASE MateLoop \/ MateSemWait \/ MateRunning \/ MateDelay \/ MateDelayed
  BY <1>5 DEF MateLoop, MateSemWait, MateRunning, MateDelay, MateDelayed
<1>6. CASE MateCheck \/ MateWork \/ MateNoCommand \/ MateCommand
  BY <1>6 DEF MateCheck, MateWork, MateNoCommand, MateCommand
<1>7. CASE MateIgnore \/ MateTemp \/ MateKill \/ MateWakeup \/ MateStopped
  BY <1>7 DEF MateIgnore, MateTemp, MateKill, MateWakeup, MateStopped
<1>8. CASE UNCHANGED vars
  BY <1>8 DEF vars
<1> QED
  BY <1>1, <1>2, <1>3, <1>4, <1>5, <1>6, <1>7, <1>8 DEF Next, MainStep, MateStep

LEMMA MateLifeStep == MateInv /\ [Next]_vars => LifeShape'
<1> SUFFICES ASSUME MateInv, [Next]_vars PROVE LifeShape'
  OBVIOUS
<1> USE MateAssumption DEF MateInv, TypeOK, MainAt, MateAt, Flag, MainGoes, MateGoes, flags, seek,
        Post, LifeShape
<1>1. CASE Send \/ PlayCommand \/ PlayReset \/ WindowOpen \/ ReadDone \/ ReleaseCall
  BY <1>1 DEF Send, PlayCommand, PlayReset, WindowOpen, ReadDone, ReleaseCall
<1>2. CASE MateInit \/ WakeDelay \/ WakeClear \/ WakePost
  BY <1>2 DEF MateInit, WakeDelay, WakeClear, WakePost
<1>3. CASE ReadInterrupted \/ IgnoreError \/ SleepTest \/ SleepClear \/ SleepUndo \/ SleepSet
        \/ SleepWait
  BY <1>3 DEF ReadInterrupted, IgnoreError, SleepTest, SleepClear, SleepUndo, SleepSet, SleepWait
<1>4. CASE ReleaseSleep \/ ReleaseExit \/ ReleaseDelay \/ ReleasePost \/ ReleaseJoin
  BY <1>4 DEF ReleaseSleep, ReleaseExit, ReleaseDelay, ReleasePost, ReleaseJoin
<1>5. CASE MateLoop \/ MateSemWait \/ MateRunning \/ MateDelay \/ MateDelayed
  BY <1>5 DEF MateLoop, MateSemWait, MateRunning, MateDelay, MateDelayed
<1>6. CASE MateCheck \/ MateWork \/ MateNoCommand \/ MateCommand
  BY <1>6 DEF MateCheck, MateWork, MateNoCommand, MateCommand
<1>7. CASE MateIgnore \/ MateTemp \/ MateKill \/ MateWakeup \/ MateStopped
  BY <1>7 DEF MateIgnore, MateTemp, MateKill, MateWakeup, MateStopped
<1>8. CASE UNCHANGED vars
  BY <1>8 DEF vars
<1> QED
  BY <1>1, <1>2, <1>3, <1>4, <1>5, <1>6, <1>7, <1>8 DEF Next, MainStep, MateStep

LEMMA MateTokenStep == MateInv /\ [Next]_vars => TokenShape'
<1> SUFFICES ASSUME MateInv, [Next]_vars PROVE TokenShape'
  OBVIOUS
<1> USE MateAssumption DEF MateInv, TypeOK, MainAt, MateAt, Flag, MainGoes, MateGoes, flags, seek,
        Post, LifeShape, TokenShape, Span
<1>1. CASE Send \/ PlayCommand \/ PlayReset \/ WindowOpen \/ ReadDone \/ ReleaseCall
  BY <1>1 DEF Send, PlayCommand, PlayReset, WindowOpen, ReadDone, ReleaseCall
<1>2. CASE MateInit \/ WakeDelay \/ WakeClear \/ WakePost
  BY <1>2 DEF MateInit, WakeDelay, WakeClear, WakePost
<1>3. CASE ReadInterrupted \/ IgnoreError \/ SleepTest \/ SleepClear \/ SleepUndo \/ SleepSet
        \/ SleepWait
  BY <1>3 DEF ReadInterrupted, IgnoreError, SleepTest, SleepClear, SleepUndo, SleepSet, SleepWait
<1>4. CASE ReleaseSleep \/ ReleaseExit \/ ReleaseDelay \/ ReleasePost \/ ReleaseJoin
  BY <1>4 DEF ReleaseSleep, ReleaseExit, ReleaseDelay, ReleasePost, ReleaseJoin
<1>5. CASE MateLoop \/ MateSemWait \/ MateRunning \/ MateDelay \/ MateDelayed
  BY <1>5 DEF MateLoop, MateSemWait, MateRunning, MateDelay, MateDelayed
<1>6. CASE MateCheck \/ MateWork \/ MateNoCommand \/ MateCommand
  BY <1>6 DEF MateCheck, MateWork, MateNoCommand, MateCommand
<1>7. CASE MateIgnore \/ MateTemp \/ MateKill \/ MateWakeup \/ MateStopped
  BY <1>7 DEF MateIgnore, MateTemp, MateKill, MateWakeup, MateStopped
<1>8. CASE UNCHANGED vars
  BY <1>8 DEF vars
<1> QED
  BY <1>1, <1>2, <1>3, <1>4, <1>5, <1>6, <1>7, <1>8 DEF Next, MainStep, MateStep

-----------------------------------------------------------------------------

\* The inductive invariant of the two threads: where each of them is, against the
\* flags by which player_mate_wake, player_mate_sleep and the mate's loop hand over.
THEOREM MateInvariant == Spec => []MateInv
<1>1. MateInv /\ [Next]_vars => MateInv'
  BY MateType, MateRunningStep, MateSleepStep, MateLifeStep, MateTokenStep DEF MateInv
<1> QED
  BY <1>1, MateInitial, PTL DEF Spec

\* Every flag keeps to its two values and the semaphore to its range.
THEOREM MateTypeCorrect == Spec => []TypeOK
<1>1. MateInv => TypeOK
  BY DEF MateInv
<1> QED
  BY <1>1, MateInvariant, PTL

\* The mate never works on the player's state outside a buffering window, for every
\* number of stale tokens and of queued commands: player_mate_sleep is enough.
THEOREM MateExcluded == Spec => []MateExclusive
<1>1. MateInv => MateExclusive
  BY DEF MateInv, SleepShape, MateExclusive
<1> QED
  BY <1>1, MateInvariant, PTL

\* No wake-up is lost: the mate never sleeps through a window or through the release, for
\* every bound on the semaphore and however many stale tokens it has used up before.
THEOREM MateAwake == Spec => []NoLostWakeup
<1>1. MateInv => NoLostWakeup
  BY DEF MateInv, LifeShape, TokenShape, Span, NoLostWakeup
<1> QED
  BY <1>1, MateInvariant, PTL
=============================================================================
