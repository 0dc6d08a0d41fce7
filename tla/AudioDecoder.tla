---------------------------- MODULE AudioDecoder ----------------------------
(***************************************************************************)
(* The audio decoder on the ARM core with its ALSA output: the main thread *)
(* adec_armdec_loop (amadec/adec-ffmpeg-mgt.c), the playback thread        *)
(* alsa_playback_loop and the output operations (audio_out/alsa-out.c),    *)
(* the decode threads, and the client's audio_decode_init .. _release      *)
(* (adec-external-ctrl.c), which audio_stop (amcodec) calls in a row.      *)
(*                                                                         *)
(* Neither state nor the flags of alsa_param are locked; only the playback *)
(* thread's first wait is under playback_mutex.  A step of the model is    *)
(* the code between two points where another thread can be noticed.  The   *)
(* stream, the clocks and the devices are nondeterministic; the sound      *)
(* device opens, and a decoder that does not is tried again.               *)
(***************************************************************************)
EXTENDS Integers, Sequences

CONSTANTS MessageMax,   \* MESSAGE_NUM_MAX, the capacity of the message pool
          Command,      \* the commands the client sends before it stops
          NULL

\* SET_VOL stands for every command that leaves the state of the decoder alone.
Kind == {"PAUSE", "RESUME", "SET_VOL"}

\* What alsa_init allocates, of which only the flags matter.
AlsaParam == [wait_flag : {0, 1}, pause_flag : {0, 1}, stop_flag : {0, 1}]

ASSUME AudioAssumption == /\ MessageMax \in Nat \ {0, 1}
                          /\ Command \subseteq Kind
                          /\ NULL \notin AlsaParam

VARIABLES main,       \* where adec_armdec_loop is
          then,       \* what alsa_stop returns to: adec_reset_track or stop_adec
          state,      \* audec->state
          need_stop,
          auto_mute,
          changed,    \* format_changed_flag
          out,        \* alsa_param, or NULL when private_data is
          playback,   \* where alsa_playback_loop is
          decoders,   \* audio_decode_loop and audio_getpackage_loop
          buffers,    \* the pcm and input buffers of audio_codec_init
          queue,      \* the message pool
          client      \* where the client is

vars == <<main, then, state, need_stop, auto_mute, changed, out, playback, decoders,
          buffers, queue, client>>

State == {"IDLE", "TERMINATED", "STOPPED", "INITING", "INITTED", "ACTIVE", "PAUSED", "GAPPING"}

\* Comparisons with the enumeration: state > INITING, state > INITTED.
Initialised == {"INITTED", "ACTIVE", "PAUSED", "GAPPING"}
Working == {"ACTIVE", "PAUSED", "GAPPING"}

MainAt == {"init", "output", "apts", "mute", "begin", "loop", "stop", "stopping", "signal",
           "join", "reopen", "restart", "flag", "unmute", "gap", "ungap", "get", "release",
           "ended", "fault"}

\* Waits for a time stamp, which may never come; need_stop ends them.
Waiting == {"apts", "mute", "unmute", "ungap"}

PlaybackAt == {"none", "new", "locked", "wait", "read", "gapped", "held", "refresh", "due",
               "play", "ended"}

\* audio_decode_init: everything is zero but the auto-mute the client asked for.
Init == /\ main = "init"
        /\ then = "reopen"
        /\ state = "IDLE"
        /\ need_stop = FALSE
        /\ auto_mute \in BOOLEAN
        /\ changed = FALSE
        /\ out = NULL
        /\ playback = "none"
        /\ decoders = "none"
        /\ buffers = FALSE
        /\ queue = <<>>
        /\ client = "open"

-----------------------------------------------------------------------------
(* The client. *)

\* mutant: a full pool keeps the oldest message
SendFull(m) == queue' = Append(queue, m)

\* adec_send_message: a full pool drops the oldest message.
Send(m) == queue' = Append(IF Len(queue) = MessageMax THEN Tail(queue) ELSE queue, m)

SendCommand == /\ client = "open"
               /\ \E m \in Command : Send(m)
               /\ UNCHANGED <<main, then, state, need_stop, auto_mute, changed, out, playback,
                              decoders, buffers, client>>

\* audio_decode_stop
AskStop == /\ client = "open"
           /\ need_stop' = TRUE
           /\ client' = "stopping"
           /\ UNCHANGED <<main, then, state, auto_mute, changed, out, playback, decoders,
                          buffers, queue>>

SendStop == /\ client = "stopping"
            /\ Send("STOP")
            /\ client' = "releasing"
            /\ UNCHANGED <<main, then, state, need_stop, auto_mute, changed, out, playback,
                           decoders, buffers>>

\* audio_decode_release sends, joins the main thread and frees audec.
SendRelease == /\ client = "releasing"
               /\ Send("RELEASE")
               /\ client' = "joining"
               /\ UNCHANGED <<main, then, state, need_stop, auto_mute, changed, out, playback,
                              decoders, buffers>>

Free == /\ client = "joining"
        /\ main = "ended"
        /\ client' = "done"
        /\ UNCHANGED <<main, then, state, need_stop, auto_mute, changed, out, playback,
                       decoders, buffers, queue>>

Client == SendCommand \/ AskStop \/ SendStop \/ SendRelease \/ Free

-----------------------------------------------------------------------------
(* The output operations, called by the main thread. *)

\* alsa_init: new parameters and a new playback thread.
OpenOutput == /\ out' = [wait_flag |-> 0, pause_flag |-> 0, stop_flag |-> 0]
              /\ playback' = "new"

\* The signal of playback_cond sends a waiting thread back to its test.
Signal == playback' = IF playback = "wait" THEN "new" ELSE playback

\* alsa_start, under playback_mutex; the output begins paused.
StartOutput == /\ playback # "locked"
               /\ out' = [out EXCEPT !.wait_flag = 1, !.pause_flag = 1]
               /\ Signal

\* alsa_start followed by alsa_resume.
RestartOutput == /\ playback # "locked"
                 /\ out' = [out EXCEPT !.wait_flag = 1, !.pause_flag = 0]
                 /\ Signal

\* alsa_pause and alsa_resume
SetPause(flag) == out' = [out EXCEPT !.pause_flag = flag]

\* mutant: alsa_stop signals but does not stop the loop
StopOutputFlagless == out' = [out EXCEPT !.wait_flag = 0]

\* The flags with which alsa_stop ends the loop, set without playback_mutex; nobody looks at
\* wait_flag once stop_flag is set.
StopOutput == out' = [out EXCEPT !.stop_flag = 1, !.wait_flag = 0]

-----------------------------------------------------------------------------
(* The main thread: initialisation. *)

\* audio_codec_init, which is tried again until it succeeds.
InitCodec == /\ main = "init"
             /\ ~need_stop
             /\ state' = "INITING"
             /\ \/ /\ main' = "output"
                   /\ buffers' = TRUE
                \/ UNCHANGED <<main, buffers>>
             /\ UNCHANGED <<then, need_stop, auto_mute, changed, out, playback, decoders,
                            queue, client>>

GiveUp == /\ main = "init"
          /\ need_stop
          /\ main' = "loop"
          /\ UNCHANGED <<then, state, need_stop, auto_mute, changed, out, playback, decoders,
                         buffers, queue, client>>

\* alsa_init, start_decode_thread and the beginning of start_adec: no other thread looks at
\* the state before the output is started.
StartDecode == /\ main = "output"
               /\ OpenOutput
               /\ decoders' = "run"
               /\ state' = "ACTIVE"
               /\ main' = "apts"
               /\ UNCHANGED <<then, need_stop, auto_mute, changed, buffers, queue, client>>

\* The first pts has come, its absence is covered by the vpts, or the client stops.
FirstPts == /\ main = "apts"
            /\ main' = "mute"
            /\ UNCHANGED <<then, state, need_stop, auto_mute, changed, out, playback, decoders,
                           buffers, queue, client>>

\* No first pts and no vpts: start_adec returns and the output is never started.
NoVpts == /\ main = "apts"
          /\ main' = "loop"
          /\ UNCHANGED <<then, state, need_stop, auto_mute, changed, out, playback, decoders,
                         buffers, queue, client>>

\* With auto-mute, start_adec waits until the output is due.
Due == /\ main = "mute"
       /\ auto_mute' = FALSE
       /\ main' = "begin"
       /\ UNCHANGED <<then, state, need_stop, changed, out, playback, decoders, buffers,
                      queue, client>>

Begin == /\ main = "begin"
         /\ StartOutput
         /\ state' = "PAUSED"
         /\ main' = "loop"
         /\ UNCHANGED <<then, need_stop, auto_mute, changed, decoders, buffers, queue, client>>

-----------------------------------------------------------------------------
(* The main thread: one round of its message loop. *)

\* Without parameters an output operation is a null pointer: a gap found after stop_adec
\* makes the decoder look initialised again.
Fault == /\ out = NULL
         /\ \/ main = "loop" /\ changed /\ state \in Initialised
            \/ main = "flag" /\ auto_mute /\ state \in Working
            \/ main = "ungap"
         /\ main' = "fault"
         /\ UNCHANGED <<then, state, need_stop, auto_mute, changed, out, playback, decoders,
                        buffers, queue, client>>

\* adec_reset_track
Reset == /\ main = "loop"
         /\ IF changed /\ state \in Initialised
            THEN out # NULL /\ main' = "stop" /\ then' = "reopen"
            ELSE main' = "flag" /\ UNCHANGED then
         /\ UNCHANGED <<state, need_stop, auto_mute, changed, out, playback, decoders, buffers,
                        queue, client>>

\* mutant: alsa_stop leaves a paused output paused
KeepPaused == /\ main = "stop"
              /\ main' = "stopping"
              /\ UNCHANGED <<then, state, need_stop, auto_mute, changed, out, playback,
                             decoders, buffers, queue, client>>

\* alsa_stop resumes a paused output; stop_adec has set the state a while before, and the
\* playback thread may still pause its output for a gap.
Unpause == /\ main = "stop"
           /\ SetPause(0)
           /\ main' = "stopping"
           /\ UNCHANGED <<then, state, need_stop, auto_mute, changed, playback, decoders,
                          buffers, queue, client>>

SetStop == /\ main = "stopping"
           /\ StopOutput
           /\ main' = "signal"
           /\ UNCHANGED <<then, state, need_stop, auto_mute, changed, playback, decoders,
                          buffers, queue, client>>

\* The rest of alsa_stop: pthread_cond_signal, and pthread_join with the release.
SignalStop == /\ main = "signal"
              /\ Signal
              /\ main' = "join"
              /\ UNCHANGED <<then, state, need_stop, auto_mute, changed, out, decoders,
                             buffers, queue, client>>

\* mutant: the parameters are freed without waiting for the playback thread
FreeOutputEarly == /\ main = "join"
                   /\ out' = NULL
                   /\ main' = then
                   /\ UNCHANGED <<then, state, need_stop, auto_mute, changed, playback,
                                  decoders, buffers, queue, client>>

FreeOutput == /\ main = "join"
              /\ playback = "ended"
              /\ playback' = "none"
              /\ out' = NULL
              /\ main' = then
              /\ UNCHANGED <<then, state, need_stop, auto_mute, changed, decoders, buffers,
                             queue, client>>

\* alsa_init after a change of format; only an output that plays is started again.
Reopen == /\ main = "reopen"
          /\ OpenOutput
          /\ IF state = "ACTIVE" THEN main' = "restart" /\ UNCHANGED changed
                                 ELSE main' = "flag" /\ changed' = FALSE
          /\ UNCHANGED <<then, state, need_stop, auto_mute, decoders, buffers, queue, client>>

Restart == /\ main = "restart"
           /\ RestartOutput
           /\ changed' = FALSE
           /\ main' = "flag"
           /\ UNCHANGED <<then, state, need_stop, auto_mute, decoders, buffers, queue, client>>

\* adec_flag_check: the playback thread has seen the time stamps jump.
Mute == /\ main = "flag"
        /\ IF auto_mute /\ state \in Working
           THEN out # NULL /\ SetPause(1) /\ main' = "unmute"
           ELSE main' = "gap" /\ UNCHANGED out
        /\ UNCHANGED <<then, state, need_stop, auto_mute, changed, playback, decoders,
                       buffers, queue, client>>

Unmute == /\ main = "unmute"
          /\ SetPause(0)
          /\ auto_mute' = FALSE
          /\ main' = "gap"
          /\ UNCHANGED <<then, state, need_stop, changed, playback, decoders, buffers, queue,
                         client>>

\* The playback thread has seen a gap.
Gap == /\ main = "gap"
       /\ IF state = "GAPPING" THEN state' = "ACTIVE" /\ main' = "ungap"
                               ELSE main' = "get" /\ UNCHANGED state
       /\ UNCHANGED <<then, need_stop, auto_mute, changed, out, playback, decoders, buffers,
                      queue, client>>

Ungap == /\ main = "ungap"
         /\ out # NULL
         /\ SetPause(0)
         /\ auto_mute' = FALSE
         /\ main' = "get"
         /\ UNCHANGED <<then, state, need_stop, changed, playback, decoders, buffers, queue,
                        client>>

\* pause_adec and resume_adec do nothing in another state.
PauseOrResume(m) ==
    /\ IF m = "PAUSE" /\ state = "ACTIVE" THEN state' = "PAUSED" /\ SetPause(1)
       ELSE IF m = "RESUME" /\ state = "PAUSED" THEN state' = "ACTIVE" /\ SetPause(0)
       ELSE UNCHANGED <<state, out>>
    /\ main' = "loop"
    /\ UNCHANGED then

\* mutant: a paused decoder is not stopped
StopPaused == IF state \in {"ACTIVE", "GAPPING"}
              THEN state' = "STOPPED" /\ main' = "stop" /\ then' = "release" /\ UNCHANGED out
              ELSE main' = "loop" /\ UNCHANGED <<state, out, then>>

\* stop_adec
Stop == IF state \in Initialised
        THEN state' = "STOPPED" /\ main' = "stop" /\ then' = "release" /\ UNCHANGED out
        ELSE main' = "loop" /\ UNCHANGED <<state, out, then>>

\* release_adec ends the loop.
Terminate == state' = "TERMINATED" /\ main' = "ended" /\ UNCHANGED <<out, then>>

GetMessage == /\ main = "get"
              /\ queue # <<>>
              /\ queue' = Tail(queue)
              /\ \/ Head(queue) \in Kind /\ PauseOrResume(Head(queue))
                 \/ Head(queue) = "STOP" /\ Stop
                 \/ Head(queue) = "RELEASE" /\ Terminate
              /\ UNCHANGED <<need_stop, auto_mute, changed, playback, decoders, buffers, client>>

NoMessage == /\ main = "get"
             /\ queue = <<>>
             /\ main' = "loop"
             /\ UNCHANGED <<then, state, need_stop, auto_mute, changed, out, playback, decoders,
                            buffers, queue, client>>

\* audio_codec_release joins the decode threads and releases the buffers.
ReleaseCodec == /\ main = "release"
                /\ decoders = "ended"
                /\ decoders' = "none"
                /\ buffers' = FALSE
                /\ main' = "loop"
                /\ UNCHANGED <<then, state, need_stop, auto_mute, changed, out, playback, queue,
                               client>>

Main == InitCodec \/ GiveUp \/ StartDecode \/ FirstPts \/ NoVpts \/ Due \/ Begin \/ Fault
        \/ Reset \/ Unpause \/ SetStop \/ SignalStop \/ FreeOutput \/ Reopen \/ Restart
        \/ Mute \/ Unmute \/ Gap \/ Ungap \/ GetMessage \/ NoMessage \/ ReleaseCodec

-----------------------------------------------------------------------------
(* The decode threads: they see exit_decode_thread, and they may find that the
   format of the stream is another. *)

Decode == /\ decoders = "run"
          /\ \/ main = "release" /\ decoders' = "ended" /\ UNCHANGED changed
             \/ changed' = TRUE /\ UNCHANGED decoders
          /\ UNCHANGED <<main, then, state, need_stop, auto_mute, out, playback, buffers, queue,
                         client>>

-----------------------------------------------------------------------------
(* The playback thread.  It runs only while out is allocated (PlaybackAllocated). *)

\* The test of the first wait, under playback_mutex.
Test == /\ playback = "new"
        /\ out # NULL
        /\ IF out.wait_flag = 0 /\ out.stop_flag = 0
           THEN playback' = "locked" /\ UNCHANGED out
           ELSE playback' = "read" /\ out' = [out EXCEPT !.wait_flag = 1]
        /\ UNCHANGED <<main, then, state, need_stop, auto_mute, changed, decoders, buffers,
                       queue, client>>

\* pthread_cond_wait gives the mutex back.
Wait == /\ playback = "locked"
        /\ playback' = "wait"
        /\ UNCHANGED <<main, then, state, need_stop, auto_mute, changed, out, decoders,
                       buffers, queue, client>>

\* dsp_read has brought data, or the loop ends.
Read == /\ playback = "read"
        /\ out # NULL
        /\ playback' = IF out.stop_flag = 1 THEN "ended"
                       ELSE IF state = "GAPPING" THEN "gapped" ELSE "held"
        /\ UNCHANGED <<main, then, state, need_stop, auto_mute, changed, out, decoders,
                       buffers, queue, client>>

\* The playback thread pauses its own output in a gap.
Gapped == /\ playback = "gapped"
          /\ out # NULL
          /\ SetPause(1)
          /\ playback' = "held"
          /\ UNCHANGED <<main, then, state, need_stop, auto_mute, changed, decoders, buffers,
                         queue, client>>

\* The loop on pause_flag, and what follows it.
Hold == /\ playback = "held"
        /\ out # NULL
        /\ playback' = IF out.stop_flag = 1 THEN "ended"
                       ELSE IF out.pause_flag = 1 THEN "refresh" ELSE "due"
        /\ UNCHANGED <<main, then, state, need_stop, auto_mute, changed, out, decoders, buffers,
                       queue, client>>

\* adec_refresh_pts, in the loop and before alsa_play: it may find that the time stamps jump
\* or that there is a gap.
RefreshPts == /\ \/ playback = "refresh" /\ playback' = "held"
                 \/ playback = "due" /\ playback' = "play"
              /\ \/ UNCHANGED <<auto_mute, state>>
                 \/ ~auto_mute /\ auto_mute' = TRUE /\ UNCHANGED state
                 \/ ~auto_mute /\ state' = "GAPPING" /\ UNCHANGED auto_mute
              /\ UNCHANGED <<main, then, need_stop, changed, out, decoders, buffers, queue,
                             client>>

\* alsa_play blocks while the output is paused.
Play == /\ playback = "play"
        /\ out # NULL
        /\ out.pause_flag = 0
        /\ playback' = "read"
        /\ UNCHANGED <<main, then, state, need_stop, auto_mute, changed, out, decoders,
                       buffers, queue, client>>

Playback == Test \/ Wait \/ Read \/ Gapped \/ Hold \/ RefreshPts \/ Play

Next == Client \/ Main \/ Decode \/ Playback

Spec == Init /\ [][Next]_vars

\* The threads run; a wait for a time stamp need not end before the client stops.
FairSpec == /\ Spec
            /\ WF_vars(SendStop \/ SendRelease \/ Free)
            /\ WF_vars(Main /\ (main \notin Waiting \/ need_stop))
            /\ WF_vars(Decode /\ main = "release")
            /\ WF_vars(Playback)

-----------------------------------------------------------------------------

TypeOK == /\ main \in MainAt
          /\ then \in {"reopen", "release"}
          /\ state \in State
          /\ need_stop \in BOOLEAN /\ auto_mute \in BOOLEAN /\ changed \in BOOLEAN
          /\ buffers \in BOOLEAN
          /\ out \in AlsaParam \cup {NULL}
          /\ playback \in PlaybackAt
          /\ decoders \in {"none", "run", "ended"}
          /\ queue \in Seq(Command \cup {"STOP", "RELEASE"})
          /\ Len(queue) <= MessageMax
          /\ client \in {"open", "stopping", "releasing", "joining", "done"}

\* The playback thread has its parameters and the pcm buffer for as long as it runs:
\* alsa_stop joins it before it frees, and stop_adec stops it before audio_codec_release.
PlaybackAllocated == playback \notin {"none", "ended"} => out # NULL /\ buffers

\* audio_decode_release frees audec when no thread of the decoder is left and everything
\* audio_codec_init and alsa_init have allocated is released.
NothingLeft == client = "done" => /\ playback = "none" /\ decoders = "none"
                                  /\ out = NULL /\ ~buffers

\* The signal of alsa_stop came between the playback thread's test and its wait.
LostWakeup == main = "join" /\ playback = "wait"

\* Nobody waits for what will not come: the RELEASE is in the pool for as long as
\* audio_decode_release waits for the main thread, and alsa_stop waits for a playback thread
\* that sees its stop_flag and is not held by a pause, unless it has lost the wake-up.
ReleaseAnswered ==
    /\ client = "joining" => \/ main = "ended"
                             \/ \E i \in 1 .. Len(queue) : queue[i] = "RELEASE"
    /\ main = "join" => \/ playback = "ended" \/ LostWakeup
                        \/ out.stop_flag = 1 /\ (playback = "play" => out.pause_flag = 0)

\* audio_stop returns, whatever the decoder is doing when it is called, unless the wake-up
\* of the playback thread is lost or a gap found during the stop makes the main thread
\* use the output that it has just freed.
ReleaseReturns == client = "stopping" ~> client = "done" \/ LostWakeup \/ main = "fault"
=============================================================================
