---------------------------- MODULE PlayerThread ----------------------------
(***************************************************************************)
(* The life of one player: player_thread with check_msg and check_flag     *)
(* (amplayer/player/player.c), the resets of player_para.c, the endings of *)
(* player_update.c, the commands its mate takes for it while it is inside  *)
(* a buffering window (player_mate.c), and player_stop (player_ctrl.c).    *)
(*                                                                         *)
(* The message pool is a CommandQueue, which MessagePool implements; the   *)
(* mate acts only inside a window, which MateThread shows.  The stream,    *)
(* the decoder and the network are nondeterministic.  Every step is one    *)
(* turn of a loop, or the code between two points where other threads can  *)
(* be noticed.                                                             *)
(***************************************************************************)
EXTENDS Integers, Sequences

CONSTANTS Command,      \* the commands clients send
          MessageMax,   \* the capacity of the message pool
          LoopForever   \* stands for loop_flag 0xffff; smaller counts are counted down

\* Seeks before, inside, at and after the range of the file; a step of 0 ends a trick mode.
Seek == {"SEEK_RESET", "SEEK", "SEEK_FULL", "SEEK_OVER"}
Kind == Seek \cup {"START", "STOP", "PAUSE", "RESUME", "FF", "FF_0", "SWITCH_AID",
                   "LOOP", "NOLOOP"}

ASSUME PlayerAssumption == /\ Command \subseteq Kind
                           /\ MessageMax \in Nat \ {0}
                           /\ LoopForever \in Nat \ {0}

VARIABLES main,     \* where the player thread is
          p,        \* play_para_t: the flags of playctrl_info and player_state
          avpkt,    \* avpkt_isvalid: a packet is waiting to be written
          ret,      \* result of the read inside the current window
          mate,     \* the mate was created
          killed,   \* the thread is in kill_item_list: its reads are interrupted
          queue,    \* the message pool
          stop      \* where the client that calls player_stop is

vars == <<main, p, avpkt, ret, mate, killed, queue, stop>>

Flag == {0, 1}

\* Fast forward and fast backward are one trick mode here, fast.
Para == [end_flag : Flag, request_end_flag : Flag, search_flag : Flag,
         reset_flag : Flag, fast : Flag, f_step : Flag, init_ff_fr : Flag,
         pause_flag : Flag, loop_flag : 0 .. LoopForever, read_end_flag : Flag,
         seek_base_audio : Flag, ignore_ffmpeg_errors : Flag,
         temp_interrupt_ffmpeg : Flag, oldcmd_is_seek : Flag,
         player_state : {"INITING", "TYPE_REDY", "INITOK", "START", "RUNNING", "BUFFERING",
                         "PAUSE", "SEARCHING", "SEARCHOK", "FF_END", "FB_END", "ERROR",
                         "PLAYEND", "STOPED", "EXIT"}]

MainAt == {"open", "prepare", "start", "decoder", "check", "read", "buffer", "closing",
           "closed", "write", "wait", "ended", "reset", "release", "exit", "exited"}

\* player_mate_wake up to the end of player_mate_sleep.
Window == main \in {"read", "buffer", "closing", "closed"}

State(c, s) == [c EXCEPT !.player_state = s]

-----------------------------------------------------------------------------
\* The handlers, as operators from play_para_t to what they may leave in it.

When(condition, c) == IF condition THEN {c} ELSE {}

\* check_avbuf_end and check_force_end: both decoder buffers have run dry.
RunDry(c) ==
    IF c.loop_flag = 0
    THEN {[State(c, "PLAYEND") EXCEPT !.end_flag = 1, !.fast = 0, !.f_step = 0,
                                      !.search_flag = 0, !.reset_flag = 0]}
    ELSE {[c EXCEPT !.end_flag = 1, !.search_flag = s] : s \in {0, c.search_flag}}

\* update_playing_info: autobuffering starts or ends, or playback has come to its end.
Updates(c) ==
    {c} \cup When(c.player_state = "RUNNING" /\ c.read_end_flag = 0, State(c, "BUFFERING"))
        \cup When(c.player_state = "BUFFERING", State(c, "RUNNING"))
        \cup IF c.read_end_flag = 1 /\ c.end_flag = 0 /\ c.player_state # "PAUSE"
             THEN RunDry(c) ELSE {}

\* mutant: a stop does not end the trick mode
StoppedInTrick(c) == [c EXCEPT !.end_flag = 1, !.loop_flag = 0, !.search_flag = 0,
                               !.request_end_flag = 1]

\* CMD_STOP and CMD_EXIT in check_msg
Stopped(c) == [c EXCEPT !.end_flag = 1, !.loop_flag = 0, !.search_flag = 0,
                        !.request_end_flag = 1, !.fast = 0]

\* The start of CMD_SEARCH in check_msg: a seek during a reset ends the trick mode.
SeekStarts(c) == IF c.player_state = "SEARCHING" THEN [c EXCEPT !.fast = 0, !.f_step = 0]
                 ELSE c

CheckMsg(m, c) ==
    CASE m = "STOP"       -> {Stopped(c)}
      [] m = "SEEK"       -> {[SeekStarts(c) EXCEPT !.search_flag = 1, !.end_flag = 1]}
      [] m = "SEEK_RESET" -> {[SeekStarts(c) EXCEPT !.reset_flag = 1, !.end_flag = 1]}
      [] m = "SEEK_FULL"  -> {[State(SeekStarts(c), "PLAYEND") EXCEPT !.end_flag = 1,
                                                                      !.search_flag = 0]}
      [] m = "SEEK_OVER"  -> Updates(SeekStarts(c))
      [] m = "PAUSE"      -> {[c EXCEPT !.pause_flag = 1]}
      [] m = "RESUME"     -> {[c EXCEPT !.pause_flag = 0]}
      [] m = "FF"         -> {[State(c, "RUNNING") EXCEPT !.init_ff_fr = 0, !.f_step = 1,
                                                          !.fast = 1, !.pause_flag = 0]}
      [] m = "FF_0"       -> {[c EXCEPT !.init_ff_fr = 0, !.f_step = 0]}
      [] m = "SWITCH_AID" -> {[c EXCEPT !.seek_base_audio = 1]}
      [] m = "LOOP"       -> {[c EXCEPT !.loop_flag = LoopForever]}
      [] m = "NOLOOP"     -> {[c EXCEPT !.loop_flag = 0]}
      [] m = "START"      -> {c}

\* mutant: only the resume after a seek is reported
ResumedAfterSeek(c) == IF c.player_state = "SEARCHOK" THEN Updates(State(c, "RUNNING")) ELSE {c}

\* A pause or resume carried out: the codec follows, and the new state is reported.
Paused(c) == State(c, "PAUSE")
Resumed(c) ==
    IF c.player_state \in {"PAUSE", "SEARCHOK"} THEN Updates(State(c, "RUNNING")) ELSE {c}

\* player_switch_audio: nothing, a reset of the player, or one of the TS decoder.
SwitchAudio(c) == {c, [c EXCEPT !.reset_flag = 1, !.end_flag = 1],
                   [State(c, "RUNNING") EXCEPT !.read_end_flag = 0]}

Switched(c) == IF c.seek_base_audio = 1
               THEN {[d EXCEPT !.seek_base_audio = 0] : d \in SwitchAudio(c)} ELSE {c}

\* After a seek the next seek has to wait for a frame to be shown.
SeekWaits(c) == queue # <<>> /\ Head(queue) \in Seek /\ c.oldcmd_is_seek = 1

\* get_message and check_msg, as check_flag and the mate call them.
Handled(c) == CheckMsg(Head(queue), [c EXCEPT !.oldcmd_is_seek =
                                                 IF Head(queue) \in Seek THEN 1 ELSE 0])

\* check_flag after the message: what the player thread must do, and what it leaves.
Trick(c) == c.fast = 1 /\ c.init_ff_fr = 0

EndState(c) == IF c.search_flag = 1 \/ c.fast = 1 THEN c
               ELSE State(c, IF c.request_end_flag = 1 THEN "STOPED" ELSE "PLAYEND")

TrickStarts(c) == IF c.f_step # 0 THEN [c EXCEPT !.init_ff_fr = 1]
                  ELSE [c EXCEPT !.fast = 0, !.search_flag = 1]

Flags(c) ==
    LET Verdict(flag, S) == {<<flag, d>> : d \in S}
    IN  CASE c.end_flag = 1                  -> Verdict("BREAK", {EndState(c)})
          [] c.end_flag = 0 /\ Trick(c)      -> Verdict("BREAK", {TrickStarts(c)})
          [] c.end_flag = 0 /\ ~Trick(c) /\ c.pause_flag = 1
                                             -> Verdict("CONTINUE", {Paused(c)})
          [] c.end_flag = 0 /\ ~Trick(c) /\ c.pause_flag = 0
                                             -> Verdict("NONO", UNION {Switched(d) : d \in Resumed(c)})

\* check_flag: its possible verdicts, with play_para_t and the pool it leaves.
Taken(c) == IF queue = <<>> THEN {<<c, queue>>} ELSE {<<d, Tail(queue)>> : d \in Handled(c)}

CheckFlag(c) == When(SeekWaits(c), <<"NONO", c, queue>>)
                   \cup UNION {{<<v[1], v[2], t[2]>> : v \in Flags(t[1])} : t \in Taken(c)}

\* check_decoder_worksta: a video or audio decoder in error asks for a reset.
DecoderState(c) ==
    {c} \cup UNION {When(c.player_state # "PAUSE",
                         [c EXCEPT !.reset_flag = 1, !.end_flag = 1, !.seek_base_audio = a]) :
                    a \in {c.seek_base_audio, 1}}

-----------------------------------------------------------------------------

Init == /\ main = "open"
        /\ \E loop_mode \in 0 .. LoopForever :
              p = [end_flag |-> 0, request_end_flag |-> 0, search_flag |-> 0,
                   reset_flag |-> 0, fast |-> 0, f_step |-> 0, init_ff_fr |-> 0,
                   pause_flag |-> 0, loop_flag |-> loop_mode, read_end_flag |-> 0,
                   seek_base_audio |-> 0, ignore_ffmpeg_errors |-> 0,
                   temp_interrupt_ffmpeg |-> 0, oldcmd_is_seek |-> 0,
                   player_state |-> "INITING"]
        /\ avpkt = 0
        /\ ret = "SUCCESS"
        /\ mate = 0
        /\ killed = 0
        /\ queue = <<>>
        /\ stop = "idle"

Goes(from, to) == main = from /\ main' = to

\* player_send_message and player_start_play, into the pool that MessagePool implements.
Pool == INSTANCE CommandQueue WITH Message <- Kind

Deliver(m) == Pool!Accept(m) \/ Pool!PushOut(m) \/ Pool!ReplaceHead(m)

Send(m) == /\ p.player_state # "EXIT"
           /\ Deliver(m)
           /\ UNCHANGED <<main, p, avpkt, ret, mate, killed, stop>>

\* player_stop, the client's side.
StopCall == /\ stop = "idle"
            /\ stop' = IF p.player_state = "EXIT" THEN "done" ELSE "clear"
            /\ UNCHANGED <<main, p, avpkt, ret, mate, killed, queue>>

StopClear == /\ stop = "clear"
             /\ stop' = "interrupt"
             /\ queue' = <<>>
             /\ UNCHANGED <<main, p, avpkt, ret, mate, killed>>

StopInterrupt == /\ stop = "interrupt"
                 /\ stop' = "send"
                 /\ killed' = 1
                 /\ UNCHANGED <<main, p, avpkt, ret, mate, queue>>

StopSend == /\ stop = "send"
            /\ stop' = "join"
            /\ Deliver("STOP")
            /\ UNCHANGED <<main, p, avpkt, ret, mate, killed>>

StopJoin == /\ stop = "join"
            /\ main = "exited"
            /\ stop' = "done"
            /\ killed' = 0
            /\ queue' = <<>>
            /\ UNCHANGED <<main, p, avpkt, ret, mate>>

-----------------------------------------------------------------------------

\* ffmpeg_open_file: the file cannot be opened, or its type is known.
Open == /\ \/ Goes("open", "prepare") /\ p' = State(p, "TYPE_REDY")
           \/ Goes("open", "release") /\ p' = State(p, "ERROR")
        /\ UNCHANGED <<avpkt, ret, mate, killed, queue, stop>>

\* With is_type_parser a stop that is already waiting ends the player here.
StopAfterParse == /\ queue # <<>> /\ Head(queue) = "STOP"
                  /\ Goes("prepare", "release")
                  /\ UNCHANGED <<p, avpkt, ret, mate, killed, queue, stop>>

\* check_stop_cmd takes commands until there are no more or one is a stop.
HasStop == "STOP" \in {queue[i] : i \in 1 .. Len(queue)}

DrainToStop ==
    \E n \in 0 .. Len(queue) :
        /\ queue' = SubSeq(queue, n + 1, Len(queue))
        /\ IF HasStop THEN /\ n > 0 /\ queue[n] = "STOP"
                           /\ \A i \in 1 .. n - 1 : queue[i] # "STOP"
           ELSE n = Len(queue)

\* mutant: a failed player_dec_init empties the pool and looks for no stop in it
PrepareFailsDeaf == /\ Goes("prepare", "release")
                    /\ p' = State(p, "ERROR")
                    /\ DrainToStop \/ UNCHANGED queue
                    /\ UNCHANGED <<avpkt, ret, mate, killed, stop>>

\* player_dec_init and set_media_info; then need_start asks to wait for CMD_START.
PrepareFails == /\ Goes("prepare", "release")
                /\ \/ /\ p' = State(p, IF HasStop THEN "STOPED" ELSE "ERROR")
                      /\ DrainToStop
                   \/ p' = State(p, "ERROR") /\ UNCHANGED queue
                /\ UNCHANGED <<avpkt, ret, mate, killed, stop>>

Prepare == /\ Goes("prepare", "start") \/ Goes("prepare", "decoder")
           /\ p' = State(p, "INITOK")
           /\ UNCHANGED <<avpkt, ret, mate, killed, queue, stop>>

\* check_start_cmd; a seek before the start only moves the time point.
Start == /\ queue # <<>>
         /\ queue' = Tail(queue)
         /\ IF Head(queue) = "START" THEN Goes("start", "decoder") /\ UNCHANGED p
            ELSE IF Head(queue) = "SEEK" THEN Goes("start", "start") /\ UNCHANGED p
            ELSE \E c \in CheckMsg(Head(queue), p) :
                    IF c.end_flag = 1 /\ c.search_flag = 0
                    THEN /\ Goes("start", "release")
                         /\ p' = State(c, IF c.request_end_flag = 1 THEN "STOPED" ELSE "PLAYEND")
                    ELSE Goes("start", "start") /\ p' = c
         /\ UNCHANGED <<avpkt, ret, mate, killed, stop>>

\* player_decoder_init, player_mate_init and the software decoder.
Decoder == /\ \/ Goes("decoder", "release") /\ p' = State(p, "ERROR") /\ UNCHANGED mate
              \/ /\ Goes("decoder", "check") \/ Goes("decoder", "release")
                 /\ p' = State(p, "START")
                 /\ mate' \in Flag
           /\ UNCHANGED <<avpkt, ret, killed, queue, stop>>

-----------------------------------------------------------------------------
\* The play loop.

\* Data was read or is waiting: the player reports that it is running.
Running(c) ==
    IF c.f_step = 0 /\ c.player_state \notin {"RUNNING", "BUFFERING", "PAUSE"}
    THEN Updates(State(c, "RUNNING")) ELSE {c}

\* check_flag decides: leave the loop, write the packet again, wait, or read on.
Check ==
    /\ \E v \in CheckFlag(p) :
          /\ queue' = v[3]
          /\ \/ /\ v[1] = "BREAK"
                /\ IF v[2].end_flag = 0 /\ avpkt = 1
                   THEN Goes("check", "write") /\ p' = v[2]
                   ELSE Goes("check", "ended") /\ p' = [v[2] EXCEPT !.end_flag = 1]
                /\ UNCHANGED ret
             \/ /\ v[1] # "BREAK" /\ avpkt = 0
                /\ Goes("check", "read") /\ p' = v[2]
                /\ ret' = "SUCCESS"
             \/ /\ v[1] # "BREAK" /\ avpkt = 1
                /\ ret' = v[1]
                /\ \/ Goes("check", "buffer") /\ p' = v[2]     \* enable_rw_on_pause
                   \/ /\ Goes("check", "write")
                      /\ p' \in IF v[1] = "NONO" THEN Running(v[2]) ELSE {v[2]}
    /\ UNCHANGED <<avpkt, mate, killed, stop>>

\* ret < 0 with ignore_ffmpeg_errors set is turned into ret = 0.
Ignoring(r) ==
    IF r # "SUCCESS" /\ p.ignore_ffmpeg_errors = 1
    THEN ret' = "SUCCESS" /\ p' = [p EXCEPT !.ignore_ffmpeg_errors = 0]
    ELSE ret' = r /\ UNCHANGED p

\* raw_read and non_raw_read: a packet, no packet yet, the end of the file, an error.
Read ==
    /\ Goes("read", "closing")
    /\ \/ /\ p.read_end_flag = 0
          /\ avpkt' = 1 /\ ret' = "SUCCESS" /\ UNCHANGED p
       \/ /\ avpkt' = 0 /\ ret' = "SUCCESS"
          /\ p' = [p EXCEPT !.read_end_flag = 1]
       \/ /\ p.read_end_flag = 0 /\ avpkt' = 0
          /\ Ignoring("AGAIN") \/ Ignoring("FAILED")
    /\ UNCHANGED <<mate, killed, queue, stop>>

\* ffmpeg_buffering_data while a packet waits; only its own error is looked at.
Buffer == /\ Goes("buffer", "closing")
          /\ p' \in {p, [p EXCEPT !.ignore_ffmpeg_errors = 0]}
          /\ UNCHANGED <<avpkt, ret, mate, killed, queue, stop>>

\* player_mate_sleep undoes the mate's interrupt, then waits for the mate.
SleepUndo == /\ Goes("closing", "closed")
             /\ p' = [p EXCEPT !.temp_interrupt_ffmpeg = 0]
             /\ killed' = IF p.temp_interrupt_ffmpeg = 1 THEN 0 ELSE killed
             /\ UNCHANGED <<avpkt, ret, mate, queue, stop>>

\* The window is over: read_av_packet or set_header_info failed, or on to writing.
WindowDone ==
    /\ \/ /\ ret \in {"SUCCESS", "AGAIN", "FAILED"}
          /\ Goes("closed", "release")
          /\ p' = State(p, "ERROR")
       \/ /\ ret # "FAILED"
          /\ Goes("closed", "write")
          /\ p' \in IF ret = "CONTINUE" THEN {p} ELSE Running(p)
    /\ UNCHANGED <<avpkt, ret, mate, killed, queue, stop>>

\* player_mate_thread_cmd_proxy: the mate takes a command inside the window.
Interrupted(c) == [c EXCEPT !.ignore_ffmpeg_errors = 1, !.temp_interrupt_ffmpeg = 1]

\* mutant: the mate's seek does not interrupt the read
MateSeekWaits ==
    /\ Window /\ mate = 1
    /\ queue # <<>>
    /\ queue' = Tail(queue)
    /\ \E c \in Handled(p) : p' \in IF c.pause_flag = 1 THEN {Paused(c)} ELSE Resumed(c)
    /\ UNCHANGED <<main, avpkt, ret, mate, killed, stop>>

MateCommand ==
    /\ Window /\ mate = 1
    /\ queue # <<>>
    /\ queue' = Tail(queue)
    /\ \E c \in Handled(p) :
          LET d == IF c.search_flag = 1 THEN Interrupted(c) ELSE c
          IN  /\ killed' = IF c.search_flag = 1 THEN 1 ELSE killed
              /\ p' \in IF d.pause_flag = 1 THEN {Paused(d)} ELSE Resumed(d)
    /\ UNCHANGED <<main, avpkt, ret, mate, stop>>

\* The mate's daily update of the playing information.
MateUpdate == /\ Window /\ mate = 1
              /\ p' \in Updates(p) \ {p}
              /\ UNCHANGED <<main, avpkt, ret, mate, killed, queue, stop>>

\* What follows a write: the update, the decoder's state, the end of a trick frame.
Written(c) ==
    \E d \in UNION {DecoderState(u) : u \in Updates(c)} :
        \/ Goes("write", "release") /\ p' = State(d, "ERROR")
        \/ Goes("write", IF d.end_flag = 1 THEN "ended" ELSE "check") /\ p' = d
        \/ /\ d.fast = 1                                  \* get_cntl_state: frame shown
           /\ Goes("write", "ended")
           /\ p' \in Updates([d EXCEPT !.end_flag = 1])

\* write_av_packet: all of it or a part, and a write blocked for too long asks for a reset.
Write ==
    /\ \/ avpkt = 1 /\ avpkt' = 0 /\ Written(p)
       \/ avpkt' = avpkt /\ Written(p)
       \/ /\ avpkt = 1 /\ avpkt' = 1
          /\ Written([p EXCEPT !.reset_flag = 1, !.end_flag = 1])
       \/ /\ UNCHANGED avpkt
          /\ Goes("write", "release") /\ p' = State(p, "ERROR")
    /\ UNCHANGED <<ret, mate, killed, queue, stop>>

\* PLAYER_WR_FINISH: everything read is written; leave the loop.
WriteFinish ==
    /\ p.read_end_flag = 1 /\ p.f_step = 0
    /\ avpkt' = 0
    /\ Goes("write", IF p.end_flag = 1 THEN "ended" ELSE "wait")
    /\ UNCHANGED <<p, ret, mate, killed, queue, stop>>

\* The loop "wait for play end": the decoders still have to show what they have.
WaitEnd ==
    /\ \E v \in UNION {CheckFlag(c) : c \in DecoderState(p)} :
          /\ queue' = v[3]
          /\ \/ /\ v[1] = "BREAK"
                /\ Goes("wait", "ended")
                /\ p' = IF v[2].search_flag = 1 \/ v[2].fast = 1
                        THEN [v[2] EXCEPT !.read_end_flag = 0] ELSE v[2]
             \/ v[1] = "CONTINUE" /\ Goes("wait", "wait") /\ p' = v[2]
             \/ /\ v[1] = "NONO"
                /\ \/ Goes("wait", "ended") /\ p' = v[2]  \* update_playing_info fails
                   \/ \E c \in Updates(v[2]) :
                         /\ p' = c
                         /\ Goes("wait", IF c.end_flag = 1 THEN "ended" ELSE "wait")
    /\ UNCHANGED <<avpkt, ret, mate, killed, stop>>

\* mutant: the loop count is not stopped at 0
CountBelow(c) == IF c.loop_flag < LoopForever THEN [c EXCEPT !.loop_flag = @ - 1] ELSE c

\* exit_flag, with the count of the loop mode.
CountDown(c) == IF c.loop_flag \in 1 .. LoopForever - 1
                THEN [c EXCEPT !.loop_flag = @ - 1] ELSE c

Exits(c) == c.loop_flag = 0 /\ c.search_flag = 0 /\ c.fast = 0 /\ c.reset_flag = 0

PlayEnded ==
    LET c == CountDown(p)
    IN  /\ IF Exits(c) THEN Goes("ended", "release") /\ p' = c
           ELSE /\ Goes("ended", "reset")
                /\ p' \in IF c.player_state = "SEARCHING" THEN {c}
                          ELSE Updates(State(c, "SEARCHING"))
        /\ UNCHANGED <<avpkt, ret, mate, killed, queue, stop>>

\* player_reset: player_dec_reset in a trick mode may reach the end or the head.
TrickReset(c) ==
    {c, [c EXCEPT !.end_flag = 1],
     [State(c, "FF_END") EXCEPT !.f_step = 0,
                                !.init_ff_fr = IF c.loop_flag = 0 THEN @ ELSE 0],
     State(c, "FB_END"), [State(c, "FB_END") EXCEPT !.f_step = 0, !.init_ff_fr = 0]}

\* After the reset the play loop starts again, or the trick mode ends the play.
Reset ==
    LET c == [p EXCEPT !.end_flag = 0, !.read_end_flag = 0]
    IN  /\ \/ /\ Goes("reset", "release")
              /\ p' = State(c, "ERROR")
              /\ UNCHANGED avpkt
           \/ \E d \in IF c.fast = 1 THEN TrickReset(c) ELSE {c} :
                 IF d.end_flag = 1
                 THEN Goes("reset", "release") /\ p' = State(d, "PLAYEND") /\ UNCHANGED avpkt
                 ELSE /\ Goes("reset", "check")
                      /\ \E a \in {d.seek_base_audio, 0} :         \* time_search
                            p' = [d EXCEPT !.player_state = IF d.search_flag = 1
                                                            THEN "SEARCHOK" ELSE @,
                                           !.search_flag = 0, !.reset_flag = 0,
                                           !.seek_base_audio = a]
                      /\ avpkt' = 0
        /\ UNCHANGED <<ret, mate, killed, queue, stop>>

-----------------------------------------------------------------------------

\* release0: an error after a stop, or with one waiting, is a stop.
Release ==
    /\ \/ p.player_state # "ERROR" /\ p' \in Updates(p) /\ UNCHANGED queue
       \/ /\ p.player_state = "ERROR" /\ p.request_end_flag = 1
          /\ p' \in Updates(State(p, "STOPED"))
          /\ UNCHANGED queue
       \/ /\ p.player_state = "ERROR" /\ p.request_end_flag = 0
          /\ p' \in Updates(IF HasStop THEN State(p, "STOPED") ELSE p)
          /\ DrainToStop
    /\ Goes("release", "exit")
    /\ UNCHANGED <<avpkt, ret, mate, killed, stop>>

Exit == /\ Goes("exit", "exited")
        /\ p' = State(p, "EXIT")
        /\ UNCHANGED <<avpkt, ret, mate, killed, queue, stop>>

-----------------------------------------------------------------------------

\* Calls into the network: they return only when they are interrupted or have data.
Blocking == Open \/ PrepareFails \/ Prepare \/ Read \/ Buffer \/ Reset

\* The steps the player thread takes by itself.
Playing == \/ StopAfterParse \/ Start \/ Decoder
           \/ Check \/ SleepUndo \/ WindowDone
           \/ Write \/ WriteFinish \/ WaitEnd
           \/ PlayEnded \/ Release \/ Exit

StopStep == StopClear \/ StopInterrupt \/ StopSend \/ StopJoin

Next == \/ \E m \in Command : Send(m)
        \/ StopCall
        \/ StopStep
        \/ Blocking
        \/ Playing
        \/ MateCommand \/ MateUpdate

Spec == Init /\ [][Next]_vars

\* The player thread and the caller of player_stop are scheduled; a blocking call
\* returns at least when the thread is interrupted.
FairSpec == /\ Spec
            /\ WF_vars(Playing)
            /\ WF_vars(killed = 1 /\ Blocking)
            /\ WF_vars(StopStep)

\* One client, which calls player_stop after all its other commands.
StopLast == \/ stop = "idle" /\ \E m \in Command : Send(m)
            \/ StopCall \/ StopStep \/ Blocking \/ Playing \/ MateCommand \/ MateUpdate

StopLastSpec == Init /\ [][StopLast]_vars

\* Everything helps the stop: calls time out, an interrupted thread does not go on reading
\* buffered data for ever, what was read is written, and a stream that ends is played out.
HelpedSpec == /\ StopLastSpec
              /\ WF_vars(Playing)
              /\ WF_vars(Blocking)
              /\ WF_vars(StopStep)
              /\ SF_vars(killed = 1 /\ Read /\ ret' = "FAILED")
              /\ SF_vars(Write /\ avpkt' = 0)
              /\ SF_vars(WriteFinish)
              /\ SF_vars(WaitEnd /\ main' = "ended")

-----------------------------------------------------------------------------

TypeOK == /\ main \in MainAt
          /\ p \in Para
          /\ avpkt \in Flag /\ mate \in Flag /\ killed \in Flag
          /\ ret \in {"SUCCESS", "AGAIN", "FAILED", "NONO", "CONTINUE"}
          /\ queue \in Seq(Kind) /\ Len(queue) <= MessageMax
          /\ stop \in {"idle", "clear", "interrupt", "send", "join", "done"}

\* A player that reports PLAYER_PAUSE while it reads is paused: whoever took the resume,
\* the player thread or the mate, has reported it.
PauseShown == Window /\ p.player_state = "PAUSE" => p.pause_flag = 1

\* A stop taken by check_flag in the play loop is final: no loop mode, trick mode, seek or
\* reset that was asked for earlier keeps the player alive.
StopIsFinal == [][(p.request_end_flag' # p.request_end_flag /\ main = "check")
                     => (main' = "ended" /\ Exits(p'))]_vars

\* An error of a player whose player_stop has sent its command before the release is reported
\* as a stop, wherever the command is by then: taken in a loop or by the mate, taken out of
\* the pool when the opening failed, or still in the pool.
StopIsNoError == [][(stop = "join" /\ main = "release" /\ main' = "exit")
                       => p'.player_state # "ERROR"]_vars

\* A seek accepted by check_msg, in the player thread or in the mate, is given up or reaches
\* the reset that carries it out: the player does not stay in a read that nobody interrupts.
SeekServed == p.search_flag = 1 /\ p.end_flag = 1
                 ~> p.search_flag = 0 \/ main \in {"reset", "exited"}

\* A seek that was accepted is not left behind a read: the read was interrupted, by the mate
\* that took the seek or by a player_stop.
SeekInterrupts == main \in {"read", "buffer"} /\ p.search_flag = 1 /\ p.end_flag = 1
                     => killed = 1

\* player_stop is to "wait thread exit after send stop command": the thread does exit.
StopReturns == stop = "join" ~> main = "exited"
=============================================================================
