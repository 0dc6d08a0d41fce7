------------------------- MODULE PlayerThreadProofs -------------------------
(***************************************************************************)
(* The safety properties of PlayerThread, for every set of commands, every *)
(* capacity of the pool and every loop count.  IInv is inductive; what the *)
(* handlers leave in play_para_t is stated once, in a lemma for each.      *)
(***************************************************************************)
EXTENDS PlayerThread, TLAPS


-----------------------------------------------------------------------------
(* The inductive invariant. *)

\* A reset that was asked for ends the play loop; the loop starts with end_flag clear; and
\* before it starts nothing was read and no seek taken.
EndKept == /\ main \notin {"release", "exit", "exited"} /\ p.reset_flag = 1 => p.end_flag = 1
           /\ main = "check" => p.end_flag = 0
           /\ main \in {"open", "prepare", "start", "decoder"} =>
                 p.end_flag = 0 /\ p.search_flag = 0 /\ p.read_end_flag = 0

\* A resume that the play loop took but did not report yet: the next check_flag reports it,
\* because neither a seek nor the start of a trick mode comes first.
Unreported(c) == c.player_state = "PAUSE" /\ c.pause_flag = 0

PauseKept == /\ main \in {"check", "write"} /\ Unreported(p) =>
                   p.oldcmd_is_seek = 0 /\ ~Trick(p)
             /\ main = "reset" => p.player_state # "PAUSE"

IInv == TypeOK /\ EndKept /\ PauseShown /\ PauseKept

-----------------------------------------------------------------------------
(* What the handlers leave in play_para_t. *)

\* The relation every handler keeps to: the end, once asked for, stays asked for until the
\* reset; a reset asks for the end; and a stop that was taken is not forgotten.
Keeps(c, d) == /\ c.end_flag = 1 => d.end_flag = 1
               /\ c.request_end_flag = 1 => d.request_end_flag = 1
               /\ d.reset_flag = 1 => c.reset_flag = 1 \/ d.end_flag = 1

\* Neither a trick mode nor a seek starts.
Calm(c, d) == /\ d.fast = 1 => c.fast = 1
              /\ d.search_flag = 1 => c.search_flag = 1

\* The relation of those that only report: they do not touch what the commands left.
Reports(c, d) == /\ Keeps(c, d)
                 /\ Calm(c, d)
                 /\ d.player_state = "PAUSE" => c.player_state = "PAUSE"
                 /\ d.request_end_flag = c.request_end_flag
                 /\ d.pause_flag = c.pause_flag
                 /\ d.oldcmd_is_seek = c.oldcmd_is_seek
                 /\ Trick(d) => Trick(c)

LEMMA LoopRange == 0 \in 0 .. LoopForever /\ LoopForever \in 0 .. LoopForever
  BY PlayerAssumption

LEMMA StateTyped ==
    ASSUME NEW c \in Para,
           NEW s \in {"INITING", "TYPE_REDY", "INITOK", "START", "RUNNING", "BUFFERING",
                      "PAUSE", "SEARCHING", "SEARCHOK", "FF_END", "FB_END", "ERROR",
                      "PLAYEND", "STOPED", "EXIT"}
    PROVE  /\ State(c, s) \in Para
           /\ State(c, s).player_state = s
           /\ State(c, s).end_flag = c.end_flag
           /\ State(c, s).request_end_flag = c.request_end_flag
           /\ State(c, s).search_flag = c.search_flag
           /\ State(c, s).reset_flag = c.reset_flag
           /\ State(c, s).fast = c.fast
           /\ State(c, s).init_ff_fr = c.init_ff_fr
           /\ State(c, s).pause_flag = c.pause_flag
           /\ State(c, s).loop_flag = c.loop_flag
           /\ State(c, s).read_end_flag = c.read_end_flag
           /\ State(c, s).oldcmd_is_seek = c.oldcmd_is_seek
  BY DEF State, Para

LEMMA RunDryKeeps ==
    ASSUME NEW c \in Para, NEW d \in RunDry(c)
    PROVE  /\ d \in Para
           /\ d.end_flag = 1
           /\ d.player_state \in {c.player_state, "PLAYEND"}
           /\ Reports(c, d)
<1>1. CASE c.loop_flag = 0
  <2>1. d = [State(c, "PLAYEND") EXCEPT !.end_flag = 1, !.fast = 0, !.f_step = 0,
                                        !.search_flag = 0, !.reset_flag = 0]
    BY <1>1 DEF RunDry
  <2>2. d \in Para BY <2>1 DEF State, Para, Flag
  <2>3. /\ d.player_state = "PLAYEND" /\ d.end_flag = 1 /\ d.fast = 0 /\ d.reset_flag = 0
        /\ d.search_flag = 0
        /\ d.request_end_flag = c.request_end_flag /\ d.pause_flag = c.pause_flag
        /\ d.oldcmd_is_seek = c.oldcmd_is_seek
    BY <2>1 DEF State, Para, Flag
  <2>4. QED BY <2>2, <2>3 DEF Reports, Keeps, Calm, Trick
<1>2. CASE c.loop_flag # 0
  <2>1. PICK s \in {0, c.search_flag} : d = [c EXCEPT !.end_flag = 1, !.search_flag = s]
    BY <1>2 DEF RunDry
  <2>2. QED BY <2>1 DEF Para, Flag, Reports, Keeps, Calm, Trick
<1>3. QED BY <1>1, <1>2

LEMMA UpdatesKeep ==
    ASSUME NEW c \in Para, NEW d \in Updates(c)
    PROVE  /\ d \in Para
           /\ Reports(c, d)
           /\ d.player_state \in {c.player_state, "BUFFERING", "RUNNING", "PLAYEND"}
           /\ c.read_end_flag = 0 =>
                 d.end_flag = c.end_flag /\ d.search_flag = c.search_flag /\ d.read_end_flag = 0
<1>1. \/ d = c
      \/ d = State(c, "BUFFERING")
      \/ d = State(c, "RUNNING")
      \/ c.read_end_flag = 1 /\ d \in RunDry(c)
  BY DEF Updates, When
<1>2. CASE d = c
  BY <1>2 DEF Reports, Keeps, Calm, Trick
<1>3. CASE d = State(c, "BUFFERING") \/ d = State(c, "RUNNING")
  BY <1>3, StateTyped DEF Reports, Keeps, Calm, Trick
<1>4. CASE c.read_end_flag = 1 /\ d \in RunDry(c)
  BY <1>4, RunDryKeeps
<1>5. QED BY <1>1, <1>2, <1>3, <1>4

LEMMA SeekStartsKeeps ==
    ASSUME NEW c \in Para
    PROVE  /\ SeekStarts(c) \in Para
           /\ Reports(c, SeekStarts(c))
           /\ SeekStarts(c).player_state = c.player_state
           /\ SeekStarts(c).end_flag = c.end_flag
           /\ SeekStarts(c).reset_flag = c.reset_flag
           /\ SeekStarts(c).search_flag = c.search_flag
           /\ SeekStarts(c).read_end_flag = c.read_end_flag
<1>1. CASE SeekStarts(c) = c
  BY <1>1 DEF Reports, Keeps, Calm, Trick
<1>2. CASE SeekStarts(c) = [c EXCEPT !.fast = 0, !.f_step = 0]
  <2> DEFINE d == SeekStarts(c)
  <2>1. d \in Para /\ d.fast = 0
    BY <1>2 DEF Para, Flag
  <2>2. /\ d.player_state = c.player_state /\ d.end_flag = c.end_flag
        /\ d.reset_flag = c.reset_flag /\ d.search_flag = c.search_flag
        /\ d.read_end_flag = c.read_end_flag /\ d.pause_flag = c.pause_flag
        /\ d.request_end_flag = c.request_end_flag /\ d.oldcmd_is_seek = c.oldcmd_is_seek
    BY <1>2 DEF Para, Flag
  <2> HIDE DEF d
  <2>3. Reports(c, d) BY <2>1, <2>2 DEF Reports, Keeps, Calm, Trick
  <2>4. QED BY <2>1, <2>2, <2>3 DEF d
<1>3. QED BY <1>1, <1>2 DEF SeekStarts

LEMMA StoppedIsFinal ==
    ASSUME NEW c \in Para
    PROVE  /\ Stopped(c) \in Para
           /\ Stopped(c).player_state = c.player_state
           /\ Stopped(c).end_flag = 1 /\ Stopped(c).request_end_flag = 1
           /\ Stopped(c).search_flag = 0 /\ Stopped(c).fast = 0 /\ Stopped(c).loop_flag = 0
           /\ Stopped(c).reset_flag = c.reset_flag
<1>1. Stopped(c) \in Para BY LoopRange DEF Stopped, Para, Flag
<1>2. QED BY <1>1 DEF Stopped, Para

\* A command leaves a reported pause unreported only as a resume, and a seek that does not
\* end the loop only reports.
LEMMA CheckMsgKeeps ==
    ASSUME NEW c \in Para, NEW m \in Kind, NEW d \in CheckMsg(m, c)
    PROVE  /\ d \in Para
           /\ Keeps(c, d)
           /\ d.player_state = "PAUSE" => c.player_state = "PAUSE"
           /\ d.oldcmd_is_seek = c.oldcmd_is_seek
           /\ m \in Seek => d.end_flag = 1 \/ Reports(c, d)
           /\ d.request_end_flag # c.request_end_flag => m = "STOP" /\ d = Stopped(c)
           /\ m = "STOP" => d.request_end_flag = 1
           /\ c.end_flag = 0 /\ c.search_flag = 0 /\ c.read_end_flag = 0 /\ m # "SEEK"
                 /\ ~ (d.end_flag = 1 /\ d.search_flag = 0)
              => d.end_flag = 0 /\ d.search_flag = 0 /\ d.read_end_flag = 0
           /\ d.fast = 1 => c.fast = 1 \/ m = "FF"
           /\ d.search_flag = 1 => c.search_flag = 1 \/ d.end_flag = 1
<1> DEFINE S == SeekStarts(c)
<1>0. /\ S \in Para /\ Reports(c, S) /\ S.player_state = c.player_state
      /\ S.end_flag = c.end_flag /\ S.reset_flag = c.reset_flag
      /\ S.search_flag = c.search_flag /\ S.read_end_flag = c.read_end_flag
  BY SeekStartsKeeps
<1> HIDE DEF S
<1>1. CASE m = "STOP"
  <2>1. d = Stopped(c) BY <1>1 DEF CheckMsg
  <2>2. d.oldcmd_is_seek = c.oldcmd_is_seek BY <2>1 DEF Stopped, Para
  <2>3. QED BY <2>1, <2>2, <1>1, StoppedIsFinal DEF Keeps, Seek
<1>2. CASE m = "SEEK"
  <2>1. d = [S EXCEPT !.search_flag = 1, !.end_flag = 1] BY <1>2 DEF CheckMsg, S
  <2>2. QED BY <1>0, <1>2, <2>1 DEF Para, Flag, Keeps, Calm, Reports
<1>3. CASE m = "SEEK_RESET"
  <2>1. d = [S EXCEPT !.reset_flag = 1, !.end_flag = 1] BY <1>3 DEF CheckMsg, S
  <2>2. QED BY <1>0, <1>3, <2>1 DEF Para, Flag, Keeps, Calm, Reports
<1>4. CASE m = "SEEK_FULL"
  <2>1. d = [State(S, "PLAYEND") EXCEPT !.end_flag = 1, !.search_flag = 0]
    BY <1>4 DEF CheckMsg, S
  <2>2. d \in Para BY <1>0, <2>1 DEF State, Para, Flag
  <2>3. /\ d.player_state = "PLAYEND" /\ d.end_flag = 1 /\ d.search_flag = 0
        /\ d.request_end_flag = S.request_end_flag /\ d.oldcmd_is_seek = S.oldcmd_is_seek
        /\ d.fast = S.fast
    BY <1>0, <2>1 DEF State, Para, Flag
  <2>4. QED BY <1>0, <1>4, <2>2, <2>3 DEF Keeps, Calm, Reports
<1>5. CASE m = "SEEK_OVER"
  <2>1. d \in Updates(S) BY <1>5 DEF CheckMsg, S
  <2>2. QED BY <1>0, <1>5, <2>1, UpdatesKeep DEF Keeps, Calm, Reports, Para, Flag
<1>6. CASE m = "PAUSE"
  <2>1. d = [c EXCEPT !.pause_flag = 1] BY <1>6 DEF CheckMsg
  <2>2. QED BY <1>6, <2>1 DEF Para, Flag, Keeps, Seek
<1>7. CASE m = "RESUME"
  <2>1. d = [c EXCEPT !.pause_flag = 0] BY <1>7 DEF CheckMsg
  <2>2. QED BY <1>7, <2>1 DEF Para, Flag, Keeps, Seek
<1>8. CASE m = "FF"
  <2>1. d = [State(c, "RUNNING") EXCEPT !.init_ff_fr = 0, !.f_step = 1, !.fast = 1,
                                        !.pause_flag = 0]
    BY <1>8 DEF CheckMsg
  <2>2. d \in Para BY <2>1 DEF State, Para, Flag
  <2>3. /\ d.player_state = "RUNNING" /\ d.end_flag = c.end_flag
        /\ d.search_flag = c.search_flag /\ d.reset_flag = c.reset_flag
        /\ d.read_end_flag = c.read_end_flag
        /\ d.request_end_flag = c.request_end_flag /\ d.oldcmd_is_seek = c.oldcmd_is_seek
    BY <2>1 DEF State, Para, Flag
  <2>4. QED BY <1>8, <2>2, <2>3 DEF Keeps, Seek, Para, Flag
<1>9. CASE m = "FF_0"
  <2>1. d = [c EXCEPT !.init_ff_fr = 0, !.f_step = 0] BY <1>9 DEF CheckMsg
  <2>2. QED BY <1>9, <2>1 DEF Para, Flag, Keeps, Seek
<1>10. CASE m = "SWITCH_AID"
  <2>1. d = [c EXCEPT !.seek_base_audio = 1] BY <1>10 DEF CheckMsg
  <2>2. QED BY <1>10, <2>1 DEF Para, Flag, Keeps, Seek
<1>11. CASE m = "LOOP" \/ m = "NOLOOP"
  <2>1. \E l \in 0 .. LoopForever : d = [c EXCEPT !.loop_flag = l]
    BY <1>11, LoopRange DEF CheckMsg
  <2>2. QED BY <1>11, <2>1 DEF Para, Flag, Keeps, Seek
<1>12. CASE m = "START"
  <2>1. d = c BY <1>12 DEF CheckMsg
  <2>2. QED BY <1>12, <2>1 DEF Keeps, Seek
<1>13. QED
  BY <1>1, <1>2, <1>3, <1>4, <1>5, <1>6, <1>7, <1>8, <1>9, <1>10, <1>11, <1>12 DEF Kind, Seek

\* get_message and check_msg: only a resume takes back a reported pause, and then the seek
\* that has to wait is forgotten.
LEMMA HandledKeeps ==
    ASSUME NEW c \in Para, queue \in Seq(Kind), queue # <<>>, NEW d \in Handled(c)
    PROVE  /\ d \in Para
           /\ Keeps(c, d)
           /\ d.player_state = "PAUSE" => c.player_state = "PAUSE"
           /\ (Unreported(c) => ~Trick(c)) /\ Unreported(d) /\ d.end_flag = 0 =>
                 d.oldcmd_is_seek = 0 \/ ~Trick(d)
           /\ d.request_end_flag # c.request_end_flag =>
                 /\ d.end_flag = 1 /\ d.search_flag = 0 /\ d.fast = 0 /\ d.loop_flag = 0
                 /\ d.reset_flag = c.reset_flag
           /\ Head(queue) = "STOP" => d.request_end_flag = 1
           /\ d.fast = 1 => c.fast = 1 \/ Head(queue) = "FF"
           /\ d.search_flag = 1 => c.search_flag = 1 \/ d.end_flag = 1
<1> DEFINE m == Head(queue)
           b == [c EXCEPT !.oldcmd_is_seek = IF m \in Seek THEN 1 ELSE 0]
<1>1. m \in Kind
  OBVIOUS
<1>2. d \in CheckMsg(m, b)
  BY DEF Handled
<1> HIDE DEF m
<1>3. b \in Para /\ b.oldcmd_is_seek = (IF m \in Seek THEN 1 ELSE 0)
  BY DEF Para, Flag
<1>4. /\ b.end_flag = c.end_flag /\ b.reset_flag = c.reset_flag
      /\ b.player_state = c.player_state /\ b.pause_flag = c.pause_flag
      /\ b.request_end_flag = c.request_end_flag
      /\ b.fast = c.fast /\ b.init_ff_fr = c.init_ff_fr
      /\ b.search_flag = c.search_flag
  BY DEF Para
<1> HIDE DEF b
<1>5. /\ d \in Para /\ Keeps(b, d)
      /\ d.player_state = "PAUSE" => b.player_state = "PAUSE"
      /\ d.oldcmd_is_seek = b.oldcmd_is_seek
      /\ m \in Seek => d.end_flag = 1 \/ Reports(b, d)
      /\ d.request_end_flag # b.request_end_flag => d = Stopped(b)
      /\ m = "STOP" => d.request_end_flag = 1
      /\ d.fast = 1 => b.fast = 1 \/ m = "FF"
      /\ d.search_flag = 1 => b.search_flag = 1 \/ d.end_flag = 1
  BY <1>1, <1>2, <1>3, CheckMsgKeeps
<1>6. Keeps(c, d)
  BY <1>4, <1>5 DEF Keeps
<1>7. ASSUME Unreported(c) => ~Trick(c), Unreported(d), d.end_flag = 0
      PROVE  d.oldcmd_is_seek = 0 \/ ~Trick(d)
  BY <1>3, <1>4, <1>5, <1>7 DEF Reports, Unreported, Trick
<1>8. QED BY <1>3, <1>4, <1>5, <1>6, <1>7, StoppedIsFinal DEF m

\* The commands in the queue start no trick mode.
Plain(q) == \A i \in 1 .. Len(q) : q[i] # "FF"

LEMMA PlainTaken ==
    ASSUME NEW q \in Seq(Kind), q # <<>>, Plain(q)
    PROVE  Head(q) # "FF" /\ Plain(Tail(q))
<1>1. Head(q) = q[1] /\ 1 \in 1 .. Len(q)
  OBVIOUS
<1>2. ASSUME NEW i \in 1 .. Len(Tail(q)) PROVE Tail(q)[i] # "FF"
  <2>1. Tail(q)[i] = q[i + 1] /\ i + 1 \in 1 .. Len(q)
    OBVIOUS
  <2>2. QED BY <2>1 DEF Plain
<1>3. QED BY <1>1, <1>2 DEF Plain

\* A stop was taken, or waits in the pool.
StopIn(q) == \E i \in 1 .. Len(q) : q[i] = "STOP"

Stopping(c, q) == c.request_end_flag = 1 \/ StopIn(q)

LEMMA StopTaking ==
    ASSUME NEW q \in Seq(Kind), q # <<>>, StopIn(q)
    PROVE  Head(q) = "STOP" \/ StopIn(Tail(q))
<1>1. PICK i \in 1 .. Len(q) : q[i] = "STOP"
  BY DEF StopIn
<1>2. CASE i = 1
  BY <1>1, <1>2
<1>3. CASE i # 1
  <2>1. i - 1 \in 1 .. Len(Tail(q)) /\ Tail(q)[i - 1] = q[i]
    BY <1>3
  <2>2. QED BY <1>1, <2>1 DEF StopIn
<1>4. QED BY <1>2, <1>3

LEMMA SwitchedKeeps ==
    ASSUME NEW c \in Para, c.player_state # "PAUSE", NEW d \in Switched(c)
    PROVE  /\ d \in Para
           /\ Reports(c, d)
           /\ d.player_state # "PAUSE"
<1>1. CASE c.seek_base_audio = 1
  <2>1. PICK e \in SwitchAudio(c) : d = [e EXCEPT !.seek_base_audio = 0]
    BY <1>1 DEF Switched
  <2>2. e \in Para /\ Reports(c, e) /\ e.player_state # "PAUSE"
    <3>1. CASE e = c
      BY <3>1 DEF Reports, Keeps, Calm, Trick
    <3>2. CASE e = [c EXCEPT !.reset_flag = 1, !.end_flag = 1]
      BY <3>2 DEF Para, Flag, Reports, Keeps, Calm, Trick
    <3>3. CASE e = [State(c, "RUNNING") EXCEPT !.read_end_flag = 0]
      <4>1. e \in Para BY <3>3 DEF State, Para, Flag
      <4>2. QED BY <4>1, <3>3 DEF State, Para, Reports, Keeps, Calm, Trick
    <3>4. QED BY <2>1, <3>1, <3>2, <3>3 DEF SwitchAudio
  <2>3. d \in Para BY <2>1, <2>2 DEF Para, Flag
  <2>4. /\ d.player_state = e.player_state /\ d.end_flag = e.end_flag
        /\ d.reset_flag = e.reset_flag /\ d.search_flag = e.search_flag
        /\ d.pause_flag = e.pause_flag /\ d.request_end_flag = e.request_end_flag
        /\ d.oldcmd_is_seek = e.oldcmd_is_seek
        /\ d.fast = e.fast /\ d.init_ff_fr = e.init_ff_fr
    BY <2>1, <2>2 DEF Para
  <2>5. QED BY <2>2, <2>3, <2>4 DEF Reports, Keeps, Calm, Trick
<1>2. CASE c.seek_base_audio # 1
  BY <1>2 DEF Switched, Reports, Keeps, Calm, Trick
<1>3. QED BY <1>1, <1>2

LEMMA ResumedKeeps ==
    ASSUME NEW c \in Para, NEW d \in Resumed(c)
    PROVE  /\ d \in Para
           /\ Reports(c, d)
           /\ d.player_state # "PAUSE"
<1>1. CASE c.player_state \in {"PAUSE", "SEARCHOK"}
  <2>1. d \in Updates(State(c, "RUNNING")) BY <1>1 DEF Resumed
  <2>2. QED BY <2>1, StateTyped, UpdatesKeep DEF Reports, Keeps, Calm, Trick
<1>2. CASE c.player_state \notin {"PAUSE", "SEARCHOK"}
  BY <1>2 DEF Resumed, Reports, Keeps, Calm, Trick
<1>3. QED BY <1>1, <1>2

\* check_flag after the message.
LEMMA FlagsKeep ==
    ASSUME NEW c \in Para, NEW v \in Flags(c)
    PROVE  /\ v[1] \in {"BREAK", "CONTINUE", "NONO"}
           /\ v[2] \in Para
           /\ Keeps(c, v[2])
           /\ v[2].request_end_flag = c.request_end_flag
           /\ ~Trick(c) => Calm(c, v[2])
           /\ v[1] # "BREAK" => ~Unreported(v[2])
           /\ v[1] = "BREAK" /\ v[2].end_flag = 0 /\ Unreported(v[2]) =>
                 /\ Unreported(c) /\ Trick(c) /\ ~Trick(v[2])
                 /\ v[2].oldcmd_is_seek = c.oldcmd_is_seek
           /\ c.end_flag = 1 => /\ v[1] = "BREAK"
                                /\ v[2].end_flag = 1
                                /\ v[2].search_flag = c.search_flag /\ v[2].fast = c.fast
                                /\ v[2].reset_flag = c.reset_flag
                                /\ v[2].loop_flag = c.loop_flag
<1>1. CASE c.end_flag = 1
  <2>1. v = <<"BREAK", EndState(c)>> BY <1>1 DEF Flags
  <2>2. EndState(c) \in {c, State(c, "STOPED"), State(c, "PLAYEND")} BY DEF EndState
  <2>3. QED BY <1>1, <2>1, <2>2, StateTyped DEF Keeps, Calm
<1>2. CASE c.end_flag = 0 /\ Trick(c)
  <2>1. v = <<"BREAK", TrickStarts(c)>> BY <1>2 DEF Flags
  <2>2. CASE c.f_step # 0
    <3>1. v[2] = [c EXCEPT !.init_ff_fr = 1] BY <2>1, <2>2 DEF TrickStarts
    <3>2. QED BY <1>2, <2>1, <3>1 DEF Para, Flag, Keeps, Unreported, Trick
  <2>3. CASE c.f_step = 0
    <3>1. v[2] = [c EXCEPT !.fast = 0, !.search_flag = 1] BY <2>1, <2>3 DEF TrickStarts
    <3>2. v[2] \in Para BY <3>1 DEF Para, Flag
    <3>3. /\ v[2].end_flag = c.end_flag /\ v[2].reset_flag = c.reset_flag
          /\ v[2].request_end_flag = c.request_end_flag
          /\ v[2].player_state = c.player_state /\ v[2].pause_flag = c.pause_flag
          /\ v[2].oldcmd_is_seek = c.oldcmd_is_seek /\ v[2].fast = 0
      BY <3>1 DEF Para
    <3>4. QED BY <1>2, <2>1, <3>2, <3>3 DEF Keeps, Unreported, Trick
  <2>4. QED BY <2>2, <2>3
<1>3. CASE c.end_flag = 0 /\ ~Trick(c) /\ c.pause_flag = 1
  <2>1. v = <<"CONTINUE", State(c, "PAUSE")>> BY <1>3 DEF Flags, Paused
  <2>2. QED BY <1>3, <2>1, StateTyped DEF Keeps, Calm, Unreported
<1>4. CASE c.end_flag = 0 /\ ~Trick(c) /\ c.pause_flag = 0
  <2>1. PICK e \in Resumed(c) : \E d \in Switched(e) : v = <<"NONO", d>>
    BY <1>4 DEF Flags
  <2>2. PICK d \in Switched(e) : v = <<"NONO", d>>
    BY <2>1
  <2>3. e \in Para /\ Reports(c, e) /\ e.player_state # "PAUSE"
    BY <2>1, ResumedKeeps
  <2>4. d \in Para /\ Reports(e, d) /\ d.player_state # "PAUSE"
    BY <2>2, <2>3, SwitchedKeeps
  <2>5. Keeps(c, d) /\ Calm(c, d) /\ d.request_end_flag = c.request_end_flag
    BY <2>3, <2>4 DEF Reports, Keeps, Calm
  <2>6. QED BY <1>4, <2>2, <2>4, <2>5 DEF Unreported
<1>5. QED BY <1>1, <1>2, <1>3, <1>4 DEF Para, Flag

\* check_flag: a pause it leaves unreported is left so only by the start of a trick mode,
\* and a stop it takes ends the play loop for good.
LEMMA CheckFlagKeeps ==
    ASSUME NEW c \in Para, queue \in Seq(Kind), NEW v \in CheckFlag(c)
    PROVE  /\ v[1] \in {"BREAK", "CONTINUE", "NONO"}
           /\ v[2] \in Para
           /\ v[3] \in Seq(Kind) /\ Len(v[3]) <= Len(queue)
           /\ Keeps(c, v[2])
           /\ (Unreported(c) => c.oldcmd_is_seek = 0 /\ ~Trick(c)) =>
                 /\ v[1] # "BREAK" => ~Unreported(v[2])
                 /\ v[1] = "BREAK" /\ v[2].end_flag = 0 /\ Unreported(v[2]) =>
                       v[2].oldcmd_is_seek = 0 /\ ~Trick(v[2])
           /\ v[2].request_end_flag # c.request_end_flag =>
                 /\ v[1] = "BREAK" /\ v[2].end_flag = 1
                 /\ v[2].search_flag = 0 /\ v[2].fast = 0 /\ v[2].loop_flag = 0
                 /\ v[2].reset_flag = c.reset_flag
           /\ Stopping(c, queue) => Stopping(v[2], v[3])
           /\ c.fast # 1 /\ Plain(queue) =>
                 /\ Plain(v[3])
                 /\ v[2].fast # 1
                 /\ v[2].search_flag = 1 =>
                       c.search_flag = 1 \/ (v[1] = "BREAK" /\ v[2].end_flag = 1)
<1>1. CASE SeekWaits(c) /\ v = <<"NONO", c, queue>>
  BY <1>1 DEF SeekWaits, Keeps
<1>2. CASE \E t \in Taken(c) : \E w \in Flags(t[1]) : v = <<w[1], w[2], t[2]>>
  <2>1. PICK t \in Taken(c) : \E w \in Flags(t[1]) : v = <<w[1], w[2], t[2]>>
    BY <1>2
  <2> PICK w \in Flags(t[1]) : v = <<w[1], w[2], t[2]>>
    BY <2>1
  <2>2. /\ t[1] \in Para /\ Keeps(c, t[1])
        /\ t[2] \in Seq(Kind) /\ Len(t[2]) <= Len(queue)
        /\ (Unreported(c) => ~Trick(c)) /\ Unreported(t[1]) /\ t[1].end_flag = 0 =>
              t[1].oldcmd_is_seek = 0 \/ ~Trick(t[1])
        /\ t[1].request_end_flag # c.request_end_flag =>
              /\ t[1].end_flag = 1 /\ t[1].search_flag = 0 /\ t[1].fast = 0
              /\ t[1].loop_flag = 0 /\ t[1].reset_flag = c.reset_flag
        /\ Stopping(c, queue) => Stopping(t[1], t[2])
        /\ c.fast # 1 /\ Plain(queue) =>
              /\ Plain(t[2])
              /\ t[1].fast # 1
              /\ t[1].search_flag = 1 => c.search_flag = 1 \/ t[1].end_flag = 1
    <3>1. CASE queue = <<>>
      <4>1. t = <<c, queue>> BY <3>1 DEF Taken
      <4>2. QED BY <4>1 DEF Keeps
    <3>2. CASE queue # <<>>
      <4>1. PICK d \in Handled(c) : t = <<d, Tail(queue)>> BY <3>2 DEF Taken
      <4>2. Tail(queue) \in Seq(Kind) /\ Len(Tail(queue)) <= Len(queue) BY <3>2
      <4>3. Plain(queue) => Head(queue) # "FF" /\ Plain(Tail(queue))
        BY <3>2, PlainTaken
      <4>4. StopIn(queue) => Head(queue) = "STOP" \/ StopIn(Tail(queue))
        BY <3>2, StopTaking
      <4>5. Stopping(c, queue) => Stopping(d, Tail(queue))
        BY <3>2, <4>4, HandledKeeps DEF Stopping, Keeps
      <4>6. QED BY <3>2, <4>1, <4>2, <4>3, <4>5, HandledKeeps
    <3>3. QED BY <3>1, <3>2
  <2>3. /\ v[1] = w[1] /\ v[2] = w[2] /\ v[3] = t[2]
    OBVIOUS
  <2> DEFINE d == t[1]
             e == v[2]
  <2>4. /\ v[1] \in {"BREAK", "CONTINUE", "NONO"}
        /\ e \in Para /\ Keeps(d, e)
        /\ e.request_end_flag = d.request_end_flag
        /\ ~Trick(d) => Calm(d, e)
        /\ v[1] # "BREAK" => ~Unreported(e)
        /\ v[1] = "BREAK" /\ e.end_flag = 0 /\ Unreported(e) =>
              /\ Unreported(d) /\ Trick(d) /\ ~Trick(e)
              /\ e.oldcmd_is_seek = d.oldcmd_is_seek
        /\ d.end_flag = 1 =>
              /\ v[1] = "BREAK" /\ e.end_flag = 1
              /\ e.search_flag = d.search_flag /\ e.fast = d.fast
              /\ e.reset_flag = d.reset_flag /\ e.loop_flag = d.loop_flag
    BY <2>2, <2>3, FlagsKeep
  <2> HIDE DEF d, e
  <2>5. Keeps(c, e) BY <2>2, <2>4 DEF Keeps, d, Para, Flag
  <2>6. d.end_flag = 0 \/ d.end_flag = 1 BY <2>2 DEF d, Para, Flag
  <2>7. e.end_flag = 0 => d.end_flag = 0 BY <2>4, <2>6
  <2>8. ASSUME c.fast # 1, Plain(queue)
        PROVE  /\ Plain(v[3]) /\ e.fast # 1
               /\ e.search_flag = 1 =>
                     c.search_flag = 1 \/ (v[1] = "BREAK" /\ e.end_flag = 1)
    BY <2>2, <2>3, <2>4, <2>6, <2>8 DEF d, Trick, Calm, Keeps
  <2>9. Stopping(c, queue) => Stopping(e, v[3])
    BY <2>2, <2>3, <2>4 DEF d, Stopping
  <2>10. QED BY <2>2, <2>3, <2>4, <2>5, <2>7, <2>8, <2>9 DEF d, e
<1>3. QED BY <1>1, <1>2 DEF CheckFlag, When

LEMMA DecoderStateKeeps ==
    ASSUME NEW c \in Para, NEW d \in DecoderState(c)
    PROVE  /\ d \in Para
           /\ Reports(c, d)
           /\ d.player_state = c.player_state
           /\ d.read_end_flag = c.read_end_flag
<1>1. CASE d = c
  BY <1>1 DEF Reports, Keeps, Calm, Trick
<1>2. CASE \E a \in {c.seek_base_audio, 1} :
              d = [c EXCEPT !.reset_flag = 1, !.end_flag = 1, !.seek_base_audio = a]
  BY <1>2 DEF Para, Flag, Reports, Keeps, Calm, Trick
<1>3. QED BY <1>1, <1>2 DEF DecoderState, When

LEMMA RunningKeeps ==
    ASSUME NEW c \in Para, NEW d \in Running(c)
    PROVE  d \in Para /\ Reports(c, d)
<1>1. CASE d = c
  BY <1>1 DEF Reports, Keeps, Calm, Trick
<1>2. CASE d \in Updates(State(c, "RUNNING"))
  BY <1>2, StateTyped, UpdatesKeep DEF Reports, Keeps, Calm, Trick
<1>3. QED BY <1>1, <1>2 DEF Running

-----------------------------------------------------------------------------
(* The steps preserve the invariant. *)

LEMMA DeliverTyped ==
    ASSUME NEW m \in Kind, queue \in Seq(Kind), Len(queue) <= MessageMax, Deliver(m)
    PROVE  queue' \in Seq(Kind) /\ Len(queue') <= MessageMax
<1>0. MessageMax \in Nat \ {0}
  BY PlayerAssumption
<1>1. CASE Pool!Accept(m)
  BY <1>0, <1>1 DEF Pool!Accept
<1>2. CASE Pool!PushOut(m)
  BY <1>0, <1>2 DEF Pool!PushOut
<1>3. CASE Pool!ReplaceHead(m)
  BY <1>0, <1>3 DEF Pool!ReplaceHead
<1>4. QED BY <1>1, <1>2, <1>3 DEF Deliver

LEMMA DrainTyped ==
    ASSUME queue \in Seq(Kind), Len(queue) <= MessageMax, DrainToStop
    PROVE  queue' \in Seq(Kind) /\ Len(queue') <= MessageMax
<1>0. MessageMax \in Nat
  BY PlayerAssumption
<1>1. PICK n \in 0 .. Len(queue) : queue' = SubSeq(queue, n + 1, Len(queue))
  BY DEF DrainToStop
<1>2. QED BY <1>0, <1>1

THEOREM InitIInv == Init => IInv
<1> SUFFICES ASSUME Init PROVE IInv
  OBVIOUS
<1>1. MessageMax \in Nat
  BY PlayerAssumption
<1>2. p \in Para
  BY PlayerAssumption DEF Init, Para, Flag
<1>3. TypeOK
  BY <1>1, <1>2 DEF Init, TypeOK, MainAt, Flag
<1>4. EndKept /\ PauseShown /\ PauseKept
  BY DEF Init, EndKept, PauseShown, PauseKept, Window
<1>5. QED BY <1>3, <1>4 DEF IInv

\* The client's steps leave the player alone.
LEMMA ClientKeeps ==
    ASSUME IInv,
           \/ \E m \in Command : Send(m)
           \/ StopCall \/ StopStep
    PROVE  IInv'
<1>1. /\ UNCHANGED <<main, p, avpkt, ret, mate>>
      /\ killed' \in Flag
      /\ stop' \in {"idle", "clear", "interrupt", "send", "join", "done"}
  BY DEF IInv, TypeOK, Send, StopCall, StopStep, StopClear, StopInterrupt, StopSend, StopJoin,
         Flag
<1>2. queue' \in Seq(Kind) /\ Len(queue') <= MessageMax
  <2>1. MessageMax \in Nat /\ <<>> \in Seq(Kind) /\ Len(<<>>) = 0
    BY PlayerAssumption
  <2>2. CASE \E m \in Command : Send(m)
    BY <2>2, DeliverTyped, PlayerAssumption DEF IInv, TypeOK, Send
  <2>3. CASE StopSend
    BY <2>3, DeliverTyped DEF IInv, TypeOK, StopSend, Kind
  <2>4. CASE queue' = queue
    BY <2>4 DEF IInv, TypeOK
  <2>5. CASE queue' = <<>>
    BY <2>1, <2>5
  <2>6. QED BY <2>2, <2>3, <2>4, <2>5 DEF StopCall, StopStep, StopClear, StopInterrupt, StopJoin
<1>3. TypeOK'
  BY <1>1, <1>2 DEF IInv, TypeOK
<1>4. (EndKept /\ PauseShown /\ PauseKept)'
  BY <1>1 DEF IInv, EndKept, PauseShown, PauseKept, Window, Trick, Unreported
<1>5. QED BY <1>3, <1>4 DEF IInv

\* Before the play loop.
LEMMA OpeningKeeps ==
    ASSUME IInv, Open \/ StopAfterParse \/ PrepareFails \/ Prepare \/ Decoder
    PROVE  IInv'
<1>1. main' \in {"prepare", "start", "decoder", "check", "release"}
      /\ main \in {"open", "prepare", "decoder"}
  BY DEF Open, StopAfterParse, PrepareFails, Prepare, Decoder, Goes
<1>2. p' = p \/ \E s \in {"TYPE_REDY", "ERROR", "STOPED", "INITOK", "START"} : p' = State(p, s)
  BY DEF Open, StopAfterParse, PrepareFails, Prepare, Decoder
<1>3. /\ p' \in Para
      /\ p'.end_flag = p.end_flag /\ p'.search_flag = p.search_flag
      /\ p'.reset_flag = p.reset_flag /\ p'.read_end_flag = p.read_end_flag
  BY <1>2, StateTyped DEF IInv, TypeOK
<1>4. main' = "check" => p'.player_state = "START"
  BY <1>1, StateTyped DEF IInv, TypeOK, Open, StopAfterParse, PrepareFails, Prepare, Decoder, Goes
<1>5. queue' \in Seq(Kind) /\ Len(queue') <= MessageMax
  BY DrainTyped DEF IInv, TypeOK, Open, StopAfterParse, PrepareFails, Prepare, Decoder
<1>6. UNCHANGED <<avpkt, ret, killed, stop>> /\ mate' \in Flag
  BY DEF IInv, TypeOK, Open, StopAfterParse, PrepareFails, Prepare, Decoder
<1>7. TypeOK'
  BY <1>1, <1>3, <1>5, <1>6 DEF IInv, TypeOK, MainAt
<1>8. EndKept'
  BY <1>1, <1>3 DEF IInv, EndKept
<1>9. (PauseShown /\ PauseKept)'
  BY <1>1, <1>4 DEF PauseShown, PauseKept, Window, Unreported
<1>10. QED BY <1>7, <1>8, <1>9 DEF IInv

LEMMA StartKeeps == ASSUME IInv, Start PROVE IInv'
<1>1. /\ main = "start" /\ queue # <<>> /\ queue' = Tail(queue)
      /\ UNCHANGED <<avpkt, ret, mate, killed, stop>>
  BY DEF Start, Goes
<1>2. Head(queue) \in Kind /\ queue' \in Seq(Kind) /\ Len(queue') <= MessageMax
  BY <1>1, PlayerAssumption DEF IInv, TypeOK
<1>3. p.end_flag = 0 /\ p.search_flag = 0 /\ p.read_end_flag = 0 /\ p \in Para
  BY <1>1 DEF IInv, TypeOK, EndKept
<1>4. /\ main' \in {"start", "decoder", "release"}
      /\ p' \in Para
      /\ main' # "release" => p'.end_flag = 0 /\ p'.search_flag = 0 /\ p'.read_end_flag = 0
      /\ main' # "release" => p'.reset_flag # 1
  <2>1. CASE Head(queue) \in {"START", "SEEK"}
    BY <1>1, <1>3, <2>1 DEF Start, Goes, IInv, EndKept
  <2>2. CASE Head(queue) \notin {"START", "SEEK"}
    <3>1. PICK c \in CheckMsg(Head(queue), p) :
             IF c.end_flag = 1 /\ c.search_flag = 0
             THEN /\ Goes("start", "release")
                  /\ p' = State(c, IF c.request_end_flag = 1 THEN "STOPED" ELSE "PLAYEND")
             ELSE Goes("start", "start") /\ p' = c
      BY <2>2 DEF Start
    <3>2. /\ c \in Para /\ Keeps(p, c)
          /\ ~ (c.end_flag = 1 /\ c.search_flag = 0)
               => c.end_flag = 0 /\ c.search_flag = 0 /\ c.read_end_flag = 0
      BY <1>2, <1>3, <2>2, CheckMsgKeeps
    <3>3. CASE c.end_flag = 1 /\ c.search_flag = 0
      BY <3>1, <3>2, <3>3, StateTyped DEF Goes
    <3>4. CASE ~ (c.end_flag = 1 /\ c.search_flag = 0)
      BY <1>1, <1>3, <3>1, <3>2, <3>4 DEF Goes, Keeps, IInv, EndKept
    <3>5. QED BY <3>3, <3>4
  <2>3. QED BY <2>1, <2>2
<1>5. TypeOK'
  BY <1>1, <1>2, <1>4 DEF IInv, TypeOK, MainAt
<1>6. (EndKept /\ PauseShown /\ PauseKept)'
  BY <1>4 DEF EndKept, PauseShown, PauseKept, Window
<1>7. QED BY <1>5, <1>6 DEF IInv

LEMMA CheckKeeps == ASSUME IInv, Check PROVE IInv'
<1>1. PICK v \in CheckFlag(p) :
         /\ queue' = v[3]
         /\ \/ /\ v[1] = "BREAK"
               /\ IF v[2].end_flag = 0 /\ avpkt = 1
                  THEN Goes("check", "write") /\ p' = v[2]
                  ELSE Goes("check", "ended") /\ p' = [v[2] EXCEPT !.end_flag = 1]
               /\ UNCHANGED ret
            \/ /\ v[1] # "BREAK" /\ avpkt = 0
               /\ Goes("check", "read") /\ p' = v[2]
               /\ ret' = "SUCCESS"
            \/ /\ v[1] # "BREAK" /\ avpkt = 1
               /\ ret' = v[1]
               /\ \/ Goes("check", "buffer") /\ p' = v[2]
                  \/ /\ Goes("check", "write")
                     /\ p' \in IF v[1] = "NONO" THEN Running(v[2]) ELSE {v[2]}
  BY DEF Check
<1>2. main = "check" /\ p \in Para /\ queue \in Seq(Kind) /\ Len(queue) <= MessageMax
  BY <1>1 DEF IInv, TypeOK, Goes
<1>3. /\ p.end_flag = 0 /\ p.reset_flag # 1
      /\ Unreported(p) => p.oldcmd_is_seek = 0 /\ ~Trick(p)
  BY <1>2 DEF IInv, EndKept, PauseKept
<1> DEFINE d == v[2]
<1>4. /\ v[1] \in {"BREAK", "CONTINUE", "NONO"} /\ d \in Para /\ Keeps(p, d)
      /\ v[3] \in Seq(Kind) /\ Len(v[3]) <= Len(queue)
      /\ v[1] # "BREAK" => ~Unreported(d)
      /\ v[1] = "BREAK" /\ d.end_flag = 0 /\ Unreported(d) =>
            d.oldcmd_is_seek = 0 /\ ~Trick(d)
  BY <1>2, <1>3, CheckFlagKeeps
<1> HIDE DEF d
<1>5. queue' \in Seq(Kind) /\ Len(queue') <= MessageMax
  BY <1>1, <1>2, <1>4, PlayerAssumption
<1>6. UNCHANGED <<avpkt, mate, killed, stop>>
  BY DEF Check
<1>7. ret' \in {"SUCCESS", "AGAIN", "FAILED", "NONO", "CONTINUE"}
  BY <1>1, <1>4 DEF IInv, TypeOK
<1>8. CASE p' = [d EXCEPT !.end_flag = 1] /\ main' = "ended"
  <2>1. p' \in Para /\ p'.end_flag = 1 BY <1>4, <1>8 DEF Para, Flag
  <2>2. TypeOK' BY <2>1, <1>5, <1>6, <1>7, <1>8 DEF IInv, TypeOK, MainAt
  <2>3. (EndKept /\ PauseShown /\ PauseKept)'
    BY <2>1, <1>8 DEF EndKept, PauseShown, PauseKept, Window
  <2>4. QED BY <2>2, <2>3 DEF IInv
<1>9. CASE /\ p' = d \/ (~Unreported(d) /\ p' \in Running(d))
           /\ main' \in {"write", "read", "buffer"}
           /\ main' # "write" => v[1] # "BREAK" /\ p' = d
           /\ v[1] = "BREAK" => d.end_flag = 0
  <2>1. p' \in Para /\ Reports(d, p')
    BY <1>4, <1>9, RunningKeeps DEF Reports, Keeps, Calm
  <2>2. TypeOK' BY <2>1, <1>5, <1>6, <1>7, <1>9 DEF IInv, TypeOK, MainAt
  <2>3. EndKept'
    BY <2>1, <1>3, <1>4, <1>9 DEF Keeps, Calm, Reports, EndKept, Para, Flag
  <2>4. PauseShown'
    BY <2>1, <1>4, <1>9 DEF PauseShown, Window, Unreported, Para, Flag
  <2>5. PauseKept'
    BY <2>1, <1>4, <1>9 DEF PauseKept, Reports, Unreported
  <2>6. QED BY <2>2, <2>3, <2>4, <2>5 DEF IInv
<1>10. QED BY <1>1, <1>4, <1>8, <1>9 DEF Goes, d

\* The player thread inside the window: it clears flags the invariant does not look at.
LEMMA WindowKeeps == ASSUME IInv, Read \/ Buffer \/ SleepUndo PROVE IInv'
<1>1. Window /\ main' \in {"closing", "closed"}
  BY DEF Read, Buffer, SleepUndo, Goes, Window
<1>2. /\ p \in Para
      /\ \/ p' = p
         \/ p' = [p EXCEPT !.ignore_ffmpeg_errors = 0]
         \/ p' = [p EXCEPT !.temp_interrupt_ffmpeg = 0]
         \/ p' = [p EXCEPT !.read_end_flag = 1]
  BY DEF IInv, TypeOK, Read, Ignoring, Buffer, SleepUndo
<1>3. /\ p' \in Para
      /\ p'.end_flag = p.end_flag /\ p'.reset_flag = p.reset_flag
      /\ p'.player_state = p.player_state /\ p'.pause_flag = p.pause_flag
  BY <1>2 DEF Para, Flag
<1>4. /\ avpkt' \in Flag /\ killed' \in Flag
      /\ ret' \in {"SUCCESS", "AGAIN", "FAILED", "NONO", "CONTINUE"}
      /\ UNCHANGED <<mate, queue, stop>>
  BY DEF IInv, TypeOK, Read, Ignoring, Buffer, SleepUndo, Flag
<1>5. TypeOK'
  BY <1>1, <1>3, <1>4 DEF IInv, TypeOK, MainAt
<1>6. EndKept'
  BY <1>1, <1>3 DEF IInv, EndKept, Window
<1>7. PauseShown'
  BY <1>1, <1>3 DEF IInv, PauseShown
<1>8. PauseKept'
  BY <1>1 DEF PauseKept
<1>9. QED BY <1>5, <1>6, <1>7, <1>8 DEF IInv

LEMMA WindowDoneKeeps == ASSUME IInv, WindowDone PROVE IInv'
<1>1. /\ main = "closed" /\ p \in Para
      /\ UNCHANGED <<avpkt, ret, mate, killed, queue, stop>>
      /\ \/ main' = "release" /\ p' = State(p, "ERROR")
         \/ main' = "write" /\ (p' = p \/ p' \in Running(p))
  BY DEF WindowDone, Goes, IInv, TypeOK
<1>2. p' \in Para /\ main' \in {"release", "write"}
  BY <1>1, StateTyped, RunningKeeps
<1>3. main' = "write" => Reports(p, p')
  BY <1>1, RunningKeeps DEF Reports, Keeps, Calm
<1>4. TypeOK'
  BY <1>1, <1>2 DEF IInv, TypeOK, MainAt
<1>5. EndKept'
  BY <1>1, <1>2, <1>3 DEF IInv, EndKept, Reports, Keeps, Calm
<1>6. PauseShown'
  BY <1>2 DEF PauseShown, Window
<1>7. PauseKept'
  BY <1>1, <1>2, <1>3 DEF IInv, PauseShown, Window, PauseKept, Unreported, Reports
<1>8. QED BY <1>4, <1>5, <1>6, <1>7 DEF IInv

\* A command taken by the mate: a seek it leaves behind has interrupted the thread.
LEMMA MateTakes ==
    ASSUME p \in Para, queue \in Seq(Kind), MateCommand
    PROVE  /\ p' \in Para /\ Keeps(p, p')
           /\ p'.player_state = "PAUSE" => p'.pause_flag = 1
           /\ Head(queue) = "STOP" => p'.request_end_flag = 1
           /\ p'.fast = 1 => p.fast = 1 \/ Head(queue) = "FF"
           /\ p'.search_flag = 1 =>
                 killed' = 1 /\ (p.search_flag = 1 \/ p'.end_flag = 1)
<1>1. queue # <<>> BY DEF MateCommand
<1>2. PICK c \in Handled(p) :
         LET d == IF c.search_flag = 1 THEN Interrupted(c) ELSE c
         IN  /\ killed' = IF c.search_flag = 1 THEN 1 ELSE killed
             /\ p' \in IF d.pause_flag = 1 THEN {Paused(d)} ELSE Resumed(d)
  BY DEF MateCommand
<1> DEFINE d == IF c.search_flag = 1 THEN Interrupted(c) ELSE c
<1>3. /\ killed' = IF c.search_flag = 1 THEN 1 ELSE killed
      /\ p' \in IF d.pause_flag = 1 THEN {Paused(d)} ELSE Resumed(d)
  BY <1>2
<1>4. /\ c \in Para /\ Keeps(p, c)
      /\ Head(queue) = "STOP" => c.request_end_flag = 1
      /\ c.fast = 1 => p.fast = 1 \/ Head(queue) = "FF"
      /\ c.search_flag = 1 => p.search_flag = 1 \/ c.end_flag = 1
  BY <1>1, HandledKeeps
<1>5. d = c \/ d = Interrupted(c)
  OBVIOUS
<1> HIDE DEF d
<1>6. /\ d \in Para
      /\ d.end_flag = c.end_flag /\ d.reset_flag = c.reset_flag
      /\ d.fast = c.fast /\ d.search_flag = c.search_flag
      /\ d.request_end_flag = c.request_end_flag
  <2>1. CASE d = c
    BY <1>4, <2>1
  <2>2. CASE d = Interrupted(c)
    BY <1>4, <2>2 DEF Interrupted, Para, Flag
  <2>3. QED BY <1>5, <2>1, <2>2
<1>7. CASE d.pause_flag = 1
  <2>1. p' = State(d, "PAUSE") BY <1>3, <1>7 DEF Paused
  <2>2. QED BY <1>3, <1>4, <1>6, <1>7, <2>1, StateTyped DEF Keeps
<1>8. CASE d.pause_flag # 1
  <2>1. p' \in Resumed(d) BY <1>3, <1>8
  <2>2. p' \in Para /\ Reports(d, p') /\ p'.player_state # "PAUSE"
    BY <1>6, <2>1, ResumedKeeps
  <2>3. QED BY <1>3, <1>4, <1>6, <2>2 DEF Reports, Keeps, Calm, Para, Flag
<1>9. QED BY <1>7, <1>8

LEMMA MateKeeps == ASSUME IInv, MateCommand \/ MateUpdate PROVE IInv'
<1>1. /\ Window /\ p \in Para /\ queue \in Seq(Kind)
      /\ UNCHANGED <<main, avpkt, ret, mate, stop>>
  BY DEF MateCommand, MateUpdate, IInv, TypeOK
<1>2. /\ p' \in Para /\ Keeps(p, p')
      /\ p'.player_state = "PAUSE" => p'.pause_flag = 1
  <2>1. CASE MateUpdate
    <3>1. p' \in Updates(p) BY <2>1 DEF MateUpdate
    <3>2. QED BY <1>1, <3>1, UpdatesKeep DEF Reports, IInv, PauseShown
  <2>2. CASE MateCommand
    BY <1>1, <2>2, MateTakes
  <2>3. QED BY <2>1, <2>2
<1>3. killed' \in Flag /\ queue' \in Seq(Kind) /\ Len(queue') <= MessageMax
  BY PlayerAssumption DEF IInv, TypeOK, MateCommand, MateUpdate, Flag
<1>4. TypeOK'
  BY <1>1, <1>2, <1>3 DEF IInv, TypeOK
<1>5. EndKept'
  BY <1>1, <1>2 DEF IInv, EndKept, Keeps, Window, TypeOK, Para, Flag
<1>6. (PauseShown /\ PauseKept)'
  BY <1>1, <1>2 DEF PauseShown, PauseKept, Window
<1>7. QED BY <1>4, <1>5, <1>6 DEF IInv

LEMMA WrittenKeeps ==
    ASSUME NEW c \in Para, Written(c)
    PROVE  /\ main = "write" /\ main' \in {"release", "ended", "check"} /\ p' \in Para
           /\ Reports(c, p')
           /\ main' = "check" => p'.end_flag # 1
<1>1. PICK u \in Updates(c) : \E d \in DecoderState(u) :
         \/ Goes("write", "release") /\ p' = State(d, "ERROR")
         \/ Goes("write", IF d.end_flag = 1 THEN "ended" ELSE "check") /\ p' = d
         \/ Goes("write", "ended") /\ p' \in Updates([d EXCEPT !.end_flag = 1])
  BY DEF Written
<1> PICK d \in DecoderState(u) :
         \/ Goes("write", "release") /\ p' = State(d, "ERROR")
         \/ Goes("write", IF d.end_flag = 1 THEN "ended" ELSE "check") /\ p' = d
         \/ Goes("write", "ended") /\ p' \in Updates([d EXCEPT !.end_flag = 1])
  BY <1>1
<1>2. d \in Para /\ Reports(c, d)
  BY UpdatesKeep, DecoderStateKeeps DEF Reports, Keeps, Calm, Para, Flag
<1>3. CASE Goes("write", "release") /\ p' = State(d, "ERROR")
  BY <1>2, <1>3, StateTyped DEF Goes, Reports, Keeps, Calm, Trick
<1>4. CASE Goes("write", IF d.end_flag = 1 THEN "ended" ELSE "check") /\ p' = d
  BY <1>2, <1>4 DEF Goes
<1>5. CASE Goes("write", "ended") /\ p' \in Updates([d EXCEPT !.end_flag = 1])
  <2> DEFINE e == [d EXCEPT !.end_flag = 1]
  <2>1. /\ e \in Para /\ e.end_flag = 1 /\ e.reset_flag = d.reset_flag
        /\ e.player_state = d.player_state /\ e.pause_flag = d.pause_flag
        /\ e.request_end_flag = d.request_end_flag /\ e.oldcmd_is_seek = d.oldcmd_is_seek
        /\ e.fast = d.fast /\ e.init_ff_fr = d.init_ff_fr
        /\ e.search_flag = d.search_flag
    BY <1>2 DEF Para, Flag
  <2> HIDE DEF e
  <2>2. p' \in Para /\ Reports(e, p') BY <1>5, <2>1, UpdatesKeep DEF e
  <2>3. Reports(c, p') BY <1>2, <2>1, <2>2 DEF Reports, Keeps, Calm, Trick
  <2>4. QED BY <1>5, <2>2, <2>3 DEF Goes
<1>6. QED BY <1>3, <1>4, <1>5

LEMMA WriteReports ==
    ASSUME p \in Para, Write
    PROVE  /\ main = "write" /\ main' \in {"release", "ended", "check"} /\ p' \in Para
           /\ Reports(p, p')
           /\ main' = "check" => p'.end_flag # 1
<1> DEFINE b == [p EXCEPT !.reset_flag = 1, !.end_flag = 1]
<1>1. /\ p \in Para /\ b \in Para /\ b.reset_flag = 1 /\ b.end_flag = 1
      /\ b.player_state = p.player_state /\ b.pause_flag = p.pause_flag
      /\ b.request_end_flag = p.request_end_flag /\ b.oldcmd_is_seek = p.oldcmd_is_seek
      /\ b.fast = p.fast /\ b.init_ff_fr = p.init_ff_fr
      /\ b.search_flag = p.search_flag
  BY DEF Para, Flag
<1>2. \/ Written(p) \/ Written(b)
      \/ Goes("write", "release") /\ p' = State(p, "ERROR")
  BY DEF Write
<1> HIDE DEF b
<1>3. Reports(p, b)
  BY <1>1 DEF Reports, Keeps, Calm, Trick
<1>4. CASE Written(p)
  BY <1>4, WrittenKeeps
<1>5. CASE Written(b)
  <2>1. /\ main = "write" /\ main' \in {"release", "ended", "check"} /\ p' \in Para
        /\ Reports(b, p')
        /\ main' = "check" => p'.end_flag # 1
    BY <1>1, <1>5, WrittenKeeps
  <2>2. Reports(p, p')
    BY <1>1, <1>3, <2>1 DEF Reports, Keeps, Calm, Trick, Para, Flag
  <2>3. QED BY <2>1, <2>2
<1>6. CASE Goes("write", "release") /\ p' = State(p, "ERROR")
  BY <1>6, StateTyped DEF Goes, Reports, Keeps, Calm, Trick
<1>7. QED BY <1>2, <1>4, <1>5, <1>6

LEMMA WriteKeeps == ASSUME IInv, Write PROVE IInv'
<1>1. /\ main = "write" /\ main' \in {"release", "ended", "check"} /\ p' \in Para
      /\ Reports(p, p')
      /\ main' = "check" => p'.end_flag # 1
  BY WriteReports DEF IInv, TypeOK
<1>2. UNCHANGED <<ret, mate, killed, queue, stop>> /\ avpkt' \in Flag
  BY DEF Write, IInv, TypeOK, Flag
<1>3. TypeOK'
  BY <1>1, <1>2 DEF IInv, TypeOK, MainAt
<1>4. EndKept'
  BY <1>1 DEF IInv, EndKept, Reports, Keeps, Calm, Para, Flag
<1>5. PauseKept'
  BY <1>1 DEF IInv, PauseKept, Reports, Unreported
<1>6. PauseShown'
  BY <1>1 DEF PauseShown, Window
<1>7. QED BY <1>3, <1>4, <1>5, <1>6 DEF IInv

LEMMA WriteFinishKeeps == ASSUME IInv, WriteFinish PROVE IInv'
<1>1. /\ main = "write" /\ main' \in {"ended", "wait"} /\ avpkt' = 0
      /\ UNCHANGED <<p, ret, mate, killed, queue, stop>>
  BY DEF WriteFinish, Goes
<1>2. TypeOK'
  BY <1>1 DEF IInv, TypeOK, MainAt, Flag
<1>3. (EndKept /\ PauseShown /\ PauseKept)'
  BY <1>1 DEF IInv, EndKept, PauseShown, PauseKept, Window
<1>4. QED BY <1>2, <1>3 DEF IInv

LEMMA WaitEndKeeps == ASSUME IInv, WaitEnd PROVE IInv'
<1>1. PICK c \in DecoderState(p) : \E v \in CheckFlag(c) :
         /\ queue' = v[3]
         /\ Goes("wait", "ended") \/ Goes("wait", "wait")
         /\ \/ p' = v[2] \/ p' = [v[2] EXCEPT !.read_end_flag = 0]
            \/ p' \in Updates(v[2])
  BY DEF WaitEnd
<1> PICK v \in CheckFlag(c) :
         /\ queue' = v[3]
         /\ Goes("wait", "ended") \/ Goes("wait", "wait")
         /\ \/ p' = v[2] \/ p' = [v[2] EXCEPT !.read_end_flag = 0]
            \/ p' \in Updates(v[2])
  BY <1>1
<1>2. main = "wait" /\ main' \in {"ended", "wait"}
  BY DEF Goes
<1>3. p \in Para /\ queue \in Seq(Kind) /\ c \in Para /\ Keeps(p, c)
  BY DecoderStateKeeps DEF IInv, TypeOK, Reports
<1>4. v[2] \in Para /\ Keeps(c, v[2]) /\ queue' \in Seq(Kind) /\ Len(queue') <= Len(queue)
  BY <1>3, CheckFlagKeeps
<1>5. p' \in Para /\ Keeps(v[2], p')
  <2>1. CASE p' = v[2]
    BY <1>4, <2>1 DEF Keeps
  <2>2. CASE p' = [v[2] EXCEPT !.read_end_flag = 0]
    BY <1>4, <2>2 DEF Para, Flag, Keeps
  <2>3. CASE p' \in Updates(v[2])
    BY <1>4, <2>3, UpdatesKeep DEF Reports
  <2>4. QED BY <2>1, <2>2, <2>3
<1>6. p'.reset_flag = 1 => p'.end_flag = 1
  BY <1>2, <1>3, <1>4, <1>5 DEF IInv, EndKept, Keeps, Para, Flag
<1>7. UNCHANGED <<avpkt, ret, mate, killed, stop>>
  BY DEF WaitEnd
<1>8. TypeOK'
  BY <1>2, <1>4, <1>5, <1>7, PlayerAssumption DEF IInv, TypeOK, MainAt
<1>9. (EndKept /\ PauseShown /\ PauseKept)'
  BY <1>2, <1>6 DEF EndKept, PauseShown, PauseKept, Window
<1>10. QED BY <1>8, <1>9 DEF IInv

LEMMA CountDownTyped ==
    ASSUME NEW b \in Para
    PROVE  LET c == CountDown(b)
           IN  /\ c \in Para /\ c.end_flag = b.end_flag /\ c.reset_flag = b.reset_flag
               /\ c.search_flag = b.search_flag /\ c.fast = b.fast
               /\ c.player_state = b.player_state
               /\ c.request_end_flag = b.request_end_flag
<1> DEFINE c == CountDown(b)
<1>1. CASE c = b
  BY <1>1
<1>2. CASE b.loop_flag \in 1 .. LoopForever - 1 /\ c = [b EXCEPT !.loop_flag = @ - 1]
  <2>1. b.loop_flag - 1 \in 0 .. LoopForever
    BY <1>2, PlayerAssumption
  <2>2. c = [b EXCEPT !.loop_flag = b.loop_flag - 1]
    BY <1>2
  <2>3. QED BY <2>1, <2>2 DEF Para
<1>3. QED BY <1>1, <1>2 DEF CountDown

LEMMA PlayEndedKeeps == ASSUME IInv, PlayEnded PROVE IInv'
<1> DEFINE c == CountDown(p)
<1>1. /\ c \in Para /\ c.end_flag = p.end_flag /\ c.reset_flag = p.reset_flag
      /\ c.player_state = p.player_state
  BY CountDownTyped DEF IInv, TypeOK
<1>2. \/ Goes("ended", "release") /\ p' = c
      \/ /\ Goes("ended", "reset")
         /\ \/ c.player_state = "SEARCHING" /\ p' = c
            \/ p' \in Updates(State(c, "SEARCHING"))
  BY DEF PlayEnded
<1>3. UNCHANGED <<avpkt, ret, mate, killed, queue, stop>>
  BY DEF PlayEnded
<1> HIDE DEF c
<1>4. /\ main = "ended" /\ main' \in {"release", "reset"} /\ p' \in Para
      /\ main' = "reset" => Keeps(c, p') /\ p'.player_state # "PAUSE"
  <2>1. CASE p' = c
    BY <1>1, <1>2, <2>1, StateTyped, UpdatesKeep DEF Goes, Keeps
  <2>2. CASE Goes("ended", "reset") /\ p' \in Updates(State(c, "SEARCHING"))
    BY <1>1, <2>2, StateTyped, UpdatesKeep DEF Goes, Keeps, Calm, Reports
  <2>3. QED BY <1>2, <2>1, <2>2
<1>5. TypeOK'
  BY <1>3, <1>4 DEF IInv, TypeOK, MainAt
<1>6. EndKept'
  BY <1>1, <1>4 DEF IInv, EndKept, Keeps, Para, Flag
<1>7. (PauseShown /\ PauseKept)'
  BY <1>4 DEF PauseShown, PauseKept, Window
<1>8. QED BY <1>5, <1>6, <1>7 DEF IInv

LEMMA TrickResetKeeps ==
    ASSUME NEW c \in Para, NEW d \in TrickReset(c), c.player_state # "PAUSE"
    PROVE  d \in Para /\ d.player_state # "PAUSE"
<1>1. CASE d = c
  BY <1>1
<1>2. CASE d = [c EXCEPT !.end_flag = 1]
  BY <1>2 DEF Para, Flag
<1>3. CASE \E i \in Flag : d = [State(c, "FF_END") EXCEPT !.f_step = 0, !.init_ff_fr = i]
  BY <1>3 DEF State, Para, Flag
<1>4. CASE d = State(c, "FB_END")
  BY <1>4, StateTyped
<1>5. CASE d = [State(c, "FB_END") EXCEPT !.f_step = 0, !.init_ff_fr = 0]
  BY <1>5 DEF State, Para, Flag
<1>6. CASE d = [State(c, "FF_END") EXCEPT !.f_step = 0,
                                          !.init_ff_fr = IF c.loop_flag = 0 THEN @ ELSE 0]
  <2>1. State(c, "FF_END").init_ff_fr \in Flag
    BY StateTyped DEF Para
  <2>2. QED BY <1>3, <1>6, <2>1 DEF Flag
<1>7. QED BY <1>1, <1>2, <1>4, <1>5, <1>6 DEF TrickReset

LEMMA ResetKeeps == ASSUME IInv, Reset PROVE IInv'
<1> DEFINE c == [p EXCEPT !.end_flag = 0, !.read_end_flag = 0]
           After(d, a) == [d EXCEPT !.player_state = IF d.search_flag = 1 THEN "SEARCHOK" ELSE @,
                                    !.search_flag = 0, !.reset_flag = 0, !.seek_base_audio = a]
<1>1. main = "reset" /\ p \in Para /\ p.player_state # "PAUSE"
  BY DEF Reset, Goes, IInv, TypeOK, PauseKept
<1>2. c \in Para /\ c.player_state # "PAUSE"
  BY <1>1 DEF Para, Flag
<1>3. \/ main' = "release" /\ p' = State(c, "ERROR")
      \/ \E d \in (IF c.fast = 1 THEN TrickReset(c) ELSE {c}) :
            \/ d.end_flag = 1 /\ main' = "release" /\ p' = State(d, "PLAYEND")
            \/ /\ d.end_flag # 1 /\ main' = "check"
               /\ \E a \in {d.seek_base_audio, 0} : p' = After(d, a)
  BY DEF Reset, Goes
<1> HIDE DEF c, After
<1>4. /\ main' \in {"release", "check"} /\ p' \in Para
      /\ main' = "check" => /\ p'.end_flag = 0 /\ p'.reset_flag = 0
                            /\ p'.player_state # "PAUSE"
  <2>1. CASE main' = "release" /\ p' = State(c, "ERROR")
    BY <1>2, <2>1, StateTyped
  <2>2. ASSUME NEW d \in (IF c.fast = 1 THEN TrickReset(c) ELSE {c})
        PROVE  d \in Para /\ d.player_state # "PAUSE"
    BY <1>2, TrickResetKeeps
  <2>3. CASE \E d \in (IF c.fast = 1 THEN TrickReset(c) ELSE {c}) :
                d.end_flag = 1 /\ main' = "release" /\ p' = State(d, "PLAYEND")
    BY <2>2, <2>3, StateTyped
  <2>4. ASSUME NEW d \in (IF c.fast = 1 THEN TrickReset(c) ELSE {c}),
               d.end_flag # 1, NEW a \in {d.seek_base_audio, 0}, p' = After(d, a)
        PROVE  p' \in Para /\ p'.end_flag = 0 /\ p'.reset_flag = 0 /\ p'.player_state # "PAUSE"
    <3>1. d \in Para /\ d.player_state # "PAUSE" BY <2>2
    <3>2. PICK s : /\ s = d.player_state \/ s = "SEARCHOK"
                   /\ p' = [d EXCEPT !.player_state = s, !.search_flag = 0, !.reset_flag = 0,
                                     !.seek_base_audio = a]
      BY <2>4 DEF After
    <3>3. p' \in Para BY <3>1, <3>2 DEF Para, Flag
    <3>4. p'.end_flag = d.end_flag /\ p'.reset_flag = 0 /\ p'.player_state # "PAUSE"
      BY <3>1, <3>2 DEF Para
    <3>5. QED BY <2>4, <3>1, <3>3, <3>4 DEF Para, Flag
  <2>5. QED BY <1>3, <2>1, <2>3, <2>4
<1>5. UNCHANGED <<ret, mate, killed, queue, stop>> /\ avpkt' \in Flag
  BY DEF Reset, IInv, TypeOK, Flag
<1>6. TypeOK'
  BY <1>4, <1>5 DEF IInv, TypeOK, MainAt
<1>7. (EndKept /\ PauseShown /\ PauseKept)'
  BY <1>4 DEF EndKept, PauseShown, PauseKept, Window, Unreported
<1>8. QED BY <1>6, <1>7 DEF IInv

LEMMA ReleaseKeeps == ASSUME IInv, Release PROVE IInv'
<1>1. main = "release" /\ main' = "exit" /\ p \in Para
  BY DEF Release, Goes, IInv, TypeOK
<1>2. p' \in Para
  <2>1. p' \in Updates(p) \/ p' \in Updates(State(p, "STOPED"))
    BY DEF Release
  <2>2. QED BY <1>1, <2>1, StateTyped, UpdatesKeep
<1>3. queue' \in Seq(Kind) /\ Len(queue') <= MessageMax
  BY DrainTyped DEF IInv, TypeOK, Release
<1>4. UNCHANGED <<avpkt, ret, mate, killed, stop>>
  BY DEF Release
<1>5. TypeOK'
  BY <1>1, <1>2, <1>3, <1>4 DEF IInv, TypeOK, MainAt
<1>6. (EndKept /\ PauseShown /\ PauseKept)'
  BY <1>1, <1>2 DEF EndKept, PauseShown, PauseKept, Window
<1>7. QED BY <1>5, <1>6 DEF IInv

LEMMA ExitKeeps == ASSUME IInv, Exit PROVE IInv'
<1>1. /\ main' = "exited" /\ p' = State(p, "EXIT") /\ p \in Para
      /\ UNCHANGED <<avpkt, ret, mate, killed, queue, stop>>
  BY DEF Exit, Goes, IInv, TypeOK
<1>2. p' \in Para /\ p'.player_state = "EXIT"
  BY <1>1, StateTyped
<1>3. TypeOK'
  BY <1>1, <1>2 DEF IInv, TypeOK, MainAt
<1>4. (EndKept /\ PauseShown /\ PauseKept)'
  BY <1>1, <1>2 DEF EndKept, PauseShown, PauseKept, Window
<1>5. QED BY <1>3, <1>4 DEF IInv

LEMMA NextKeeps == ASSUME IInv, [Next]_vars PROVE IInv'
<1>1. CASE \/ \E m \in Command : Send(m)
           \/ StopCall \/ StopStep
  BY <1>1, ClientKeeps
<1>2. CASE Open \/ StopAfterParse \/ PrepareFails \/ Prepare \/ Decoder
  BY <1>2, OpeningKeeps
<1>3. CASE Start
  BY <1>3, StartKeeps
<1>4. CASE Check
  BY <1>4, CheckKeeps
<1>5. CASE Read \/ Buffer \/ SleepUndo
  BY <1>5, WindowKeeps
<1>6. CASE WindowDone
  BY <1>6, WindowDoneKeeps
<1>7. CASE Write
  BY <1>7, WriteKeeps
<1>8. CASE WriteFinish
  BY <1>8, WriteFinishKeeps
<1>9. CASE WaitEnd
  BY <1>9, WaitEndKeeps
<1>10. CASE PlayEnded
  BY <1>10, PlayEndedKeeps
<1>11. CASE Reset
  BY <1>11, ResetKeeps
<1>12. CASE Release
  BY <1>12, ReleaseKeeps
<1>13. CASE Exit
  BY <1>13, ExitKeeps
<1>14. CASE MateCommand \/ MateUpdate
  BY <1>14, MateKeeps
<1>15. CASE UNCHANGED vars
  BY <1>15 DEF vars, IInv, TypeOK, EndKept, PauseShown, PauseKept, Window,
               Unreported, Trick
<1>16. QED
  BY <1>1, <1>2, <1>3, <1>4, <1>5, <1>6, <1>7, <1>8, <1>9, <1>10, <1>11, <1>12, <1>13, <1>14,
     <1>15 DEF Next, Blocking, Playing

THEOREM Inductive == Spec => []IInv
<1>1. Init => IInv
  BY InitIInv
<1>2. IInv /\ [Next]_vars => IInv'
  BY NextKeeps
<1>3. QED BY <1>1, <1>2, PTL DEF Spec

-----------------------------------------------------------------------------

\* The flags of a player, its pool and its place in the code stay in their types.
THEOREM PlayerTyped == Spec => []TypeOK
<1>1. IInv => TypeOK
  BY DEF IInv
<1>2. QED BY <1>1, Inductive, PTL

\* A player that reports PLAYER_PAUSE inside a window is paused, whoever took the resume.
THEOREM PauseReported == Spec => []PauseShown
<1>1. IInv => PauseShown
  BY DEF IInv
<1>2. QED BY <1>1, Inductive, PTL

\* Only check_flag takes a stop in the play loop, and it leaves nothing that keeps the loop
\* alive: no reset is pending, because a reset would have ended the loop before.
LEMMA StopTaken ==
    ASSUME IInv, [Next]_vars, p.request_end_flag' # p.request_end_flag, main = "check"
    PROVE  main' = "ended" /\ Exits(p')
<1>1. p' # p
  OBVIOUS
<1>2. Check
  BY <1>1 DEF Next, vars, Send, StopCall, StopStep, StopClear, StopInterrupt, StopSend, StopJoin,
              Blocking, Open, Read, Buffer, Playing, StopAfterParse, PrepareFails, Prepare, Start,
              Decoder, SleepUndo, WindowDone, Write, Written, WriteFinish, WaitEnd, PlayEnded,
              Reset, Release, Exit, MateCommand, MateUpdate, Goes, Window
<1>3. p \in Para /\ p.reset_flag = 0 /\ queue \in Seq(Kind)
  BY DEF IInv, TypeOK, EndKept, Para, Flag
<1>4. PICK v \in CheckFlag(p) :
         \/ v[2].end_flag = 1 /\ main' = "ended" /\ p' = [v[2] EXCEPT !.end_flag = 1]
         \/ v[2].end_flag # 1 /\ p' \in {v[2], [v[2] EXCEPT !.end_flag = 1]}
         \/ v[1] # "BREAK" /\ p' = v[2]
         \/ v[1] # "BREAK" /\ p' \in Running(v[2])
  BY <1>2 DEF Check, Goes
<1>5. /\ v[2] \in Para
      /\ v[2].request_end_flag # p.request_end_flag =>
            /\ v[1] = "BREAK" /\ v[2].end_flag = 1
            /\ v[2].search_flag = 0 /\ v[2].fast = 0 /\ v[2].loop_flag = 0
            /\ v[2].reset_flag = p.reset_flag
  BY <1>3, CheckFlagKeeps
<1>6. p'.request_end_flag = v[2].request_end_flag
  <2>1. CASE p' = [v[2] EXCEPT !.end_flag = 1]
    BY <1>5, <2>1 DEF Para
  <2>2. CASE p' = v[2]
    BY <2>2
  <2>3. CASE p' \in Running(v[2])
    BY <1>5, <2>3, RunningKeeps DEF Reports
  <2>4. QED BY <1>4, <2>1, <2>2, <2>3
<1>7. main' = "ended" /\ p' = [v[2] EXCEPT !.end_flag = 1]
  BY <1>4, <1>5, <1>6
<1>8. QED BY <1>3, <1>5, <1>6, <1>7 DEF Exits, Para

\* A stop taken in the play loop is final.
THEOREM StopEnds == Spec => StopIsFinal
<1>1. IInv /\ [Next]_vars =>
         (p.request_end_flag' # p.request_end_flag /\ main = "check"
             => main' = "ended" /\ Exits(p'))
  BY StopTaken
<1>2. QED BY <1>1, Inductive, PTL DEF Spec, StopIsFinal

-----------------------------------------------------------------------------
(* Where player_stop comes after all other commands, an error after it has   *)
(* sent CMD_STOP is reported as a stop: the stop is not lost on the way from *)
(* the pool through every handler to the release.                            *)

StopHeard == stop = "join" /\ main \notin {"exit", "exited"} =>
                Stopping(p, queue) \/ (main = "release" /\ p.player_state = "STOPED")

LEMMA StopDelivered ==
    ASSUME queue \in Seq(Kind), Len(queue) <= MessageMax, Deliver("STOP")
    PROVE  StopIn(queue')
<1>0. MessageMax \in Nat \ {0}
  BY PlayerAssumption
<1>1. CASE Pool!Accept("STOP")
  <2>1. queue' = Append(queue, "STOP")
    BY <1>1 DEF Pool!Accept
  <2>2. Len(queue') = Len(queue) + 1 /\ queue'[Len(queue) + 1] = "STOP"
    BY <2>1
  <2>3. QED BY <2>2 DEF StopIn
<1>2. CASE Pool!PushOut("STOP")
  <2>1. queue # <<>> /\ queue' = Append(Tail(queue), "STOP")
    BY <1>0, <1>2 DEF Pool!PushOut
  <2>2. Len(queue') = Len(queue) /\ queue'[Len(queue)] = "STOP" /\ Len(queue) \in Nat \ {0}
    BY <2>1
  <2>3. QED BY <2>2 DEF StopIn
<1>3. CASE Pool!ReplaceHead("STOP")
  <2>1. queue # <<>> /\ queue' = <<"STOP">> \o Tail(queue)
    BY <1>3 DEF Pool!ReplaceHead
  <2>2. Len(queue') = Len(queue) /\ queue'[1] = "STOP" /\ Len(queue) \in Nat \ {0}
    BY <2>1
  <2>3. QED BY <2>2 DEF StopIn
<1>4. QED BY <1>1, <1>2, <1>3 DEF Deliver

LEMMA ResetHears == ASSUME p \in Para, Reset PROVE p'.request_end_flag = p.request_end_flag
<1> DEFINE c == [p EXCEPT !.end_flag = 0, !.read_end_flag = 0]
           After(d, a) == [d EXCEPT !.player_state = IF d.search_flag = 1 THEN "SEARCHOK" ELSE @,
                                    !.search_flag = 0, !.reset_flag = 0, !.seek_base_audio = a]
<1>1. c \in Para /\ c.request_end_flag = p.request_end_flag
  BY DEF Para, Flag
<1>2. \/ p' = State(c, "ERROR")
      \/ \E d \in TrickReset(c) \cup {c} :
            p' = State(d, "PLAYEND") \/ \E a : p' = After(d, a)
  BY DEF Reset
<1> HIDE DEF c, After
<1>3. ASSUME NEW d \in TrickReset(c) \cup {c}
      PROVE  /\ d.request_end_flag = c.request_end_flag
             /\ State(d, "PLAYEND").request_end_flag = c.request_end_flag
             /\ \A a : After(d, a).request_end_flag = c.request_end_flag
  BY <1>1 DEF TrickReset, State, Para, After
<1>4. QED BY <1>1, <1>2, <1>3, StateTyped

LEMMA HasStopIn == HasStop <=> StopIn(queue)
  BY DEF HasStop, StopIn

\* The steps of the player thread and of its mate, with the stop in the pool or taken.
LEMMA StopKept ==
    ASSUME IInv, Stopping(p, queue), main \notin {"release", "exit", "exited"},
           Blocking \/ Playing \/ MateCommand \/ MateUpdate
    PROVE  Stopping(p', queue') \/ (main' = "release" /\ p'.player_state = "STOPED")
<1>1. p \in Para /\ queue \in Seq(Kind)
  BY DEF IInv, TypeOK
<1>2. queue # <<>> /\ StopIn(queue) => Head(queue) = "STOP" \/ StopIn(Tail(queue))
  BY <1>1, StopTaking
<1>3. CASE queue' = queue /\ p'.request_end_flag = p.request_end_flag
  BY <1>3 DEF Stopping
<1>4. CASE Open \/ StopAfterParse \/ Prepare \/ Decoder
  <2>1. queue' = queue
    BY <1>4 DEF Open, StopAfterParse, Prepare, Decoder
  <2>2. p' = p \/ \E s \in {"TYPE_REDY", "ERROR", "INITOK", "START"} : p' = State(p, s)
    BY <1>4 DEF Open, StopAfterParse, Prepare, Decoder
  <2>3. QED BY <1>1, <1>3, <2>1, <2>2, StateTyped
<1>5. CASE PrepareFails
  <2>1. CASE p' = State(p, "ERROR") /\ queue' = queue
    BY <1>1, <1>3, <2>1, StateTyped
  <2>2. CASE p' = State(p, IF HasStop THEN "STOPED" ELSE "ERROR")
    BY <1>1, <1>5, <2>2, StateTyped, HasStopIn DEF PrepareFails, Goes, Stopping
  <2>3. QED BY <1>5, <2>1, <2>2 DEF PrepareFails
<1>6. CASE Start
  <2>1. queue # <<>> /\ queue' = Tail(queue) /\ Head(queue) \in Kind
    BY <1>1, <1>6 DEF Start
  <2>2. CASE p' = p /\ Head(queue) \in {"START", "SEEK"}
    BY <1>2, <2>1, <2>2 DEF Stopping
  <2>3. ASSUME NEW c \in CheckMsg(Head(queue), p),
               p' = c \/ \E s \in {"STOPED", "PLAYEND"} : p' = State(c, s)
        PROVE  Stopping(p', queue')
    BY <1>1, <1>2, <2>1, <2>3, CheckMsgKeeps, StateTyped DEF Stopping, Keeps
  <2>4. QED BY <1>6, <2>2, <2>3 DEF Start
<1>7. CASE Check
  <2>1. PICK v \in CheckFlag(p) :
           /\ queue' = v[3]
           /\ p' \in {v[2], [v[2] EXCEPT !.end_flag = 1]} \/ p' \in Running(v[2])
    BY <1>7 DEF Check
  <2>2. v[2] \in Para /\ Stopping(v[2], v[3])
    BY <1>1, CheckFlagKeeps
  <2>3. p'.request_end_flag = v[2].request_end_flag
    <3>1. CASE p' = [v[2] EXCEPT !.end_flag = 1]
      BY <2>2, <3>1 DEF Para
    <3>2. CASE p' \in Running(v[2])
      BY <2>2, <3>2, RunningKeeps DEF Reports
    <3>3. QED BY <2>1, <3>1, <3>2
  <2>4. QED BY <2>1, <2>2, <2>3 DEF Stopping
<1>8. CASE Read \/ Buffer \/ SleepUndo
  <2>1. /\ queue' = queue
        /\ \/ p' = p
           \/ p' = [p EXCEPT !.ignore_ffmpeg_errors = 0]
           \/ p' = [p EXCEPT !.temp_interrupt_ffmpeg = 0]
           \/ p' = [p EXCEPT !.read_end_flag = 1]
    BY <1>8 DEF Read, Ignoring, Buffer, SleepUndo
  <2>2. p'.request_end_flag = p.request_end_flag
    BY <1>1, <2>1 DEF Para
  <2>3. QED BY <1>3, <2>1, <2>2
<1>9. CASE WindowDone
  <2>1. queue' = queue /\ (p' = State(p, "ERROR") \/ p' = p \/ p' \in Running(p))
    BY <1>9 DEF WindowDone
  <2>2. QED BY <1>1, <1>3, <2>1, StateTyped, RunningKeeps DEF Reports
<1>10. CASE Write
  BY <1>1, <1>3, <1>10, WriteReports DEF Write, Reports
<1>11. CASE WriteFinish
  BY <1>3, <1>11 DEF WriteFinish
<1>12. CASE WaitEnd
  <2> PICK c \in DecoderState(p) : \E v \in CheckFlag(c) :
           /\ queue' = v[3]
           /\ p' = v[2] \/ p' = [v[2] EXCEPT !.read_end_flag = 0] \/ p' \in Updates(v[2])
    BY <1>12 DEF WaitEnd
  <2>1. PICK v \in CheckFlag(c) :
           /\ queue' = v[3]
           /\ p' = v[2] \/ p' = [v[2] EXCEPT !.read_end_flag = 0] \/ p' \in Updates(v[2])
    OBVIOUS
  <2>2. c \in Para /\ Stopping(c, queue)
    BY <1>1, DecoderStateKeeps DEF Reports, Stopping
  <2>3. v[2] \in Para /\ Stopping(v[2], v[3])
    BY <1>1, <2>2, CheckFlagKeeps
  <2>4. p'.request_end_flag = v[2].request_end_flag
    <3>1. CASE p' = [v[2] EXCEPT !.read_end_flag = 0]
      BY <2>3, <3>1 DEF Para
    <3>2. CASE p' \in Updates(v[2])
      BY <2>3, <3>2, UpdatesKeep DEF Reports
    <3>3. QED BY <2>1, <3>1, <3>2
  <2>5. QED BY <2>1, <2>3, <2>4 DEF Stopping
<1>13. CASE PlayEnded
  <2> DEFINE c == CountDown(p)
  <2>1. c \in Para /\ c.request_end_flag = p.request_end_flag
    BY <1>1, CountDownTyped
  <2>2. queue' = queue /\ (p' = c \/ p' \in Updates(State(c, "SEARCHING")))
    BY <1>13 DEF PlayEnded
  <2> HIDE DEF c
  <2>3. QED BY <1>3, <2>1, <2>2, StateTyped, UpdatesKeep DEF Reports
<1>14. CASE Reset
  <2>1. queue' = queue
    BY <1>14 DEF Reset
  <2>2. QED BY <1>1, <1>3, <1>14, <2>1, ResetHears
<1>15. CASE MateCommand
  <2>1. queue # <<>> /\ queue' = Tail(queue)
    BY <1>15 DEF MateCommand
  <2>2. QED BY <1>1, <1>2, <1>15, <2>1, MateTakes DEF Stopping, Keeps
<1>16. CASE MateUpdate
  <2>1. queue' = queue /\ p' \in Updates(p)
    BY <1>16 DEF MateUpdate
  <2>2. QED BY <1>1, <1>3, <2>1, UpdatesKeep DEF Reports
<1>17. CASE Release \/ Exit
  BY <1>17 DEF Release, Exit, Goes
<1>18. QED
  BY <1>4, <1>5, <1>6, <1>7, <1>8, <1>9, <1>10, <1>11, <1>12, <1>13, <1>14, <1>15, <1>16, <1>17
  DEF Blocking, Playing

LEMMA StopHeardStep == ASSUME IInv, StopHeard, [StopLast]_vars PROVE StopHeard'
<1>1. CASE stop # "join" /\ StopSend
  <2>1. StopIn(queue')
    BY <1>1, StopDelivered DEF StopSend, IInv, TypeOK
  <2>2. QED BY <2>1 DEF StopHeard, Stopping
<1>2. CASE stop' # "join"
  BY <1>2 DEF StopHeard
<1>3. CASE main' \in {"exit", "exited"}
  BY <1>3 DEF StopHeard
<1>4. CASE UNCHANGED vars
  BY <1>4 DEF StopHeard, Stopping, StopIn, vars
<1>5. CASE /\ stop = "join" /\ main \notin {"release", "exit", "exited"}
           /\ Blocking \/ Playing \/ MateCommand \/ MateUpdate
  BY <1>5, StopKept DEF StopHeard
<1>6. ASSUME Blocking \/ Playing \/ MateCommand \/ MateUpdate
      PROVE  /\ stop' = stop
             /\ main \in {"release", "exit", "exited"} => main' \in {"exit", "exited"}
  BY <1>6 DEF Blocking, Open, Read, Buffer, Playing, StopAfterParse, PrepareFails, Prepare, Start,
              Decoder, Check, SleepUndo, WindowDone, Write, Written, WriteFinish, WaitEnd,
              PlayEnded, Reset, Release, Exit, MateCommand, MateUpdate, Goes, Window
<1>7. QED
  BY <1>1, <1>2, <1>3, <1>4, <1>5, <1>6
  DEF StopLast, Send, StopCall, StopStep, StopClear, StopInterrupt, StopSend, StopJoin

LEMMA StopReported ==
    ASSUME IInv, StopHeard, [StopLast]_vars, stop = "join", main = "release", main' = "exit"
    PROVE  p'.player_state # "ERROR"
<1>1. p \in Para /\ main' # main
  BY DEF IInv, TypeOK
<1>2. Release
  BY <1>1 DEF StopLast, vars, Send, StopCall, StopStep, StopClear, StopInterrupt, StopSend,
              StopJoin, Blocking, Open, Read, Buffer, Playing, StopAfterParse, PrepareFails,
              Prepare, Start, Decoder, Check, SleepUndo, WindowDone, Write, Written, WriteFinish,
              WaitEnd, PlayEnded, Reset, Exit, MateCommand, MateUpdate, Goes, Window
<1>3. CASE p.player_state # "ERROR" /\ p' \in Updates(p)
  BY <1>1, <1>3, UpdatesKeep
<1>4. CASE p' \in Updates(State(p, "STOPED"))
  BY <1>1, <1>4, StateTyped, UpdatesKeep
<1>5. CASE /\ p.player_state = "ERROR" /\ p.request_end_flag = 0
           /\ p' \in Updates(IF HasStop THEN State(p, "STOPED") ELSE p)
  <2>1. HasStop
    BY <1>5, HasStopIn DEF StopHeard, Stopping
  <2>2. QED BY <1>4, <1>5, <2>1
<1>6. QED BY <1>2, <1>3, <1>4, <1>5 DEF Release

\* Where no command follows player_stop, an error of the player after the stop was sent is
\* reported as a stop.
THEOREM StoppedWithoutError == StopLastSpec => StopIsNoError
<1>1. Init => IInv /\ StopHeard
  BY InitIInv DEF Init, StopHeard
<1>2. [StopLast]_vars => [Next]_vars
  BY DEF StopLast, Next
<1>3. IInv /\ StopHeard /\ [StopLast]_vars => IInv' /\ StopHeard'
  BY <1>2, NextKeeps, StopHeardStep
<1>4. IInv /\ StopHeard /\ [StopLast]_vars =>
         (stop = "join" /\ main = "release" /\ main' = "exit" => p'.player_state # "ERROR")
  BY StopReported
<1>5. QED BY <1>1, <1>3, <1>4, PTL DEF StopLastSpec, StopIsNoError

-----------------------------------------------------------------------------
(* A seek is not left behind a read.  Where no client starts a trick mode a  *)
(* seek always comes with the end of the play loop; so the thread does not   *)
(* enter a read with a seek, and the mate that takes one inside a read       *)
(* interrupts it.                                                            *)

NoTrick == p.fast # 1 /\ Plain(queue)

SeekEnds == main \notin {"release", "exit", "exited"} /\ p.search_flag = 1 => p.end_flag = 1

SeekInv == IInv /\ NoTrick /\ SeekEnds /\ SeekInterrupts

LEMMA PlainDelivered ==
    ASSUME NEW m \in Kind, m # "FF", queue \in Seq(Kind), Len(queue) <= MessageMax,
           Plain(queue), Deliver(m)
    PROVE  Plain(queue')
<1>0. MessageMax \in Nat \ {0}
  BY PlayerAssumption
<1>1. CASE Pool!Accept(m)
  BY <1>0, <1>1 DEF Pool!Accept, Plain
<1>2. CASE Pool!PushOut(m)
  <2>1. queue # <<>> /\ queue' = Append(Tail(queue), m)
    BY <1>0, <1>2 DEF Pool!PushOut
  <2>2. Plain(Tail(queue)) /\ Tail(queue) \in Seq(Kind)
    BY <2>1, PlainTaken
  <2>3. QED BY <2>1, <2>2 DEF Plain
<1>3. CASE Pool!ReplaceHead(m)
  <2>1. queue # <<>> /\ queue' = <<m>> \o Tail(queue)
    BY <1>3 DEF Pool!ReplaceHead
  <2>2. Plain(Tail(queue)) /\ Tail(queue) \in Seq(Kind)
    BY <2>1, PlainTaken
  <2>3. QED BY <2>1, <2>2 DEF Plain
<1>4. QED BY <1>1, <1>2, <1>3 DEF Deliver

\* The pool never holds the start of a trick mode that no client sends.
LEMMA PlainKept ==
    ASSUME "FF" \notin Command, IInv, NoTrick, Next
    PROVE  Plain(queue')
<1>1. queue \in Seq(Kind) /\ Len(queue) <= MessageMax /\ p \in Para
  BY DEF IInv, TypeOK
<1>2. CASE \E m \in Command : Send(m)
  <2>1. PICK m \in Command : Deliver(m)
    BY <1>2 DEF Send
  <2>2. QED BY <1>1, <2>1, PlainDelivered, PlayerAssumption DEF NoTrick
<1>3. CASE StopSend
  BY <1>1, <1>3, PlainDelivered DEF StopSend, NoTrick, Kind
<1>4. CASE DrainToStop
  <2>1. PICK n \in 0 .. Len(queue) : queue' = SubSeq(queue, n + 1, Len(queue))
    BY <1>4 DEF DrainToStop
  <2>2. /\ Len(queue') = Len(queue) - n
        /\ \A i \in 1 .. Len(queue') : queue'[i] = queue[n + i]
    BY <1>1, <2>1
  <2>3. QED BY <1>1, <2>2 DEF NoTrick, Plain
<1>5. CASE queue' = <<>>
  BY <1>5 DEF Plain
<1>6. CASE queue' = queue
  BY <1>6 DEF NoTrick
<1>7. CASE queue # <<>> /\ queue' = Tail(queue)
  BY <1>1, <1>7, PlainTaken DEF NoTrick
<1>8. CASE Check
  <2>1. PICK v \in CheckFlag(p) : queue' = v[3]
    BY <1>8 DEF Check
  <2>2. QED BY <1>1, <2>1, CheckFlagKeeps DEF NoTrick
<1>9. CASE WaitEnd
  <2>1. PICK c \in DecoderState(p) : \E v \in CheckFlag(c) : queue' = v[3]
    BY <1>9 DEF WaitEnd
  <2>2. c \in Para /\ c.fast # 1
    BY <1>1, DecoderStateKeeps DEF Reports, Calm, NoTrick
  <2>3. QED BY <1>1, <2>1, <2>2, CheckFlagKeeps DEF NoTrick
<1>10. QED
  BY <1>2, <1>3, <1>4, <1>5, <1>6, <1>7, <1>8, <1>9
  DEF Next, StopCall, StopStep, StopClear, StopInterrupt, StopJoin, Blocking, Open, Read, Buffer,
      Playing, StopAfterParse, PrepareFails, Prepare, Start, Decoder, SleepUndo, WindowDone,
      Write, WriteFinish, PlayEnded, Reset, Release, Exit, MateCommand, MateUpdate

LEMMA SeekStep ==
    ASSUME SeekInv, IInv', Plain(queue'), Next
    PROVE  p'.fast # 1 /\ SeekEnds' /\ SeekInterrupts'
<1> USE DEF SeekEnds, SeekInterrupts
<1>1. /\ p \in Para /\ queue \in Seq(Kind) /\ p.fast # 1 /\ Plain(queue)
      /\ SeekEnds /\ SeekInterrupts
  BY DEF SeekInv, NoTrick, IInv, TypeOK
<1>2. CASE (\E m \in Command : Send(m)) \/ StopCall \/ StopStep
  BY <1>1, <1>2 DEF Send, StopCall, StopStep, StopClear, StopInterrupt, StopSend, StopJoin
<1>3. CASE Open \/ StopAfterParse \/ PrepareFails \/ Prepare \/ Decoder
  <2>1. main \in {"open", "prepare", "decoder"}
    BY <1>3 DEF Open, StopAfterParse, PrepareFails, Prepare, Decoder, Goes
  <2>2. p.search_flag = 0
    BY <2>1 DEF SeekInv, IInv, EndKept
  <2>3. p' = p \/ \E s \in {"TYPE_REDY", "ERROR", "STOPED", "INITOK", "START"} : p' = State(p, s)
    BY <1>3 DEF Open, StopAfterParse, PrepareFails, Prepare, Decoder
  <2>4. QED BY <1>1, <2>2, <2>3, StateTyped
<1>4. CASE Start
  <2>1. main = "start" /\ queue # <<>>
    BY <1>4 DEF Start, Goes
  <2>2. p.search_flag = 0 /\ p.end_flag = 0 /\ p.read_end_flag = 0
    BY <2>1 DEF SeekInv, IInv, EndKept
  <2>3. Head(queue) \in Kind /\ Head(queue) # "FF"
    BY <1>1, <2>1, PlainTaken
  <2>4. CASE p' = p
    BY <1>1, <2>2, <2>4
  <2>5. ASSUME NEW c \in CheckMsg(Head(queue), p), Head(queue) # "SEEK",
               \/ c.search_flag = 0 /\ \E s \in {"STOPED", "PLAYEND"} : p' = State(c, s)
               \/ ~ (c.end_flag = 1 /\ c.search_flag = 0) /\ p' = c
        PROVE  p'.fast # 1 /\ p'.search_flag = 0
    BY <1>1, <2>2, <2>3, <2>5, CheckMsgKeeps, StateTyped
  <2>6. QED BY <1>1, <1>4, <2>4, <2>5 DEF Start
<1>5. CASE Check
  <2>1. main = "check" /\ p.search_flag # 1
    BY <1>1, <1>5 DEF Check, Goes, SeekInv, IInv, EndKept
  <2>2. PICK v \in CheckFlag(p) :
           \/ main' \in {"ended", "write"} /\ p' \in {v[2], [v[2] EXCEPT !.end_flag = 1]}
           \/ main' \in {"read", "buffer"} /\ v[1] # "BREAK" /\ p' = v[2]
           \/ main' = "write" /\ p' \in Running(v[2])
    BY <1>5 DEF Check, Goes
  <2>3. /\ v[2] \in Para /\ v[2].fast # 1
        /\ v[2].search_flag = 1 => v[1] = "BREAK" /\ v[2].end_flag = 1
    BY <1>1, <2>1, CheckFlagKeeps
  <2>4. CASE p' = [v[2] EXCEPT !.end_flag = 1] /\ main' \in {"ended", "write"}
    BY <2>3, <2>4 DEF Para
  <2>5. CASE p' = v[2]
    BY <2>2, <2>3, <2>5
  <2>6. CASE main' = "write" /\ p' \in Running(v[2])
    BY <2>3, <2>6, RunningKeeps DEF Reports, Keeps, Calm
  <2>7. QED BY <2>2, <2>4, <2>5, <2>6
<1>6. CASE Read \/ Buffer \/ SleepUndo
  <2>1. Window /\ main' \in {"closing", "closed"}
    BY <1>6 DEF Read, Buffer, SleepUndo, Goes, Window
  <2>2. \/ p' = p
        \/ p' = [p EXCEPT !.ignore_ffmpeg_errors = 0]
        \/ p' = [p EXCEPT !.temp_interrupt_ffmpeg = 0]
        \/ p' = [p EXCEPT !.read_end_flag = 1]
    BY <1>6 DEF Read, Ignoring, Buffer, SleepUndo
  <2>3. /\ p'.fast = p.fast /\ p'.search_flag = p.search_flag /\ p'.end_flag = p.end_flag
    BY <1>1, <2>2 DEF Para
  <2>4. QED BY <1>1, <2>1, <2>3 DEF Window
<1>7. CASE WindowDone
  <2>1. main = "closed" /\ main' \in {"release", "write"}
    BY <1>7 DEF WindowDone, Goes
  <2>2. p' = State(p, "ERROR") \/ p' = p \/ p' \in Running(p)
    BY <1>7 DEF WindowDone
  <2>3. QED BY <1>1, <2>1, <2>2, StateTyped, RunningKeeps DEF Reports, Keeps, Calm
<1>8. CASE MateCommand
  <2>1. Window /\ main' = main /\ queue # <<>>
    BY <1>8 DEF MateCommand
  <2>2. Head(queue) # "FF"
    BY <1>1, <2>1, PlainTaken
  <2>3. QED BY <1>1, <1>8, <2>1, <2>2, MateTakes DEF Keeps, Window
<1>9. CASE MateUpdate
  <2>1. Window /\ UNCHANGED <<main, killed>> /\ p' \in Updates(p)
    BY <1>9 DEF MateUpdate
  <2>2. QED BY <1>1, <2>1, UpdatesKeep DEF Reports, Keeps, Calm, Window
<1>10. CASE Write
  BY <1>1, <1>10, WriteReports DEF Reports, Keeps, Calm
<1>11. CASE WriteFinish
  BY <1>1, <1>11 DEF WriteFinish, Goes
<1>12. CASE WaitEnd
  <2>1. main = "wait" /\ main' \in {"wait", "ended"}
    BY <1>12 DEF WaitEnd, Goes
  <2> PICK c \in DecoderState(p) : \E v \in CheckFlag(c) :
           p' = v[2] \/ p' = [v[2] EXCEPT !.read_end_flag = 0] \/ p' \in Updates(v[2])
    BY <1>12 DEF WaitEnd
  <2>2. PICK v \in CheckFlag(c) :
           p' = v[2] \/ p' = [v[2] EXCEPT !.read_end_flag = 0] \/ p' \in Updates(v[2])
    OBVIOUS
  <2>3. c \in Para /\ c.fast # 1 /\ (c.search_flag = 1 => c.end_flag = 1)
    BY <1>1, <2>1, DecoderStateKeeps DEF Reports, Keeps, Calm
  <2>4. v[2] \in Para /\ v[2].fast # 1 /\ (v[2].search_flag = 1 => v[2].end_flag = 1)
    BY <1>1, <2>3, CheckFlagKeeps DEF Keeps
  <2>5. p'.fast # 1 /\ (p'.search_flag = 1 => p'.end_flag = 1)
    <3>1. CASE p' = v[2]
      BY <2>4, <3>1
    <3>2. CASE p' = [v[2] EXCEPT !.read_end_flag = 0]
      BY <2>4, <3>2 DEF Para
    <3>3. CASE p' \in Updates(v[2])
      BY <2>4, <3>3, UpdatesKeep DEF Reports, Keeps, Calm
    <3>4. QED BY <2>2, <3>1, <3>2, <3>3
  <2>6. QED BY <2>1, <2>5
<1>13. CASE PlayEnded
  <2> DEFINE c == CountDown(p)
  <2>1. c \in Para /\ c.end_flag = p.end_flag /\ c.search_flag = p.search_flag /\ c.fast = p.fast
    BY <1>1, CountDownTyped
  <2>2. /\ main = "ended" /\ main' \in {"release", "reset"}
        /\ p' = c \/ p' \in Updates(State(c, "SEARCHING"))
    BY <1>13 DEF PlayEnded, Goes
  <2> HIDE DEF c
  <2>3. QED BY <1>1, <2>1, <2>2, StateTyped, UpdatesKeep DEF Reports, Keeps, Calm
<1>14. CASE Reset
  <2> DEFINE c == [p EXCEPT !.end_flag = 0, !.read_end_flag = 0]
             After(a) == [c EXCEPT !.player_state = IF c.search_flag = 1 THEN "SEARCHOK" ELSE @,
                                   !.search_flag = 0, !.reset_flag = 0, !.seek_base_audio = a]
  <2>1. c \in Para /\ c.fast # 1
    BY <1>1 DEF Para, Flag
  <2>2. \/ main' = "release" /\ \E s \in {"ERROR", "PLAYEND"} : p' = State(c, s)
        \/ main' = "check" /\ \E a : p' = After(a)
    BY <1>14, <2>1 DEF Reset, Goes
  <2> HIDE DEF c
  <2>3. \A a : After(a).fast = c.fast /\ After(a).search_flag = 0
    BY <2>1 DEF Para
  <2> HIDE DEF After
  <2>4. QED BY <2>1, <2>2, <2>3, StateTyped
<1>15. CASE Release
  <2>1. main' = "exit"
    BY <1>15 DEF Release, Goes
  <2>2. p' \in Updates(p) \/ p' \in Updates(State(p, "STOPED"))
    BY <1>15 DEF Release
  <2>3. QED BY <1>1, <2>1, <2>2, StateTyped, UpdatesKeep DEF Reports, Calm
<1>16. CASE Exit
  BY <1>1, <1>16, StateTyped DEF Exit, Goes
<1>17. QED
  BY <1>2, <1>3, <1>4, <1>5, <1>6, <1>7, <1>8, <1>9, <1>10, <1>11, <1>12, <1>13, <1>14, <1>15,
     <1>16
  DEF Next, Blocking, Playing

\* Where no client starts a trick mode, a seek that was accepted is not left behind a read
\* that nobody interrupts.
THEOREM SeeksInterrupt == ASSUME "FF" \notin Command PROVE Spec => []SeekInterrupts
<1>1. Init => SeekInv
  BY InitIInv DEF Init, SeekInv, NoTrick, Plain, SeekEnds, SeekInterrupts
<1>2. SeekInv /\ [Next]_vars => SeekInv'
  <2> SUFFICES ASSUME SeekInv, [Next]_vars PROVE SeekInv'
    OBVIOUS
  <2>1. IInv'
    BY NextKeeps DEF SeekInv
  <2>2. CASE Next
    <3>1. Plain(queue')
      BY <2>2, PlainKept DEF SeekInv
    <3>2. p'.fast # 1 /\ SeekEnds' /\ SeekInterrupts'
      BY <2>1, <2>2, <3>1, SeekStep
    <3>3. QED BY <2>1, <3>1, <3>2 DEF SeekInv, NoTrick
  <2>3. CASE UNCHANGED vars
    BY <2>1, <2>3 DEF SeekInv, NoTrick, SeekEnds, SeekInterrupts, vars
  <2>4. QED BY <2>2, <2>3
<1>3. SeekInv => SeekInterrupts
  BY DEF SeekInv
<1>4. QED BY <1>1, <1>2, <1>3, PTL DEF Spec
=============================================================================
