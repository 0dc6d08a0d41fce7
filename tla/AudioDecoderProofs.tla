------------------------- MODULE AudioDecoderProofs -------------------------
(***************************************************************************)
(* Proofs about AudioDecoder: types, and the life of what the playback     *)
(* thread and the decode threads use, for every capacity of the message    *)
(* pool and every set of commands.                                         *)
(***************************************************************************)
EXTENDS AudioDecoder, TLAPS

-----------------------------------------------------------------------------
(* The inductive invariant. *)

\* Everything audio_codec_init, alsa_init and start_decode_thread set up is there.
Full == out # NULL /\ playback # "none" /\ decoders = "run" /\ buffers

\* Nothing is left.
Empty == out = NULL /\ playback = "none" /\ decoders = "none" /\ ~buffers

\* The round of the message loop, without the waits that need an output.
Round == {"loop", "flag", "gap", "get"}

\* alsa_stop, called by stop_adec.
Releasing == main \in {"stop", "stopping", "signal", "join"} /\ then = "release"

\* What is set up at each place of the main thread.
Resources ==
    /\ main = "init" => Empty
    /\ main = "output" => out = NULL /\ playback = "none" /\ decoders = "none" /\ buffers
    /\ main \in {"apts", "mute", "begin", "stop", "stopping", "signal", "join", "restart",
                 "unmute"} => Full
    /\ main = "reopen" => out = NULL /\ playback = "none" /\ decoders = "run" /\ buffers
    /\ main = "release" => out = NULL /\ playback = "none" /\ decoders # "none" /\ buffers
    /\ main \in Round \cup {"ungap", "fault"} => Full \/ Empty
    /\ main = "ended" => Empty

\* The playback thread ends only in alsa_stop.
StopFlag == /\ out # NULL /\ main \notin {"signal", "join"} => out.stop_flag = 0
            /\ playback = "ended" => main \in {"signal", "join"}

\* What is set up shows in the state: stop_adec finds it.
StateShows ==
    /\ out # NULL /\ ~Releasing => state \in Working
    /\ main = "reopen" => state \in Working
    /\ Releasing => state \in {"STOPPED", "GAPPING"}
    /\ main \in {"init", "output"} => state \in {"IDLE", "INITING"}
    /\ main \in Round \cup {"release"} /\ out = NULL =>
          state \in {"IDLE", "INITING", "STOPPED", "GAPPING"}
    /\ main = "get" /\ out = NULL => state # "GAPPING"

\* STOP is sent after every command and RELEASE after STOP, and neither is pushed out.
QueueShape ==
    /\ client \in {"open", "stopping"} => \A i \in 1 .. Len(queue) : queue[i] \in Command
    /\ client = "releasing" => \A i \in 1 .. Len(queue) :
          IF i = Len(queue) THEN queue[i] = "STOP" ELSE queue[i] \in Command
    /\ client \in {"joining", "done"} => \A i \in 1 .. Len(queue) :
          IF i = Len(queue) THEN queue[i] = "RELEASE"
          ELSE IF i = Len(queue) - 1 THEN queue[i] = "STOP" ELSE queue[i] \in Command

\* The main thread has taken STOP.
Taken == \/ client = "releasing" /\ queue = <<>>
         \/ client \in {"joining", "done"} /\ Len(queue) <= 1

\* Once STOP is taken, stop_adec is under way or has released everything.
StopReleases ==
    /\ Taken => Releasing \/ main = "release" \/ (main \notin {"init", "output"} /\ Empty)
    /\ client = "done" => main = "ended"

\* The invariant behind every theorem of this module.
AudioInv == TypeOK /\ Resources /\ StopFlag /\ StateShows /\ QueueShape /\ StopReleases

-----------------------------------------------------------------------------
(* The message pool. *)

\* What adec_get_message leaves behind.
LEMMA TailShape ==
  ASSUME NEW S, NEW q \in Seq(S), q # <<>>
  PROVE  /\ Len(q) \in Nat \ {0}
         /\ Head(q) = q[1] /\ q[1] \in S
         /\ Tail(q) \in Seq(S)
         /\ Len(Tail(q)) = Len(q) - 1
         /\ \A i \in 1 .. Len(q) - 1 : Tail(q)[i] = q[i + 1]
  OBVIOUS

\* What adec_send_message leaves behind: the new message is the last, and the others are
\* the last of those before, in their order.
LEMMA SendShape ==
  ASSUME NEW S, queue \in Seq(S), Len(queue) <= MessageMax, NEW m \in S, Send(m)
  PROVE  /\ queue' \in Seq(S)
         /\ Len(queue') = IF Len(queue) = MessageMax THEN MessageMax ELSE Len(queue) + 1
         /\ queue'[Len(queue')] = m
         /\ \A i \in 1 .. Len(queue') - 1 :
               queue'[i] = queue[i + (Len(queue) + 1 - Len(queue'))]
<1> MessageMax \in Nat \ {0, 1}
  BY AudioAssumption
<1>1. CASE Len(queue) = MessageMax
  <2>1. queue # <<>>
    BY <1>1
  <2>2. queue' = Append(Tail(queue), m)
    BY <1>1 DEF Send
  <2>3. /\ Tail(queue) \in Seq(S) /\ Len(Tail(queue)) = MessageMax - 1
        /\ \A i \in 1 .. MessageMax - 1 : Tail(queue)[i] = queue[i + 1]
    BY <1>1, <2>1, TailShape
  <2> DEFINE t == Tail(queue)
  <2>4. /\ Append(t, m) \in Seq(S) /\ Len(Append(t, m)) = Len(t) + 1
        /\ Append(t, m)[Len(t) + 1] = m
        /\ \A i \in 1 .. Len(t) : Append(t, m)[i] = t[i]
    <3> HIDE DEF t
    <3>1. t \in Seq(S)
      BY <2>3 DEF t
    <3> QED BY <3>1
  <2> QED BY <1>1, <2>2, <2>3, <2>4
<1>2. CASE Len(queue) # MessageMax
  <2>1. queue' = Append(queue, m)
    BY <1>2 DEF Send
  <2>2. /\ queue' \in Seq(S) /\ Len(queue') = Len(queue) + 1
        /\ queue'[Len(queue) + 1] = m
        /\ \A i \in 1 .. Len(queue) : queue'[i] = queue[i]
    BY <2>1
  <2> QED BY <1>2, <2>2
<1> QED BY <1>1, <1>2

-----------------------------------------------------------------------------
(* The main thread. *)

\* Every step of the main thread but the message it takes.
LEMMA MainKeeps ==
  ASSUME AudioInv, Main, ~GetMessage
  PROVE  AudioInv'
<1>1. CASE InitCodec
  <2>1. TypeOK'
    <3>1. buffers' \in BOOLEAN
      BY <1>1 DEF AudioInv, TypeOK, InitCodec
    <3> QED BY <1>1, <3>1 DEF AudioInv, TypeOK, InitCodec, State, MainAt, PlaybackAt
  <2>2. Resources'
    BY <1>1, AudioAssumption DEF AudioInv, TypeOK, Resources, Full, Empty, Round, InitCodec,
       AlsaParam, StopFlag, StateShows, Working, Releasing
  <2>3. StopFlag'
    BY <1>1, AudioAssumption DEF AudioInv, TypeOK, StopFlag, Resources, Full, Empty, Round,
       InitCodec, AlsaParam
  <2>4. StateShows'
    BY <1>1, AudioAssumption DEF AudioInv, TypeOK, StateShows, Resources, Full, Empty,
       Round, Releasing, Working, Initialised, InitCodec, AlsaParam
  <2>5. QueueShape'
    BY <1>1 DEF AudioInv, QueueShape, InitCodec
  <2>6. StopReleases'
    BY <1>1, AudioAssumption DEF AudioInv, StopReleases, Taken, Releasing, Resources,
       StateShows, Working, Full, Empty, Round, InitCodec
  <2> QED BY <2>1, <2>2, <2>3, <2>4, <2>5, <2>6 DEF AudioInv
<1>2. CASE GiveUp
  <2>1. TypeOK'
    BY <1>2, AudioAssumption DEF AudioInv, TypeOK, GiveUp, AlsaParam, State, MainAt,
       PlaybackAt
  <2>2. Resources'
    BY <1>2, AudioAssumption DEF AudioInv, TypeOK, Resources, Full, Empty, Round, GiveUp,
       AlsaParam, StopFlag, StateShows, Working, Releasing
  <2>3. StopFlag'
    BY <1>2, AudioAssumption DEF AudioInv, TypeOK, StopFlag, Resources, Full, Empty, Round,
       GiveUp, AlsaParam
  <2>4. StateShows'
    BY <1>2, AudioAssumption DEF AudioInv, TypeOK, StateShows, Resources, Full, Empty,
       Round, Releasing, Working, Initialised, GiveUp, AlsaParam
  <2>5. QueueShape'
    BY <1>2 DEF AudioInv, QueueShape, GiveUp
  <2>6. StopReleases'
    BY <1>2, AudioAssumption DEF AudioInv, StopReleases, Taken, Releasing, Resources,
       StateShows, Working, Full, Empty, Round, GiveUp
  <2> QED BY <2>1, <2>2, <2>3, <2>4, <2>5, <2>6 DEF AudioInv
<1>3. CASE StartDecode
  <2>1. TypeOK'
    BY <1>3, AudioAssumption DEF AudioInv, TypeOK, StartDecode, OpenOutput, AlsaParam,
       State, MainAt, PlaybackAt
  <2>2. Resources'
    BY <1>3, AudioAssumption DEF AudioInv, TypeOK, Resources, Full, Empty, Round,
       StartDecode, OpenOutput, AlsaParam, StopFlag, StateShows, Working, Releasing
  <2>3. StopFlag'
    BY <1>3, AudioAssumption DEF AudioInv, TypeOK, StopFlag, Resources, Full, Empty, Round,
       StartDecode, OpenOutput, AlsaParam
  <2>4. StateShows'
    BY <1>3, AudioAssumption DEF AudioInv, TypeOK, StateShows, Resources, Full, Empty,
       Round, Releasing, Working, Initialised, StartDecode, OpenOutput, AlsaParam
  <2>5. QueueShape'
    BY <1>3 DEF AudioInv, QueueShape, StartDecode
  <2>6. StopReleases'
    BY <1>3, AudioAssumption DEF AudioInv, StopReleases, Taken, Releasing, Resources,
       StateShows, Working, Full, Empty, Round, StartDecode, OpenOutput
  <2> QED BY <2>1, <2>2, <2>3, <2>4, <2>5, <2>6 DEF AudioInv
<1>4. CASE FirstPts
  <2>1. TypeOK'
    BY <1>4, AudioAssumption DEF AudioInv, TypeOK, FirstPts, AlsaParam, State, MainAt,
       PlaybackAt
  <2>2. Resources'
    BY <1>4, AudioAssumption DEF AudioInv, TypeOK, Resources, Full, Empty, Round, FirstPts,
       AlsaParam, StopFlag, StateShows, Working, Releasing
  <2>3. StopFlag'
    BY <1>4, AudioAssumption DEF AudioInv, TypeOK, StopFlag, Resources, Full, Empty, Round,
       FirstPts, AlsaParam
  <2>4. StateShows'
    BY <1>4, AudioAssumption DEF AudioInv, TypeOK, StateShows, Resources, Full, Empty,
       Round, Releasing, Working, Initialised, FirstPts, AlsaParam
  <2>5. QueueShape'
    BY <1>4 DEF AudioInv, QueueShape, FirstPts
  <2>6. StopReleases'
    BY <1>4, AudioAssumption DEF AudioInv, StopReleases, Taken, Releasing, Resources,
       StateShows, Working, Full, Empty, Round, FirstPts
  <2> QED BY <2>1, <2>2, <2>3, <2>4, <2>5, <2>6 DEF AudioInv
<1>5. CASE NoVpts
  <2>1. TypeOK'
    BY <1>5, AudioAssumption DEF AudioInv, TypeOK, NoVpts, AlsaParam, State, MainAt,
       PlaybackAt
  <2>2. Resources'
    BY <1>5, AudioAssumption DEF AudioInv, TypeOK, Resources, Full, Empty, Round, NoVpts,
       AlsaParam, StopFlag, StateShows, Working, Releasing
  <2>3. StopFlag'
    BY <1>5, AudioAssumption DEF AudioInv, TypeOK, StopFlag, Resources, Full, Empty, Round,
       NoVpts, AlsaParam
  <2>4. StateShows'
    BY <1>5, AudioAssumption DEF AudioInv, TypeOK, StateShows, Resources, Full, Empty,
       Round, Releasing, Working, Initialised, NoVpts, AlsaParam
  <2>5. QueueShape'
    BY <1>5 DEF AudioInv, QueueShape, NoVpts
  <2>6. StopReleases'
    BY <1>5, AudioAssumption DEF AudioInv, StopReleases, Taken, Releasing, Resources,
       StateShows, Working, Full, Empty, Round, NoVpts
  <2> QED BY <2>1, <2>2, <2>3, <2>4, <2>5, <2>6 DEF AudioInv
<1>6. CASE Due
  <2>1. TypeOK'
    <3>1. auto_mute' \in BOOLEAN
      BY <1>6 DEF AudioInv, TypeOK, Due
    <3> QED BY <1>6, <3>1 DEF AudioInv, TypeOK, Due, State, MainAt, PlaybackAt
  <2>2. Resources'
    BY <1>6, AudioAssumption DEF AudioInv, TypeOK, Resources, Full, Empty, Round, Due,
       AlsaParam, StopFlag, StateShows, Working, Releasing
  <2>3. StopFlag'
    BY <1>6, AudioAssumption DEF AudioInv, TypeOK, StopFlag, Resources, Full, Empty, Round,
       Due, AlsaParam
  <2>4. StateShows'
    BY <1>6, AudioAssumption DEF AudioInv, TypeOK, StateShows, Resources, Full, Empty,
       Round, Releasing, Working, Initialised, Due, AlsaParam
  <2>5. QueueShape'
    BY <1>6 DEF AudioInv, QueueShape, Due
  <2>6. StopReleases'
    BY <1>6, AudioAssumption DEF AudioInv, StopReleases, Taken, Releasing, Resources,
       StateShows, Working, Full, Empty, Round, Due
  <2> QED BY <2>1, <2>2, <2>3, <2>4, <2>5, <2>6 DEF AudioInv
<1>7. CASE Begin
  <2>1. TypeOK'
    <3>1. out' \in AlsaParam \cup {NULL}
      BY <1>7, AudioAssumption DEF AudioInv, TypeOK, Resources, Full, Begin, StartOutput,
         Signal, AlsaParam
    <3>2. playback' \in PlaybackAt
      BY <1>7 DEF AudioInv, TypeOK, Begin, StartOutput, Signal, PlaybackAt
    <3> QED BY <1>7, <3>1, <3>2 DEF AudioInv, TypeOK, Begin, State, MainAt
  <2>2. Resources'
    BY <1>7, AudioAssumption DEF AudioInv, TypeOK, Resources, Full, Empty, Round, Begin,
       StartOutput, Signal, AlsaParam, StopFlag, StateShows, Working, Releasing
  <2>3. StopFlag'
    BY <1>7, AudioAssumption DEF AudioInv, TypeOK, StopFlag, Resources, Full, Empty, Round,
       Begin, StartOutput, Signal, AlsaParam
  <2>4. StateShows'
    BY <1>7, AudioAssumption DEF AudioInv, TypeOK, StateShows, Resources, Full, Empty,
       Round, Releasing, Working, Initialised, Begin, StartOutput, Signal, AlsaParam
  <2>5. QueueShape'
    BY <1>7 DEF AudioInv, QueueShape, Begin
  <2>6. StopReleases'
    BY <1>7, AudioAssumption DEF AudioInv, StopReleases, Taken, Releasing, Resources,
       StateShows, Working, Full, Empty, Round, Begin, StartOutput, Signal
  <2> QED BY <2>1, <2>2, <2>3, <2>4, <2>5, <2>6 DEF AudioInv
<1>8. CASE Fault
  <2>1. TypeOK'
    BY <1>8, AudioAssumption DEF AudioInv, TypeOK, Fault, AlsaParam, State, MainAt,
       PlaybackAt
  <2>2. Resources'
    BY <1>8, AudioAssumption DEF AudioInv, TypeOK, Resources, Full, Empty, Round, Fault,
       AlsaParam, StopFlag, StateShows, Working, Releasing
  <2>3. StopFlag'
    BY <1>8, AudioAssumption DEF AudioInv, TypeOK, StopFlag, Resources, Full, Empty, Round,
       Fault, AlsaParam
  <2>4. StateShows'
    BY <1>8, AudioAssumption DEF AudioInv, TypeOK, StateShows, Resources, Full, Empty,
       Round, Releasing, Working, Initialised, Fault, AlsaParam
  <2>5. QueueShape'
    BY <1>8 DEF AudioInv, QueueShape, Fault
  <2>6. StopReleases'
    BY <1>8, AudioAssumption DEF AudioInv, StopReleases, Taken, Releasing, Resources,
       StateShows, Working, Full, Empty, Round, Fault
  <2> QED BY <2>1, <2>2, <2>3, <2>4, <2>5, <2>6 DEF AudioInv
<1>9. CASE Reset
  <2>1. TypeOK'
    BY <1>9, AudioAssumption DEF AudioInv, TypeOK, Reset, AlsaParam, State, MainAt,
       PlaybackAt
  <2>2. Resources'
    BY <1>9, AudioAssumption DEF AudioInv, TypeOK, Resources, Full, Empty, Round, Reset,
       AlsaParam, StopFlag, StateShows, Working, Releasing
  <2>3. StopFlag'
    BY <1>9, AudioAssumption DEF AudioInv, TypeOK, StopFlag, Resources, Full, Empty, Round,
       Reset, AlsaParam
  <2>4. StateShows'
    BY <1>9, AudioAssumption DEF AudioInv, TypeOK, StateShows, Resources, Full, Empty,
       Round, Releasing, Working, Initialised, Reset, AlsaParam
  <2>5. QueueShape'
    BY <1>9 DEF AudioInv, QueueShape, Reset
  <2>6. StopReleases'
    BY <1>9, AudioAssumption DEF AudioInv, StopReleases, Taken, Releasing, Resources,
       StateShows, Working, Full, Empty, Round, Reset
  <2> QED BY <2>1, <2>2, <2>3, <2>4, <2>5, <2>6 DEF AudioInv
<1>10. CASE SetStop
  <2>1. TypeOK'
    <3>1. out' \in AlsaParam \cup {NULL}
      BY <1>10, AudioAssumption DEF AudioInv, TypeOK, Resources, Full, SetStop, StopOutput,
         AlsaParam
    <3> QED BY <1>10, <3>1 DEF AudioInv, TypeOK, SetStop, State, MainAt, PlaybackAt
  <2>2. Resources'
    BY <1>10, AudioAssumption DEF AudioInv, TypeOK, Resources, Full, Empty, Round, SetStop,
       StopOutput, AlsaParam, StopFlag, StateShows, Working, Releasing
  <2>3. StopFlag'
    BY <1>10, AudioAssumption DEF AudioInv, TypeOK, StopFlag, Resources, Full, Empty, Round,
       SetStop, StopOutput, AlsaParam
  <2>4. StateShows'
    BY <1>10, AudioAssumption DEF AudioInv, TypeOK, StateShows, Resources, Full, Empty,
       Round, Releasing, Working, Initialised, SetStop, StopOutput, AlsaParam
  <2>5. QueueShape'
    BY <1>10 DEF AudioInv, QueueShape, SetStop
  <2>6. StopReleases'
    BY <1>10, AudioAssumption DEF AudioInv, StopReleases, Taken, Releasing, Resources,
       StateShows, Working, Full, Empty, Round, SetStop, StopOutput
  <2> QED BY <2>1, <2>2, <2>3, <2>4, <2>5, <2>6 DEF AudioInv
<1>11. CASE SignalStop
  <2>1. TypeOK'
    BY <1>11, AudioAssumption DEF AudioInv, TypeOK, SignalStop, Signal, AlsaParam, State,
       MainAt, PlaybackAt
  <2>2. Resources'
    BY <1>11, AudioAssumption DEF AudioInv, TypeOK, Resources, Full, Empty, Round,
       SignalStop, Signal, AlsaParam, StopFlag, StateShows, Working, Releasing
  <2>3. StopFlag'
    BY <1>11, AudioAssumption DEF AudioInv, TypeOK, StopFlag, Resources, Full, Empty, Round,
       SignalStop, Signal, AlsaParam
  <2>4. StateShows'
    BY <1>11, AudioAssumption DEF AudioInv, TypeOK, StateShows, Resources, Full, Empty,
       Round, Releasing, Working, Initialised, SignalStop, Signal, AlsaParam
  <2>5. QueueShape'
    BY <1>11 DEF AudioInv, QueueShape, SignalStop
  <2>6. StopReleases'
    BY <1>11, AudioAssumption DEF AudioInv, StopReleases, Taken, Releasing, Resources,
       StateShows, Working, Full, Empty, Round, SignalStop, Signal
  <2> QED BY <2>1, <2>2, <2>3, <2>4, <2>5, <2>6 DEF AudioInv
<1>12. CASE FreeOutput
  <2>1. TypeOK'
    BY <1>12, AudioAssumption DEF AudioInv, TypeOK, FreeOutput, AlsaParam, State, MainAt,
       PlaybackAt
  <2>2. Resources'
    BY <1>12, AudioAssumption DEF AudioInv, TypeOK, Resources, Full, Empty, Round,
       FreeOutput, AlsaParam, StopFlag, StateShows, Working, Releasing
  <2>3. StopFlag'
    BY <1>12, AudioAssumption DEF AudioInv, TypeOK, StopFlag, Resources, Full, Empty, Round,
       FreeOutput, AlsaParam
  <2>4. StateShows'
    BY <1>12, AudioAssumption DEF AudioInv, TypeOK, StateShows, Resources, Full, Empty,
       Round, Releasing, Working, Initialised, FreeOutput, AlsaParam
  <2>5. QueueShape'
    BY <1>12 DEF AudioInv, QueueShape, FreeOutput
  <2>6. StopReleases'
    BY <1>12, AudioAssumption DEF AudioInv, StopReleases, Taken, Releasing, Resources,
       StateShows, Working, Full, Empty, Round, FreeOutput
  <2> QED BY <2>1, <2>2, <2>3, <2>4, <2>5, <2>6 DEF AudioInv
<1>13. CASE Reopen
  <2>1. TypeOK'
    <3>1. out' \in AlsaParam \cup {NULL}
      BY <1>13, AudioAssumption DEF AudioInv, TypeOK, Resources, Full, Reopen, OpenOutput,
         AlsaParam
    <3>2. changed' \in BOOLEAN
      BY <1>13 DEF AudioInv, TypeOK, Reopen
    <3> QED BY <1>13, <3>1, <3>2 DEF AudioInv, TypeOK, Reopen, OpenOutput, State, MainAt,
               PlaybackAt
  <2>2. Resources'
    BY <1>13, AudioAssumption DEF AudioInv, TypeOK, Resources, Full, Empty, Round, Reopen,
       OpenOutput, AlsaParam, StopFlag, StateShows, Working, Releasing
  <2>3. StopFlag'
    BY <1>13, AudioAssumption DEF AudioInv, TypeOK, StopFlag, Resources, Full, Empty, Round,
       Reopen, OpenOutput, AlsaParam
  <2>4. StateShows'
    BY <1>13, AudioAssumption DEF AudioInv, TypeOK, StateShows, Resources, Full, Empty,
       Round, Releasing, Working, Initialised, Reopen, OpenOutput, AlsaParam
  <2>5. QueueShape'
    BY <1>13 DEF AudioInv, QueueShape, Reopen
  <2>6. StopReleases'
    BY <1>13, AudioAssumption DEF AudioInv, StopReleases, Taken, Releasing, Resources,
       StateShows, Working, Full, Empty, Round, Reopen, OpenOutput
  <2> QED BY <2>1, <2>2, <2>3, <2>4, <2>5, <2>6 DEF AudioInv
<1>14. CASE Restart
  <2>1. TypeOK'
    <3>1. out' \in AlsaParam \cup {NULL}
      BY <1>14, AudioAssumption DEF AudioInv, TypeOK, Resources, Full, Restart,
         RestartOutput, Signal, AlsaParam
    <3>2. changed' \in BOOLEAN
      BY <1>14 DEF AudioInv, TypeOK, Restart
    <3>3. playback' \in PlaybackAt
      BY <1>14 DEF AudioInv, TypeOK, Restart, RestartOutput, Signal, PlaybackAt
    <3> QED BY <1>14, <3>1, <3>2, <3>3 DEF AudioInv, TypeOK, Restart, State, MainAt
  <2>2. Resources'
    BY <1>14, AudioAssumption DEF AudioInv, TypeOK, Resources, Full, Empty, Round, Restart,
       RestartOutput, Signal, AlsaParam, StopFlag, StateShows, Working, Releasing
  <2>3. StopFlag'
    BY <1>14, AudioAssumption DEF AudioInv, TypeOK, StopFlag, Resources, Full, Empty, Round,
       Restart, RestartOutput, Signal, AlsaParam
  <2>4. StateShows'
    BY <1>14, AudioAssumption DEF AudioInv, TypeOK, StateShows, Resources, Full, Empty,
       Round, Releasing, Working, Initialised, Restart, RestartOutput, Signal, AlsaParam
  <2>5. QueueShape'
    BY <1>14 DEF AudioInv, QueueShape, Restart
  <2>6. StopReleases'
    BY <1>14, AudioAssumption DEF AudioInv, StopReleases, Taken, Releasing, Resources,
       StateShows, Working, Full, Empty, Round, Restart, RestartOutput, Signal
  <2> QED BY <2>1, <2>2, <2>3, <2>4, <2>5, <2>6 DEF AudioInv
<1>15. CASE Mute
  <2>1. TypeOK'
    BY <1>15, AudioAssumption DEF AudioInv, TypeOK, Mute, SetPause, AlsaParam, State,
       MainAt, PlaybackAt
  <2>2. Resources'
    BY <1>15, AudioAssumption DEF AudioInv, TypeOK, Resources, Full, Empty, Round, Mute,
       SetPause, AlsaParam, StopFlag, StateShows, Working, Releasing
  <2>3. StopFlag'
    BY <1>15, AudioAssumption DEF AudioInv, TypeOK, StopFlag, Resources, Full, Empty, Round,
       Mute, SetPause, AlsaParam
  <2>4. StateShows'
    BY <1>15, AudioAssumption DEF AudioInv, TypeOK, StateShows, Resources, Full, Empty,
       Round, Releasing, Working, Initialised, Mute, SetPause, AlsaParam
  <2>5. QueueShape'
    BY <1>15 DEF AudioInv, QueueShape, Mute
  <2>6. StopReleases'
    BY <1>15, AudioAssumption DEF AudioInv, StopReleases, Taken, Releasing, Resources,
       StateShows, Working, Full, Empty, Round, Mute, SetPause
  <2> QED BY <2>1, <2>2, <2>3, <2>4, <2>5, <2>6 DEF AudioInv
<1>16. CASE Unmute
  <2>1. TypeOK'
    <3>1. out' \in AlsaParam \cup {NULL}
      BY <1>16, AudioAssumption DEF AudioInv, TypeOK, Resources, Full, Unmute, SetPause,
         AlsaParam
    <3>2. auto_mute' \in BOOLEAN
      BY <1>16 DEF AudioInv, TypeOK, Unmute
    <3> QED BY <1>16, <3>1, <3>2 DEF AudioInv, TypeOK, Unmute, State, MainAt, PlaybackAt
  <2>2. Resources'
    BY <1>16, AudioAssumption DEF AudioInv, TypeOK, Resources, Full, Empty, Round, Unmute,
       SetPause, AlsaParam, StopFlag, StateShows, Working, Releasing
  <2>3. StopFlag'
    BY <1>16, AudioAssumption DEF AudioInv, TypeOK, StopFlag, Resources, Full, Empty, Round,
       Unmute, SetPause, AlsaParam
  <2>4. StateShows'
    BY <1>16, AudioAssumption DEF AudioInv, TypeOK, StateShows, Resources, Full, Empty,
       Round, Releasing, Working, Initialised, Unmute, SetPause, AlsaParam
  <2>5. QueueShape'
    BY <1>16 DEF AudioInv, QueueShape, Unmute
  <2>6. StopReleases'
    BY <1>16, AudioAssumption DEF AudioInv, StopReleases, Taken, Releasing, Resources,
       StateShows, Working, Full, Empty, Round, Unmute, SetPause
  <2> QED BY <2>1, <2>2, <2>3, <2>4, <2>5, <2>6 DEF AudioInv
<1>17. CASE Gap
  <2>1. TypeOK'
    BY <1>17, AudioAssumption DEF AudioInv, TypeOK, Gap, AlsaParam, State, MainAt,
       PlaybackAt
  <2>2. Resources'
    BY <1>17, AudioAssumption DEF AudioInv, TypeOK, Resources, Full, Empty, Round, Gap,
       AlsaParam, StopFlag, StateShows, Working, Releasing
  <2>3. StopFlag'
    BY <1>17, AudioAssumption DEF AudioInv, TypeOK, StopFlag, Resources, Full, Empty, Round,
       Gap, AlsaParam
  <2>4. StateShows'
    BY <1>17, AudioAssumption DEF AudioInv, TypeOK, StateShows, Resources, Full, Empty,
       Round, Releasing, Working, Initialised, Gap, AlsaParam
  <2>5. QueueShape'
    BY <1>17 DEF AudioInv, QueueShape, Gap
  <2>6. StopReleases'
    BY <1>17, AudioAssumption DEF AudioInv, StopReleases, Taken, Releasing, Resources,
       StateShows, Working, Full, Empty, Round, Gap
  <2> QED BY <2>1, <2>2, <2>3, <2>4, <2>5, <2>6 DEF AudioInv
<1>18. CASE Ungap
  <2>1. TypeOK'
    <3>1. out' \in AlsaParam \cup {NULL}
      BY <1>18, AudioAssumption DEF AudioInv, TypeOK, Resources, Full, Ungap, SetPause,
         AlsaParam
    <3>2. auto_mute' \in BOOLEAN
      BY <1>18 DEF AudioInv, TypeOK, Ungap
    <3> QED BY <1>18, <3>1, <3>2 DEF AudioInv, TypeOK, Ungap, State, MainAt, PlaybackAt
  <2>2. Resources'
    BY <1>18, AudioAssumption DEF AudioInv, TypeOK, Resources, Full, Empty, Round, Ungap,
       SetPause, AlsaParam, StopFlag, StateShows, Working, Releasing
  <2>3. StopFlag'
    BY <1>18, AudioAssumption DEF AudioInv, TypeOK, StopFlag, Resources, Full, Empty, Round,
       Ungap, SetPause, AlsaParam
  <2>4. StateShows'
    BY <1>18, AudioAssumption DEF AudioInv, TypeOK, StateShows, Resources, Full, Empty,
       Round, Releasing, Working, Initialised, Ungap, SetPause, AlsaParam
  <2>5. QueueShape'
    BY <1>18 DEF AudioInv, QueueShape, Ungap
  <2>6. StopReleases'
    BY <1>18, AudioAssumption DEF AudioInv, StopReleases, Taken, Releasing, Resources,
       StateShows, Working, Full, Empty, Round, Ungap, SetPause
  <2> QED BY <2>1, <2>2, <2>3, <2>4, <2>5, <2>6 DEF AudioInv
<1>19. CASE NoMessage
  <2>1. TypeOK'
    BY <1>19, AudioAssumption DEF AudioInv, TypeOK, NoMessage, AlsaParam, State, MainAt,
       PlaybackAt
  <2>2. Resources'
    BY <1>19, AudioAssumption DEF AudioInv, TypeOK, Resources, Full, Empty, Round,
       NoMessage, AlsaParam, StopFlag, StateShows, Working, Releasing
  <2>3. StopFlag'
    BY <1>19, AudioAssumption DEF AudioInv, TypeOK, StopFlag, Resources, Full, Empty, Round,
       NoMessage, AlsaParam
  <2>4. StateShows'
    BY <1>19, AudioAssumption DEF AudioInv, TypeOK, StateShows, Resources, Full, Empty,
       Round, Releasing, Working, Initialised, NoMessage, AlsaParam
  <2>5. QueueShape'
    BY <1>19 DEF AudioInv, QueueShape, NoMessage
  <2>6. StopReleases'
    BY <1>19, AudioAssumption DEF AudioInv, StopReleases, Taken, Releasing, Resources,
       StateShows, Working, Full, Empty, Round, NoMessage
  <2> QED BY <2>1, <2>2, <2>3, <2>4, <2>5, <2>6 DEF AudioInv
<1>20. CASE ReleaseCodec
  <2>1. TypeOK'
    <3>1. buffers' \in BOOLEAN
      BY <1>20 DEF AudioInv, TypeOK, ReleaseCodec
    <3> QED BY <1>20, <3>1 DEF AudioInv, TypeOK, ReleaseCodec, State, MainAt, PlaybackAt
  <2>2. Resources'
    BY <1>20, AudioAssumption DEF AudioInv, TypeOK, Resources, Full, Empty, Round,
       ReleaseCodec, AlsaParam, StopFlag, StateShows, Working, Releasing
  <2>3. StopFlag'
    BY <1>20, AudioAssumption DEF AudioInv, TypeOK, StopFlag, Resources, Full, Empty, Round,
       ReleaseCodec, AlsaParam
  <2>4. StateShows'
    BY <1>20, AudioAssumption DEF AudioInv, TypeOK, StateShows, Resources, Full, Empty,
       Round, Releasing, Working, Initialised, ReleaseCodec, AlsaParam
  <2>5. QueueShape'
    BY <1>20 DEF AudioInv, QueueShape, ReleaseCodec
  <2>6. StopReleases'
    BY <1>20, AudioAssumption DEF AudioInv, StopReleases, Taken, Releasing, Resources,
       StateShows, Working, Full, Empty, Round, ReleaseCodec
  <2> QED BY <2>1, <2>2, <2>3, <2>4, <2>5, <2>6 DEF AudioInv
<1>21. CASE Unpause
  <2>1. TypeOK'
    <3>1. out' \in AlsaParam \cup {NULL}
      BY <1>21, AudioAssumption DEF AudioInv, TypeOK, Resources, Full, Unpause, SetPause,
         AlsaParam
    <3> QED BY <1>21, <3>1 DEF AudioInv, TypeOK, Unpause, State, MainAt, PlaybackAt
  <2>2. Resources'
    BY <1>21, AudioAssumption DEF AudioInv, TypeOK, Resources, Full, Empty, Round, Unpause,
       SetPause, AlsaParam, StopFlag, StateShows, Working, Releasing
  <2>3. StopFlag'
    BY <1>21, AudioAssumption DEF AudioInv, TypeOK, StopFlag, Resources, Full, Empty, Round,
       Unpause, SetPause, AlsaParam
  <2>4. StateShows'
    BY <1>21, AudioAssumption DEF AudioInv, TypeOK, StateShows, Resources, Full, Empty,
       Round, Releasing, Working, Initialised, Unpause, SetPause, AlsaParam
  <2>5. QueueShape'
    BY <1>21 DEF AudioInv, QueueShape, Unpause
  <2>6. StopReleases'
    BY <1>21, AudioAssumption DEF AudioInv, StopReleases, Taken, Releasing, Resources,
       StateShows, Working, Full, Empty, Round, Unpause, SetPause
  <2> QED BY <2>1, <2>2, <2>3, <2>4, <2>5, <2>6 DEF AudioInv
<1> QED BY <1>1, <1>2, <1>3, <1>4, <1>5, <1>6, <1>7, <1>8, <1>9, <1>10, <1>11, <1>12, <1>13,
           <1>14, <1>15, <1>16, <1>17, <1>18, <1>19, <1>20, <1>21 DEF Main

\* A message taken from the pool.
LEMMA GetKeeps ==
  ASSUME AudioInv, GetMessage
  PROVE  AudioInv'
<1> DEFINE S == Command \cup {"STOP", "RELEASE"}
<1>1. /\ main = "get" /\ queue # <<>> /\ queue' = Tail(queue)
      /\ UNCHANGED <<need_stop, auto_mute, changed, playback, decoders, buffers, client>>
  BY DEF GetMessage
<1>2. /\ Len(queue) \in Nat \ {0}
      /\ Head(queue) = queue[1] /\ queue[1] \in S
      /\ queue' \in Seq(S)
      /\ Len(queue') = Len(queue) - 1
      /\ \A i \in 1 .. Len(queue) - 1 : queue'[i] = queue[i + 1]
  BY <1>1, TailShape DEF AudioInv, TypeOK
<1>3. Len(queue') <= MessageMax
  BY <1>2, AudioAssumption DEF AudioInv, TypeOK
<1>4. QueueShape'
  <2>0. client' = client
    BY <1>1
  <2> SUFFICES ASSUME NEW i \in 1 .. Len(queue')
               PROVE  /\ client \in {"open", "stopping"} => queue'[i] \in Command
                      /\ client = "releasing" =>
                            IF i = Len(queue') THEN queue'[i] = "STOP" ELSE queue'[i] \in Command
                      /\ client \in {"joining", "done"} =>
                            IF i = Len(queue') THEN queue'[i] = "RELEASE"
                            ELSE IF i = Len(queue') - 1 THEN queue'[i] = "STOP"
                                 ELSE queue'[i] \in Command
    BY <2>0 DEF QueueShape
  <2>4. /\ i \in Nat /\ i + 1 \in 1 .. Len(queue)
        /\ queue'[i] = queue[i + 1]
        /\ i + 1 = Len(queue) <=> i = Len(queue')
        /\ i + 1 = Len(queue) - 1 <=> i = Len(queue') - 1
    BY <1>2
  <2>1. CASE client \in {"open", "stopping"}
    BY <2>1, <2>4 DEF AudioInv, QueueShape
  <2>2. CASE client = "releasing"
    BY <2>2, <2>4 DEF AudioInv, QueueShape
  <2>3. CASE client \in {"joining", "done"}
    BY <2>3, <2>4 DEF AudioInv, QueueShape
  <2> QED BY <2>1, <2>2, <2>3
<1>5. Command \subseteq {"PAUSE", "RESUME", "SET_VOL"}
  BY AudioAssumption DEF Kind
<1>6. CASE Head(queue) \in Kind /\ PauseOrResume(Head(queue))
  <2> DEFINE m == Head(queue)
  <2>1. PauseOrResume(m)
    BY <1>6
  <2> HIDE DEF m
  <2>2. main' = "loop" /\ then' = then
    BY <2>1 DEF PauseOrResume
  <2>3. \/ state' = state /\ out' = out
        \/ state = "ACTIVE" /\ state' = "PAUSED" /\ out' = [out EXCEPT !.pause_flag = 1]
        \/ state = "PAUSED" /\ state' = "ACTIVE" /\ out' = [out EXCEPT !.pause_flag = 0]
    BY <2>1 DEF PauseOrResume, SetPause
  <2>4. out' # out => out \in AlsaParam
    BY <1>1, <2>3 DEF AudioInv, TypeOK, StateShows, Round
  <2>5. /\ out' \in AlsaParam \cup {NULL}
        /\ out' = NULL <=> out = NULL
        /\ out # NULL => out'.stop_flag = out.stop_flag
    BY <2>3, <2>4, AudioAssumption DEF AudioInv, TypeOK, AlsaParam
  <2>6. TypeOK'
    BY <1>1, <1>2, <1>3, <2>2, <2>3, <2>5 DEF AudioInv, TypeOK, State, MainAt
  <2>7. Resources' /\ StopFlag'
    BY <1>1, <2>2, <2>5 DEF AudioInv, Resources, StopFlag, Full, Empty, Round
  <2>8. StateShows'
    BY <1>1, <2>2, <2>3, <2>5 DEF AudioInv, StateShows, Working, Releasing, Round
  <2>9. Taken' => Taken
    <3>1. queue[1] \notin {"STOP", "RELEASE"}
      BY <1>2, <1>6 DEF Kind
    <3>2. CASE client = "releasing" /\ Len(queue) = 1
      BY <1>2, <3>1, <3>2 DEF AudioInv, QueueShape
    <3>3. CASE client \in {"joining", "done"} /\ Len(queue) = 2
      BY <1>2, <3>1, <3>3 DEF AudioInv, QueueShape
    <3>4. Taken' => \/ client = "releasing" /\ Len(queue) = 1
                    \/ client \in {"joining", "done"} /\ Len(queue) <= 2
      <4>1. queue' = <<>> => Len(queue') = 0
        OBVIOUS
      <4> QED BY <1>1, <1>2, <4>1 DEF Taken
    <3> QED BY <1>2, <3>2, <3>3, <3>4 DEF Taken
  <2>10. StopReleases'
    BY <1>1, <2>2, <2>5, <2>9 DEF AudioInv, StopReleases, Resources, Releasing, Full, Empty,
       Round
  <2> QED BY <1>4, <2>6, <2>7, <2>8, <2>10 DEF AudioInv
<1>7. CASE Head(queue) = "STOP" /\ Stop
  <2>1. out' = out
    BY <1>7 DEF Stop
  <2>2. CASE state \in Initialised
    <3>1. state' = "STOPPED" /\ main' = "stop" /\ then' = "release"
      BY <1>7, <2>2 DEF Stop
    <3>2. out # NULL
      BY <1>1, <2>2 DEF AudioInv, StateShows, Initialised, Round
    <3>3. TypeOK'
      BY <1>1, <1>2, <1>3, <2>1, <3>1 DEF AudioInv, TypeOK, State, MainAt
    <3>4. Resources' /\ StopFlag'
      BY <1>1, <2>1, <3>1, <3>2 DEF AudioInv, Resources, StopFlag, Full, Empty, Round
    <3>5. StateShows'
      BY <2>1, <3>1 DEF StateShows, Releasing, Round
    <3>6. StopReleases'
      BY <1>1, <3>1 DEF AudioInv, StopReleases, Releasing
    <3> QED BY <1>4, <3>3, <3>4, <3>5, <3>6 DEF AudioInv
  <2>3. CASE state \notin Initialised
    <3>1. state' = state /\ main' = "loop" /\ then' = then
      BY <1>7, <2>3 DEF Stop
    <3>2. out = NULL
      BY <1>1, <2>3 DEF AudioInv, StateShows, Initialised, Working, Releasing
    <3>3. Empty
      BY <1>1, <3>2 DEF AudioInv, Resources, Full, Round
    <3>4. TypeOK'
      BY <1>1, <1>2, <1>3, <2>1, <3>1 DEF AudioInv, TypeOK, MainAt
    <3>5. Resources' /\ StopFlag'
      BY <1>1, <2>1, <3>1, <3>3 DEF AudioInv, Resources, StopFlag, Full, Empty, Round
    <3>6. StateShows'
      BY <1>1, <2>1, <3>1, <3>2 DEF AudioInv, StateShows, Releasing, Round
    <3>7. StopReleases'
      BY <1>1, <2>1, <3>1, <3>3 DEF AudioInv, StopReleases, Empty
    <3> QED BY <1>4, <3>4, <3>5, <3>6, <3>7 DEF AudioInv
  <2> QED BY <2>2, <2>3
<1>8. CASE Head(queue) = "RELEASE" /\ Terminate
  <2>1. state' = "TERMINATED" /\ main' = "ended" /\ out' = out /\ then' = then
    BY <1>8 DEF Terminate
  <2>2. Taken
    BY <1>2, <1>5, <1>8 DEF AudioInv, TypeOK, QueueShape, Taken
  <2>3. Empty
    BY <1>1, <2>2 DEF AudioInv, StopReleases, Releasing
  <2>4. TypeOK'
    BY <1>1, <1>2, <1>3, <2>1 DEF AudioInv, TypeOK, State, MainAt
  <2>5. Resources' /\ StopFlag' /\ StateShows'
    BY <1>1, <2>1, <2>3 DEF Resources, StopFlag, StateShows, Full, Empty, Round, Releasing
  <2>6. StopReleases'
    BY <1>1, <2>1, <2>3 DEF AudioInv, StopReleases, Empty
  <2> QED BY <1>4, <2>4, <2>5, <2>6 DEF AudioInv
<1> QED BY <1>6, <1>7, <1>8 DEF GetMessage

-----------------------------------------------------------------------------
(* The other threads. *)

LEMMA ClientKeeps ==
  ASSUME AudioInv, Client
  PROVE  AudioInv'
<1> DEFINE S == Command \cup {"STOP", "RELEASE"}
<1>1. UNCHANGED <<main, then, state, auto_mute, changed, out, playback, decoders, buffers>>
  BY DEF Client, SendCommand, AskStop, SendStop, SendRelease, Free
<1>2. Resources' /\ StopFlag' /\ StateShows'
  BY <1>1 DEF AudioInv, Resources, StopFlag, StateShows, Full, Empty, Releasing
<1>3. ASSUME Taken' => Taken, client' = "done" => main = "ended"
      PROVE  StopReleases'
  BY <1>1, <1>3 DEF AudioInv, StopReleases, Empty, Releasing
<1>4. MessageMax \in Nat \ {0, 1} /\ Len(queue) \in Nat /\ Len(queue) <= MessageMax
  BY AudioAssumption DEF AudioInv, TypeOK
<1>5. CASE SendCommand
  <2>1. PICK m \in Command : Send(m)
    BY <1>5 DEF SendCommand
  <2>2. client = "open" /\ client' = client /\ need_stop' = need_stop
    BY <1>5 DEF SendCommand
  <2>3. /\ queue' \in Seq(S)
        /\ Len(queue') = IF Len(queue) = MessageMax THEN MessageMax ELSE Len(queue) + 1
        /\ queue'[Len(queue')] = m
        /\ \A i \in 1 .. Len(queue') - 1 :
              queue'[i] = queue[i + (Len(queue) + 1 - Len(queue'))]
    BY <2>1, SendShape DEF AudioInv, TypeOK
  <2>4. TypeOK'
    BY <1>1, <1>4, <2>2, <2>3 DEF AudioInv, TypeOK
  <2>5. QueueShape'
    <3> SUFFICES ASSUME NEW i \in 1 .. Len(queue')
                 PROVE  queue'[i] \in Command
      BY <2>2 DEF QueueShape
    <3>1. CASE i = Len(queue')
      BY <2>3, <3>1
    <3>2. CASE i # Len(queue')
      <4>1. i \in 1 .. Len(queue') - 1
            /\ i + (Len(queue) + 1 - Len(queue')) \in 1 .. Len(queue)
        BY <1>4, <2>3, <3>2
      <4> QED BY <2>2, <2>3, <4>1 DEF AudioInv, QueueShape
    <3> QED BY <3>1, <3>2
  <2>6. StopReleases'
    BY <1>3, <2>2 DEF Taken
  <2> QED BY <1>2, <2>4, <2>5, <2>6 DEF AudioInv
<1>6. CASE AskStop
  <2>1. client = "open" /\ client' = "stopping" /\ queue' = queue /\ need_stop' \in BOOLEAN
    BY <1>6 DEF AskStop
  <2>2. TypeOK'
    BY <1>1, <2>1 DEF AudioInv, TypeOK
  <2>3. QueueShape'
    BY <2>1 DEF AudioInv, QueueShape
  <2>4. StopReleases'
    BY <1>3, <2>1 DEF Taken
  <2> QED BY <1>2, <2>2, <2>3, <2>4 DEF AudioInv
<1>7. CASE SendStop
  <2>1. client = "stopping" /\ client' = "releasing" /\ Send("STOP") /\ need_stop' = need_stop
    BY <1>7 DEF SendStop
  <2>2. /\ queue' \in Seq(S)
        /\ Len(queue') = IF Len(queue) = MessageMax THEN MessageMax ELSE Len(queue) + 1
        /\ queue'[Len(queue')] = "STOP"
        /\ \A i \in 1 .. Len(queue') - 1 :
              queue'[i] = queue[i + (Len(queue) + 1 - Len(queue'))]
    BY <2>1, SendShape DEF AudioInv, TypeOK
  <2>3. TypeOK'
    BY <1>1, <1>4, <2>1, <2>2 DEF AudioInv, TypeOK
  <2>4. QueueShape'
    <3> SUFFICES ASSUME NEW i \in 1 .. Len(queue'), i # Len(queue')
                 PROVE  queue'[i] \in Command
      BY <2>1, <2>2 DEF QueueShape
    <3>1. i \in 1 .. Len(queue') - 1
          /\ i + (Len(queue) + 1 - Len(queue')) \in 1 .. Len(queue)
      BY <1>4, <2>2
    <3> QED BY <2>1, <2>2, <3>1 DEF AudioInv, QueueShape
  <2>5. ~Taken'
    <3>1. queue' = <<>> => Len(queue') = 0
      OBVIOUS
    <3> QED BY <1>4, <2>1, <2>2, <3>1 DEF Taken
  <2>6. StopReleases'
    BY <1>3, <2>1, <2>5
  <2> QED BY <1>2, <2>3, <2>4, <2>6 DEF AudioInv
<1>8. CASE SendRelease
  <2>1. /\ client = "releasing" /\ client' = "joining" /\ Send("RELEASE")
        /\ need_stop' = need_stop
    BY <1>8 DEF SendRelease
  <2>2. /\ queue' \in Seq(S)
        /\ Len(queue') = IF Len(queue) = MessageMax THEN MessageMax ELSE Len(queue) + 1
        /\ queue'[Len(queue')] = "RELEASE"
        /\ \A i \in 1 .. Len(queue') - 1 :
              queue'[i] = queue[i + (Len(queue) + 1 - Len(queue'))]
    BY <2>1, SendShape DEF AudioInv, TypeOK
  <2>3. TypeOK'
    BY <1>1, <1>4, <2>1, <2>2 DEF AudioInv, TypeOK
  <2>4. QueueShape'
    <3> SUFFICES ASSUME NEW i \in 1 .. Len(queue'), i # Len(queue')
                 PROVE  IF i = Len(queue') - 1 THEN queue'[i] = "STOP" ELSE queue'[i] \in Command
      BY <2>1, <2>2 DEF QueueShape
    <3> DEFINE j == i + (Len(queue) + 1 - Len(queue'))
    <3>1. /\ i \in 1 .. Len(queue') - 1 /\ j \in 1 .. Len(queue)
          /\ j = Len(queue) <=> i = Len(queue') - 1
      BY <1>4, <2>2
    <3>2. queue'[i] = queue[j]
      BY <2>2, <3>1
    <3> QED BY <2>1, <3>1, <3>2 DEF AudioInv, QueueShape
  <2>5. Taken' => Taken
    <3>1. Len(queue) = 0 => queue = <<>>
      BY DEF AudioInv, TypeOK
    <3> QED BY <1>4, <2>1, <2>2, <3>1 DEF Taken
  <2>6. StopReleases'
    BY <1>3, <2>1, <2>5
  <2> QED BY <1>2, <2>3, <2>4, <2>6 DEF AudioInv
<1>9. CASE Free
  <2>1. /\ client = "joining" /\ client' = "done" /\ main = "ended" /\ queue' = queue
        /\ need_stop' = need_stop
    BY <1>9 DEF Free
  <2>2. TypeOK'
    BY <1>1, <2>1 DEF AudioInv, TypeOK
  <2>3. QueueShape'
    BY <2>1 DEF AudioInv, QueueShape
  <2>4. StopReleases'
    BY <1>3, <2>1 DEF Taken
  <2> QED BY <1>2, <2>2, <2>3, <2>4 DEF AudioInv
<1> QED BY <1>5, <1>6, <1>7, <1>8, <1>9 DEF Client

LEMMA DecodeKeeps ==
  ASSUME AudioInv, Decode
  PROVE  AudioInv'
<1>1. /\ UNCHANGED <<main, then, state, need_stop, auto_mute, out, playback, buffers, queue,
                     client>>
      /\ decoders = "run"
      /\ (main = "release" /\ decoders' = "ended") \/ decoders' = decoders
  BY DEF Decode
<1>2. changed' \in BOOLEAN
  BY DEF AudioInv, TypeOK, Decode
<1>3. TypeOK'
  BY <1>1, <1>2 DEF AudioInv, TypeOK
<1>4. Resources' /\ StopFlag' /\ StateShows'
  BY <1>1 DEF AudioInv, Resources, StopFlag, StateShows, Full, Empty, Releasing, Round
<1>5. QueueShape'
  BY <1>1 DEF AudioInv, QueueShape
<1>6. StopReleases'
  BY <1>1 DEF AudioInv, StopReleases, Taken, Empty, Releasing
<1> QED BY <1>3, <1>4, <1>5, <1>6 DEF AudioInv

LEMMA PlaybackKeeps ==
  ASSUME AudioInv, Playback
  PROVE  AudioInv'
<1>1. UNCHANGED <<main, then, need_stop, changed, decoders, buffers, queue, client>>
  BY DEF Playback, Test, Wait, Read, Gapped, Hold, RefreshPts, Play
<1>2. playback \in PlaybackAt \ {"none", "ended"}
  BY DEF Playback, Test, Wait, Read, Gapped, Hold, RefreshPts, Play, PlaybackAt
<1>3. /\ Full
      /\ main \in {"apts", "mute", "begin", "stop", "stopping", "signal", "join", "restart",
                   "unmute", "ungap", "fault"} \cup Round
  BY <1>2 DEF AudioInv, TypeOK, Resources, Full, Empty, Round, MainAt
<1>4. out \in AlsaParam
  BY <1>3 DEF AudioInv, TypeOK, Full
<1>5. playback' \in PlaybackAt \ {"none"}
  BY <1>2 DEF Playback, Test, Wait, Read, Gapped, Hold, RefreshPts, Play, PlaybackAt
<1>6. /\ out' \in AlsaParam
      /\ out'.stop_flag = out.stop_flag
  <2>1. \/ out' = out
        \/ out' = [out EXCEPT !.wait_flag = 1]
        \/ out' = [out EXCEPT !.pause_flag = 1]
    BY DEF Playback, Test, Wait, Read, Gapped, Hold, RefreshPts, Play, SetPause
  <2> QED BY <1>4, <2>1 DEF AlsaParam
<1>7. out' # NULL
  BY <1>6, AudioAssumption
<1>8. playback' = "ended" => out.stop_flag = 1
  BY DEF Playback, Test, Wait, Read, Gapped, Hold, RefreshPts, Play
<1>9. state' = state \/ state' = "GAPPING"
  BY DEF Playback, Test, Wait, Read, Gapped, Hold, RefreshPts, Play
<1>10. auto_mute' \in BOOLEAN
  BY DEF AudioInv, TypeOK, Playback, Test, Wait, Read, Gapped, Hold, RefreshPts, Play
<1>11. TypeOK'
  BY <1>1, <1>5, <1>6, <1>9, <1>10 DEF AudioInv, TypeOK, State
<1>12. Resources'
  BY <1>1, <1>3, <1>5, <1>7 DEF Resources, Full, Round
<1>13. StopFlag'
  BY <1>1, <1>3, <1>6, <1>8 DEF AudioInv, StopFlag, Full
<1>14. StateShows'
  BY <1>1, <1>3, <1>7, <1>9 DEF AudioInv, StateShows, Working, Releasing, Full, Round
<1>15. QueueShape'
  BY <1>1 DEF AudioInv, QueueShape
<1>16. StopReleases'
  BY <1>1, <1>3 DEF AudioInv, StopReleases, Taken, Releasing, Full, Empty
<1> QED BY <1>11, <1>12, <1>13, <1>14, <1>15, <1>16 DEF AudioInv

-----------------------------------------------------------------------------
(* The theorems. *)

LEMMA InitAudioInv == Init => AudioInv
<1> SUFFICES ASSUME Init PROVE AudioInv
  OBVIOUS
<1>1. Len(queue) = 0 /\ queue \in Seq(Command \cup {"STOP", "RELEASE"})
  BY DEF Init
<1>2. TypeOK
  <2>1. need_stop \in BOOLEAN /\ auto_mute \in BOOLEAN /\ changed \in BOOLEAN
        /\ buffers \in BOOLEAN
    BY DEF Init
  <2>2. Len(queue) <= MessageMax
    BY <1>1, AudioAssumption
  <2> QED BY <1>1, <2>1, <2>2 DEF Init, TypeOK, State, MainAt, PlaybackAt
<1> QED BY <1>1, <1>2 DEF Init, AudioInv, Resources, StopFlag, StateShows, QueueShape,
                       StopReleases, Taken, Releasing, Full, Empty, Round

LEMMA NextAudioInv == AudioInv /\ [Next]_vars => AudioInv'
<1> SUFFICES ASSUME AudioInv, [Next]_vars PROVE AudioInv'
  OBVIOUS
<1>1. CASE Client
  BY <1>1, ClientKeeps
<1>2. CASE GetMessage
  BY <1>2, GetKeeps
<1>3. CASE Main /\ ~GetMessage
  BY <1>3, MainKeeps
<1>4. CASE Decode
  BY <1>4, DecodeKeeps
<1>5. CASE Playback
  BY <1>5, PlaybackKeeps
<1>6. CASE UNCHANGED vars
  BY <1>6 DEF vars, AudioInv, TypeOK, Resources, StopFlag, StateShows, QueueShape,
              StopReleases, Taken, Releasing, Full, Empty, Round
<1> QED BY <1>1, <1>2, <1>3, <1>4, <1>5, <1>6 DEF Next

\* The invariant holds in every behaviour of the decoder.
THEOREM AudioInductive == Spec => []AudioInv
BY InitAudioInv, NextAudioInv, PTL DEF Spec

\* Types, for every capacity of the pool that holds a STOP and a RELEASE.
THEOREM AudioTyped == Spec => []TypeOK
<1>1. AudioInv => TypeOK
  BY DEF AudioInv
<1> QED BY <1>1, AudioInductive, PTL

\* alsa_playback_loop never runs without alsa_param or the pcm buffers, whatever the main
\* thread is doing.
THEOREM PlaybackKept == Spec => []PlaybackAllocated
<1>1. AudioInv => PlaybackAllocated
  BY DEF AudioInv, TypeOK, Resources, Full, Empty, Round, PlaybackAllocated, MainAt
<1> QED BY <1>1, AudioInductive, PTL

\* When audio_decode_release frees audec, stop_adec has released everything: the STOP that
\* comes before the RELEASE is never lost and always finds what was set up.
THEOREM ReleaseComplete == Spec => []NothingLeft
<1>1. AudioInv => NothingLeft
  BY DEF AudioInv, StopReleases, Resources, Empty, NothingLeft
<1> QED BY <1>1, AudioInductive, PTL

-----------------------------------------------------------------------------
(* The waits of the release. *)

\* alsa_stop finds a playback thread that is on its way out: stop_flag stays set until the
\* parameters are freed, and no thread pauses the output of one that is about to play.
Stopping == /\ main \in {"stopping", "signal", "join"} =>
                  out # NULL /\ (playback \in {"due", "play"} => out.pause_flag = 0)
            /\ main \in {"signal", "join"} => out.stop_flag = 1

\* The RELEASE leaves the pool when release_adec ends the main thread.
Released == client \in {"joining", "done"} /\ queue = <<>> => main = "ended"

WaitInv == AudioInv /\ Stopping /\ Released

LEMMA StoppingKept ==
  ASSUME AudioInv, Stopping, [Next]_vars
  PROVE  Stopping'
<1>1. CASE Main
  <2>1. CASE SetStop
    <3>1. out \in AlsaParam
      BY <2>1 DEF SetStop, AudioInv, TypeOK, Resources, Full
    <3>2. out' \in AlsaParam /\ out'.stop_flag = 1 /\ out'.pause_flag = out.pause_flag
      BY <2>1, <3>1 DEF SetStop, StopOutput, AlsaParam
    <3>3. QED BY <2>1, <3>2, AudioAssumption DEF SetStop, Stopping
  <2>2. CASE SignalStop
    <3>1. main = "signal" /\ out' = out
      BY <2>2 DEF SignalStop
    <3>2. playback' \in {"due", "play"} => playback \in {"due", "play"}
      BY <2>2 DEF SignalStop, Signal
    <3>3. QED BY <3>1, <3>2 DEF Stopping
  <2>3. CASE FreeOutput
    BY <2>3 DEF FreeOutput, Stopping, AudioInv, TypeOK
  <2>4. CASE GetMessage
    BY <2>4 DEF GetMessage, PauseOrResume, Stop, Terminate, Stopping
  <2>5. CASE Unpause
    <3>1. out \in AlsaParam
      BY <2>5 DEF Unpause, AudioInv, TypeOK, Resources, Full
    <3>2. out' \in AlsaParam /\ out'.pause_flag = 0
      BY <2>5, <3>1 DEF Unpause, SetPause, AlsaParam
    <3>3. QED BY <2>5, <3>2, AudioAssumption DEF Unpause, Stopping
  <2>6. CASE ~Unpause /\ ~SetStop /\ ~SignalStop /\ ~FreeOutput /\ ~GetMessage
    BY <1>1, <2>6 DEF Main, InitCodec, GiveUp, StartDecode, FirstPts, NoVpts, Due, Begin, Fault, Reset,
                      Reopen, Restart, Mute, Unmute, Gap, Ungap, NoMessage, ReleaseCodec, Stopping
  <2>7. QED BY <2>1, <2>2, <2>3, <2>4, <2>5, <2>6
<1>2. CASE Playback
  <2> SUFFICES ASSUME main \in {"stopping", "signal", "join"}
               PROVE  /\ out' # NULL /\ out'.stop_flag = out.stop_flag
                      /\ playback' \in {"due", "play"} => out'.pause_flag = 0
    BY <1>2 DEF Stopping, Playback, Test, Wait, Read, Gapped, Hold, RefreshPts, Play
  <2>1. out \in AlsaParam /\ (playback \in {"due", "play"} => out.pause_flag = 0)
    BY DEF Stopping, AudioInv, TypeOK
  <2>2. CASE Test
    <3>1. out' \in AlsaParam /\ out'.stop_flag = out.stop_flag /\ playback' \in {"locked", "read"}
      BY <2>1, <2>2 DEF Test, AlsaParam
    <3>2. QED BY <3>1, AudioAssumption
  <2>3. CASE Gapped
    <3>1. out' \in AlsaParam /\ out'.stop_flag = out.stop_flag /\ playback' = "held"
      BY <2>1, <2>3 DEF Gapped, SetPause, AlsaParam
    <3>2. QED BY <3>1, AudioAssumption
  <2>4. CASE Wait \/ Read \/ Hold \/ RefreshPts \/ Play
    <3>1. out' = out /\ (playback' \in {"due", "play"} => out.pause_flag = 0)
      BY <2>1, <2>4 DEF Wait, Read, Hold, RefreshPts, Play, AlsaParam
    <3>2. QED BY <2>1, <3>1, AudioAssumption
  <2>5. QED BY <1>2, <2>2, <2>3, <2>4 DEF Playback
<1>3. CASE Client \/ Decode \/ UNCHANGED vars
  BY <1>3 DEF Client, SendCommand, AskStop, SendStop, SendRelease, Free, Decode, vars, Stopping
<1>4. QED BY <1>1, <1>2, <1>3 DEF Next

LEMMA ReleasedKept ==
  ASSUME AudioInv, Released, [Next]_vars
  PROVE  Released'
<1>1. CASE Client
  <2>1. CASE SendCommand \/ AskStop \/ SendStop
    BY <2>1 DEF SendCommand, AskStop, SendStop, Released
  <2>2. CASE SendRelease
    <3>1. queue \in Seq(Command \cup {"STOP", "RELEASE"})
      BY DEF AudioInv, TypeOK
    <3>2. queue' # <<>>
      <4>1. Send("RELEASE")
        BY <2>2 DEF SendRelease
      <4>2. /\ queue' \in Seq(Command \cup {"STOP", "RELEASE"})
            /\ Len(queue') = IF Len(queue) = MessageMax THEN MessageMax ELSE Len(queue) + 1
        BY <4>1, SendShape DEF AudioInv, TypeOK
      <4>3. MessageMax \in Nat \ {0} /\ Len(queue) \in Nat
        BY <3>1, AudioAssumption
      <4>4. Len(queue') # 0
        BY <4>2, <4>3
      <4>5. QED BY <4>4
    <3>3. QED BY <3>2 DEF Released
  <2>3. CASE Free
    BY <2>3 DEF Free, Released
  <2>4. QED BY <1>1, <2>1, <2>2, <2>3 DEF Client
<1>2. CASE GetMessage
  <2> SUFFICES ASSUME client \in {"joining", "done"}, queue' = <<>> PROVE main' = "ended"
    BY <1>2 DEF GetMessage, Released
  <2>1. queue # <<>> /\ queue' = Tail(queue) /\ queue \in Seq(Command \cup {"STOP", "RELEASE"})
    BY <1>2 DEF GetMessage, AudioInv, TypeOK
  <2>2. Len(queue') = 0 /\ Len(queue') = Len(queue) - 1 /\ Len(queue) \in Nat /\ Head(queue) = queue[1]
    BY <2>1, TailShape
  <2>3. Len(queue) = 1
    BY <2>2
  <2>4. queue[1] = "RELEASE"
    BY <2>3 DEF AudioInv, QueueShape
  <2>5. Head(queue) = "RELEASE"
    BY <2>2, <2>4
  <2>6. Head(queue) \notin Kind /\ Head(queue) # "STOP"
    BY <2>5 DEF Kind
  <2>7. Terminate
    BY <1>2, <2>6 DEF GetMessage
  <2>8. QED BY <2>7 DEF Terminate
<1>3. CASE (Main /\ ~GetMessage) \/ Decode \/ Playback \/ UNCHANGED vars
  <2>1. client' = client /\ queue' = queue /\ (main = "ended" => main' = "ended")
    BY <1>3 DEF Main, InitCodec, GiveUp, StartDecode, FirstPts, NoVpts, Due, Begin, Fault, Reset, Unpause, SetStop,
                SignalStop, FreeOutput, Reopen, Restart, Mute, Unmute, Gap, Ungap, NoMessage, ReleaseCodec,
                Decode, Playback, Test, Wait, Read, Gapped, Hold, RefreshPts, Play, vars
  <2>2. QED BY <2>1 DEF Released
<1>4. QED BY <1>1, <1>2, <1>3 DEF Next

\* audio_decode_release waits for a main thread that has still to take the RELEASE, and
\* alsa_stop for a playback thread that is on its way out or has lost the wake-up.
THEOREM WaitsAnswered == Spec => []ReleaseAnswered
<1>1. Init => WaitInv
  BY InitAudioInv DEF WaitInv, Init, Stopping, Released
<1>2. WaitInv /\ [Next]_vars => WaitInv'
  BY NextAudioInv, StoppingKept, ReleasedKept DEF WaitInv
<1>3. WaitInv => ReleaseAnswered
  <2> SUFFICES ASSUME WaitInv PROVE ReleaseAnswered
    OBVIOUS
  <2>1. ASSUME client = "joining", main # "ended"
        PROVE  \E i \in 1 .. Len(queue) : queue[i] = "RELEASE"
    <3>1. queue # <<>> /\ queue \in Seq(Command \cup {"STOP", "RELEASE"})
      BY <2>1 DEF WaitInv, Released, AudioInv, TypeOK
    <3>2. Len(queue) \in 1 .. Len(queue)
      BY <3>1
    <3>3. queue[Len(queue)] = "RELEASE"
      BY <2>1, <3>2 DEF WaitInv, AudioInv, QueueShape
    <3>4. QED BY <3>2, <3>3
  <2>2. main = "join" => out.stop_flag = 1 /\ (playback = "play" => out.pause_flag = 0)
    BY DEF WaitInv, Stopping
  <2>3. QED BY <2>1, <2>2 DEF ReleaseAnswered
<1>4. QED BY <1>1, <1>2, <1>3, PTL DEF Spec
=============================================================================
