# libamcodec in TLA+

libamcodec is the media player of Amlogic's Linux and Android boxes. A client
starts a *player*, which gets a small number (its pid), a thread of its own and
a parameter block `play_para_t`; the client steers it with commands (stop, seek,
pause, fast forward, ...). The player thread reads packets through a modified
FFmpeg and writes them to the hardware decoders through the codec library; the
audio decoder library runs beside it.

The correctness of this program is in its threads: four or more of them share
`play_para_t`, mostly without a lock, and each has its own idea of when a player
ends. That is what these modules are about. Line numbers refer to files under
`src/amplayer/player/` unless a path is given.

## 1. Inventory

| Component | State | Operations | Interacts by | Hard behaviour | What makes it correct |
|---|---|---|---|---|---|
| Command pool (`message.c`) | ring of 8 pointers, two indices, a count, a mutex; heap cells of the commands | alloc, free, send, send-update, get, peek, clear | called by every client, the player thread and the mate; wakes the player thread | two critical sections in one call, overflow frees the oldest command, six places free | one owner per command, ring consistent, FIFO, every command freed |
| Mate thread (`player_mate.c`) | semaphore, condition variable, three flags, `wake_delay` | init, wake, sleep, release; the mate's loop | opened and closed around every blocking read; takes commands for the player thread | plain flags, stale semaphore tokens, set-then-interrupt in two steps | the two threads never work at once, sleep and release return, no lost wake-up, interrupts undone |
| Player thread (`player.c`, `player_para.c`, `player_update.c`, `player_av.c`) | `playctrl_info` (some 50 flags), `player_state`, the current packet | open, prepare, start, play loop, wait for the end, reset, release; `check_msg`, `check_flag` | commands, mate, decoder state, interrupt list, update callback | seeks, trick modes, loop mode, resets, stop and errors in any order | stop is final, seeks are served, states shown are true, errors are errors |
| Client API (`player_ctrl.c`) | none of its own | start, stop, stop_async, exit, send_message, state queries | pid table, pool, interrupt list, `pthread_join` | stop against natural end, exit twice, failures in the middle of start | a stop reaches the player, its end is waited for, memory lives as long as its users |
| Pid table (`player_id.c`, `thread_mgt.c`) | bit set of pids, data pointer and use count per pid, where the last search left off | request, release, open, close, init data | locked by every API call | a pid released, lent again and opened by others between the steps of start and exit; joins by several callers | one owner per pid, a pid leads to live parameters, these outlive their thread |
| Interrupt list (`player_ffmpeg_ctrl.c`, `src/amavutils/itemlist.c`) | list of at most 32 thread ids, a counter of refused callbacks | interrupt, uninterrupt, callback | set by stop and by the mate, read by FFmpeg in every blocking call | check then add, one entry for two owners, capacity, abort at 10000 | interrupted until uninterrupted by the same owner |
| Playing-info update (`player_update.c`) | `state`, buffer levels | `update_playing_info`, buffering states, forced end | player thread and mate | called from both threads | state changes consistent with flags |
| Packet reader and writer (`player_av.c`) | packet, read/write counts | `read_av_packet`, `write_av_packet`, audio switch | FFmpeg, codec library, mate windows | partial writes, stalled writes, EAGAIN | no packet lost or written twice |
| Stream decoders (`player_es.c`, `player_ts.c`, ...) | codec handles | init, release, header construction | codec library | sequential | - |
| Subtitles, thumbnails, settings | parser state | parse, sysfs writes | files, sysfs | sequential | - |
| Stream cache (`player_cache_mgt.c`, `player_cache_file.c`, `aviolpcache.c`) | data file, bitmap of pages and its file, end of the last write, total size | open, read, write, close, delete oldest | loop buffer | pages written in parts, a map that outlives the play, files deleted one by one | only bytes that were stored are read back |
| Loop buffer (`src/amffmpeg/libavformat/aviolpbuf.c`) | ring of bytes, read and write pointer, position | fill, read, seek, reset | demuxer, network, cache | lock released during the network read, full against empty | the demuxer reads the stream's bytes at its position |
| HLS and HTTP additions (`hls.c`, `CacheHttp.c`, ...) | playlist, download thread | open, read, seek | loop buffer | worker thread | - |
| Audio decoder (`src/amadec/`: `adec-ffmpeg-mgt.c`, `adec-external-ctrl.c`, `adec-message.c`, `adec-pts-mgt.c`, `audiodsp_update_format.c`) | `state`, `need_stop`, `auto_mute`, its own message pool, pcm buffers | init, start, pause, resume, mute, gap, change of format, stop, release | client's messages, decode threads, codec library | a stop during the initialisation or a wait for a time stamp; state written by two threads | everything set up is undone, every release ends |
| Audio output (`audio_out/alsa-out.c`) | `alsa_param` (three flags), a mutex and a condition, the playback thread | init, start, pause, resume, stop, the playback loop | decoder's main thread and playback thread | flags read without the lock, join before free | the playback thread has its memory, the join returns |
| Codec library (`src/amcodec/`) | file handles | ioctls | kernel driver | none | - |
| Utilities, example players, FFmpeg, firmware | - | - | - | - | - |

PROJECT.json lists the same components with what is modelled of each, and the
hazards of the code line by line with the property that covers each one.

## 2. Modules

```
CommandQueue    what the pool promises: a bounded FIFO that loses its oldest entry
   ^      ^
   |      |  refinement (ImplementsQueue, PoolImplementsQueue)
   |   MessagePool  <--- MessagePoolProofs <--- MessagePoolQueueProofs
   |  INSTANCE
PlayerThread  <--- PlayerThreadProofs
   .   relies on MateExclusive of
MateThread  <--- MateThreadProofs

PidLease        what the pid table promises: a pid has one owner
   ^  refinement (ImplementsLease, PlayersImplementLease)
Players  <--- PlayersProofs

Stream          what the demuxer sees
   ^  refinement (StreamSteps, BufferIsStream)
LoopBuffer  <--- LoopBufferProofs
   .   its set of cached positions is what
CacheFile   <--- CacheFileProofs   answers

AudioDecoder  <--- AudioDecoderProofs
```

`<---` is EXTENDS by the module with the proofs; a dotted line is a fact that one
module takes from the other's check, not an EXTENDS.

* **CommandQueue** is the abstract pool: `Accept`, `PushOut` (a full queue loses
  its oldest command), `ReplaceHead` (a seek replaces a waiting seek at the head)
  and `TakeHead`.
* **MessagePool** is `message.c` with its callers. The ring is a function from
  slots to pointers, stale pointers outside the window included; `heap` says
  which cells are allocated. A mutex protects every access, so each critical
  section is one action: `send_message_update` is two (`ScanUpdate`/`ScanMiss`,
  then `SendRoom`/`SendFull`), `clear_all_message` is one per command.
  `pc` and `cmd` are the position and the local pointer of every thread.
* **MateThread** is `player_mate.c` and the windows of `read_av_packet` and
  `ffmpeg_buffering_data`. One action per read or write of a shared flag. Timed
  waits end at any time. A `pthread_create` of the mate that fails
  (player_mate.c:59, whose result nobody looks at) is left out: the release would join
  an id that was never set. `pending` counts commands, `killed` is the membership of
  the player thread in `kill_item_list`.
* **PlayerThread** is `player_thread` with `check_msg`, `check_flag`, the resets
  and endings, and the two sides of `player_stop`. `p` is the record of the
  fields of `playctrl_info` that steer it, and `player_state`. Handlers are
  operators from such a record to the set of records they may leave (`CheckMsg`,
  `Flags`, `Updates`, `DecoderState`), so that the mate and the player thread use
  the same definitions, as they call the same functions. `main` is the place in
  `player_thread`:

  | `main` | code |
  |---|---|
  | open, prepare, start, decoder | player.c:840-1043 |
  | check | the call of `check_flag` at 1059 |
  | read, closing, closed | `read_av_packet` between `player_mate_wake` and the end of `player_mate_sleep`, 1077-1109 |
  | buffer | `ffmpeg_buffering_data` with a packet waiting, 1090-1100 |
  | write | `write_packet:` to the end of the loop, 1110-1191 |
  | wait | "wait for play end", 1195-1221 |
  | ended, reset | 1222-1276 |
  | release, exit, exited | 1277-1327 |

  The pool is an `INSTANCE` of CommandQueue: MessagePool is shown to implement it.
  The mate acts only in a window; that is `MateExclusive` of MateThread.

* **Stream** is a read position and the bytes of the last step; **LoopBuffer** is
  `src/amffmpeg/libavformat/aviolpbuf.c`. A byte's value is its position in the
  stream, so a byte at the wrong place shows. `Fill` is `url_lpfillbuffer`, one
  disjunct per way it ends; `Copy` and `Refill` are the turns of the loop of
  `url_lpread`, which also serves a read seek (`op = "skip"`); `Buffer` is the
  read-ahead that the player thread does in `ffmpeg_buffering_data`. A seek is in
  the ring, by reading on, in the protocol, or put off to the next cache miss. One
  thread at a time uses a loop buffer, so the lock is not modelled. `media` and the
  read-seek limits are inputs of each seek.

* **PidLease** is a holder for each pid; **Players** is `player_id.c`,
  `player_start`, `player_stop`, `player_stop_async`, `player_exit` and
  `thread_mgt.c` for several clients at once. `at[c]` is where client c is
  between two critical sections or library calls:

  | `at` | code |
  |---|---|
  | requested, published, created, failed | player_ctrl.c:122-151 |
  | stop, clear, send, join, joining, uninterrupt | player_stop, 224-256 |
  | lastjoin, lastjoining, lastuninterrupt | player_exit after its player_stop, 342-345 |
  | freed | between FREE and player_release_pid, 345-348 |

  `para` is the memory: an address is lent, freed and lent again, and a freed one
  keeps its contents. `thread` says for each id whether its thread runs, leaves,
  has ended or was joined; `pthread_join` is two actions (`Join`, `Joined`), and
  returns at once with an error where the thread is joined or being joined.
  What a player thread does with a stop is PlayerThread's matter; here it may do all
  that PlayerThread shows: take a stop and play on (`TakeStop`, because a reset clears
  `end_flag`), lose its interrupt to the end of a window of its mate (`MateWindow`,
  player_mate.c:91), and end at any time (`Ending`), stopped or not.
  `StopOthers` and `ReuseIds` switch on the two circumstances that break
  ExitAfterThread. **MCPlayers** adds the symmetry of clients, addresses and thread
  ids for TLC; every property of its run is a safety property.

* **AudioDecoder** is the decoder on the ARM core. `main` is the place in
  `adec_armdec_loop` and what it calls (`init`, `output`, the waits for a time stamp
  `apts` and `mute`, `loop`, the four steps of `alsa_stop`: `stop`,
  `stopping`, `signal`, `join`, ...), `playback` the place in `alsa_playback_loop`, `client` the place in
  `audio_stop`. `out` is `alsa_param` or NULL, `queue` the message pool. `state` is
  written by the main thread and, in `RefreshPts`, by the playback thread; an
  access to `out` when it is NULL ends in `main = "fault"`. `StartDecode` is one step
  from `alsa_init` to the first wait: nobody else looks at `state` before the output is
  started. A device or a thread that cannot be opened there is left out.

* **CacheFile** is the cache file of one stream over several plays: the bytes the
  data file holds, the bitmap in memory and in its file, and which of the files
  were deleted since they were opened. A byte is its position and a page its
  first byte. `Fault` names the four circumstances under which a read returns
  bytes that were never stored.

What is abstracted: times, positions, sizes and buffer levels (every comparison of
them is a free choice), the demuxer and the decoder device (any outcome a call
can return), fast forward and fast backward (one flag, `fast`: they are always
tested together), the AV-sync and subtitle side effects of `check_flag`, and
allocation failure of a command. A command that only sets a parameter
(volume, mute, subtitle and so on) does not touch the modelled state and is
left out of `Kind`.

## 3. Runs

| Run | Checks | Result |
|---|---|---|
| MessagePool | TypeOK, RingShape, SingleOwner, NoLeak, ImplementsQueue, CommandFreed | holds, 147 164 states |
| MateThread | TypeOK, MateExclusive, NoLostWakeup, SleepReturns, ReleaseReturns, CommandServed | holds, 66 456 states |
| MateThreadInterrupt | InterruptUndone | **violated** |
| PlayerThread | TypeOK, PauseShown, StopIsFinal, StopIsNoError | holds, 373 621 states |
| PlayerThreadSeek | SeekInterrupts, SeekServed | holds, 205 231 states |
| PlayerThreadStop | StopReturns | **violated** |
| Players (module MCPlayers) | TypeOK, ExitAfterThread, JoinAnswered, OpenIsSafe, InterruptKept, ImplementsLease | holds, 381 371 states up to symmetry |
| PlayersExit | ExitAfterThread | **violated** |
| LoopBuffer | TypeOK, WindowIsStream, NoFalseEnd, SkipOnCourse, StreamSteps | holds, 718 296 states |
| LoopBufferCache | ReadAtPosition | **violated** |
| CacheFile | ReadIsStored | **violated** |
| AudioDecoder | TypeOK, PlaybackAllocated, NothingLeft, ReleaseAnswered, ReleaseReturns | holds, 94 056 states |

**Bounds.** The numbers only bound the runs: the safety proofs hold for all values.

*MessagePool*: two slots (the code has 8) distinguish oldest and newest, wrap and
overflow; two clients and one consumer give every pair of concurrent critical
sections. Four cells are two queued commands and two in hand, so now and then a
client finds no memory. No symmetry is used, because the run has a
liveness property.
*MateThread*: the semaphore is bounded by 3 (a window leaves at most one stale
token per round; the release posts three) and two commands are enough for one to
wait while another is handled.
*PlayerThread*: the pool has one slot (a second command then replaces the first,
which CommandQueue allows); every command is still delivered at every place.
`LoopForever` stands for 0xffff: it is 2 in the safety run, so that a count of 1 goes down
to 0 while 0 and "for ever" stay, and 1 (0 or for ever) in the other two. The safety run
sends starts, stops, pauses and fast forward and ends with one `player_stop`, after which
nothing is sent; the liveness run sends seeks from any client at any time.
PlayerThreadProofs covers every mixture. `SEEK_RESET` is sent only in PlayerThreadStop: in the
passing runs resets come from stalled writes, decoder errors and audio switches.
SeekServed and SeekInterrupts do *not* hold when FF is sent too: the end of a trick
mode leaves `search_flag` set without a reset (player.c:555), and an audio switch then
opens a window in which a later seek waits. Deadlock is not checked: a player that has
exited stops, as do Players and AudioDecoder when every call has returned.
*Players*: two pids, two clients and two addresses are the least in which a pid and an
address are reused by another client. Three thread ids, used once each, let one client
start again while the other's player runs or is waited for; PlayersExit has two, which
come back.
*LoopBuffer*: a ring of four cells and a stream of six bytes, so that the ring wraps
and its first bytes are overwritten; the reserve of a fill (32 bytes) becomes 1 and
the margin of a seek back (64) 2, which keeps the one below the other; blocks of 2
and reads of 3 make a read take several turns. The stream is finite, so
positions are bounded without a guard.
*CacheFile*: three pages of two bytes, requests of one to three bytes. The run has
`Fault = {"read of a part"}`, so it shows the fault of player_cache_file.c:233 and none of
the other three. With `Fault = {}` the same instance has 4 434 states and ReadIsStored holds; each of the
four faults alone breaks it. A run of its own for each would show
no other formula violated, so they are left to `Fault` and the two theorems.
*AudioDecoder*: a pool of three with three kinds of command overflows before the
client stops; SET_VOL stands for all commands that leave the state alone.

**What they show.** The pool is correct as memory and as a queue. The mate's
hand-over is safe although it uses plain flags and keeps stale tokens: the flag
`mate_should_sleep` is set before `mate_isrunng` is read, and the mate writes
them in the opposite order. A pause or resume is shown by whichever thread took
it. No token of the semaphore that a window leaves behind costs the next one its
wake-up. A stop taken by `check_flag` in the play loop ends the player in the same
round. An error after `player_stop` has sent its STOP is reported as a stop, whoever
took the command or whether anyone did, as long as nothing is sent after it; an error in
the short time between the interrupt and the send (player_ctrl.c:243-244) is
reported as PLAYER_ERROR, in the code and in the model. A seek is
always served. Without a cache the demuxer sees the bytes of the stream in order,
although the reserve between full and empty is left out in one of three cases: there
the ring can only fill up to the end of the buffer, and `rp` is not at its start.
A pid has one owner although `player_release_pid` frees it while others have it open,
although a start without memory loses its pid (nobody is lent it again) and although
a failed start frees the parameters before the pid. OpenIsSafe names the time between a
FREE and the release of the pid, in which a pid does lead to freed data, and
excuses it and nothing else; what a caller goes on to do with parameters it opened
before they were freed (player_id.c:71) no property restricts. Where clients
stop each other's players only asynchronously, a player whose end is waited for was asked
to end, or is about to be, and no client takes back its interrupt: the calls do not get
in each other's way. That every stop then *returns* is not claimed, because it is false
for one client already: a reset may consume the stop and the mate may remove the
interrupt (PlayerThreadStop). The audio decoder undoes what it set up wherever a stop
meets it, and its release returns but for two races that ReleaseReturns names: the
wake-up of `alsa_stop` lost between the playback thread's test and its wait
(alsa-out.c:851 signals without the mutex), and GAPPING written over STOPPED by the
playback thread, after which the main loop resumes an output that was freed.

**Five disagreements.** (1) *MateThreadInterrupt*: `player_mate_sleep` looks for the
temporary interrupt before it has stopped the mate, so the interrupt can be set
after the look, and stays (player_mate.c:88-97). (2) *PlayerThreadStop*: a stop that
meets a reset is consumed. `exit_flag` does not look at `request_end_flag`, the reset
clears `end_flag`, and `player_stop`, which is to "wait thread exit after send stop
command" (player_ctrl.c:212), waits on; its interrupt may have been removed by the
mate's, because the list holds one entry per thread. (3) *LoopBufferCache*: with the
cache on, a seek leaves the protocol where it is ("seek on cache missed",
aviolpbuf.c:484), but the miss moves it only if it is not at 0 (aviolpbuf.c:269): the
bytes read are those of the start of the stream. StreamSteps and WindowIsStream
are for that reason stated for a loop buffer without a cache. (4) *PlayersExit*:
`player_exit` joins the thread that `player_stop` has joined (player_ctrl.c:342) and
frees the parameters whatever the join returns ("player thread already exit"). When
another client's `player_stop` is joining the thread, or the id has been given to a
new thread, the parameters are freed under a running thread. Without both,
ExitAfterThread holds (run Players, theorem ExitSafe). (5) *CacheFile*: the search for
downloaded pages compares whole pages with whole pages of the request
(player_cache_file.c:233), so for less than a page none is needed: a hole of the data
file is read as data.

A sixth is not a run of its own: `send_message_update` means to replace a waiting seek
("same cmd", "update old one", message.c:53-54), but its loop never advances `j` and
compares only the oldest command, so a seek behind another command is queued
twice. CommandQueue says what the code does: `ReplaceHead` replaces at the head only.

**Fairness.** `FairSpec` of MessagePool: a thread inside a call goes on, and the
consumer returns, because `check_flag` runs on every turn of the play loop.
`FairSpec` of MateThread: both threads are scheduled; the network is not fair, so
a read returns only because it is interrupted, or by luck. `FairSpec` of
PlayerThread: the player thread and the caller of `player_stop` are scheduled, and
a blocking call returns at least when the thread is interrupted, which is what
`ffmpeg_interrupt_callback` is for; clients, the mate and the network owe nothing. These
calls are the reads of packets, the opening of the file and of its streams, and the seek
of a reset. The read loop of an audio switch (player_av.c:2902-2921), which asks again on
EAGAIN, is part of `Check` and taken to end: SeekServed does not cover a network that
gives EAGAIN for ever there. Players states no fairness, because whether a player ends is
PlayerThread's question. `StopLastSpec` is one client whose last call is
`player_stop`; it is the specification of the safety run, since a later
command could push the STOP out of a full pool.
`FairSpec` of AudioDecoder: each of the four threads goes on; a wait for a time stamp
need not end before `need_stop` is set, because the stream owes none, and
`audio_decode_loop` ends when it is told to. The client need not stop at all:
ReleaseReturns starts where it does.
`HelpedSpec` (StopLastSpec with strong fairness) is used only for the violation: every
call returns, an interrupted read fails in the end, everything read is written and a stream that
ends is played out, and still the stop does not return.

## 4. Proofs

All constants are arbitrary, within the assumptions `PoolAssumption` (at least one
slot, NULL is not a cell, FREED is not a command, clients are not consumers),
`MateAssumption` (positive bounds), `PlayerAssumption` (commands are of the modelled
kinds, at least one slot, a positive bound of the loop count), `PlayersAssumption` (at least one pid; NULL and the two marks of PidLease are
nothing else), `BufferAssumption` (reserve and margin positive, the reserve smaller than
the ring, the cache no longer than the stream), `AudioAssumption` (at least two
messages) and, for the cache, `Sizes` (positive). Six theorems have a further
hypothesis on the constants, each of which an instance checked by TLC meets: `ExitSafe`,
`JoinsAnswered` and `InterruptsKept` (nobody stops another client's player, no thread id
comes back), `SeeksInterrupt` (no
client sends FF), `MapHonest` (`Fault` at most "read of a part") and `CacheHonest`
(`Fault = {}`). TLC shows that none of them can be dropped.

* **MessagePoolProofs**: `PoolInvariant` and from it `TypeCorrect`, `RingCorrect`,
  `OwnerUnique`, `NothingLeaks`. `SingleOwner` alone is not inductive: that a free
  hits no other owner needs `RingShape` (a full ring's write slot is its read slot),
  and that a thread's pointer is live needs to know at which `pc` it holds one.
  The invariant is the conjunction of the four with that link between `pc` and
  `cmd` (`HandShape`). The arithmetic is in lemmas on `Slot` and `Succ` (distinct places of the
  window are distinct slots), cited by each action.
* **MessagePoolQueueProofs**: `PoolImplementsQueue`, Spec => Queue!QueueSafety:
  every step of the ring is a step of the queue or leaves it alone. It uses
  `PoolInvariant`, because a store or a free must not change the queue through
  an alias.
* **MateThreadProofs**: `MateInvariant` and from it `MateTypeCorrect`,
  `MateExcluded`. The strengthening says what each thread's place
  implies about the flags: the mate past `sem_wait` has `mate_isrunng` set; the player
  thread outside a window, once a window was opened, has `mate_should_sleep` set
  or the mate has not begun. It is inductive because sleep sets its flag before
  it reads the mate's. `MateAwake` (no wake-up is lost) needs `TokenShape` too: where
  each thread is, how many tokens it can still count on, and that a stale token only
  makes the mate look at its flags once more.

* **PlayerThreadProofs**: `IInv` and from it `PlayerTyped`, `PauseReported`,
  `StopEnds`. The handlers return sets of records, so there is
  one lemma per handler that says which fields it leaves as they should be
  (`EndKept`, `PauseKept`); each action cites those of the handlers it calls.
  `SeeksInterrupt` adds `SeekInv`: without FF no trick mode is on or waits in the pool
  (`NoTrick`), so that a seek is never on without the end of the play loop
  (`SeekEnds`); hence `check_flag` does not go on to a read with a seek, and in a read
  only the mate can take one, which interrupts it. With FF the invariant fails in
  `TrickStarts`, at player.c:555.
  `StoppedWithoutError`, StopLastSpec => StopIsNoError, adds `StopHeard`: from the send to
  the release a STOP is in the pool, or it was taken and `request_end_flag` is set, or the
  opening has taken it and left PLAYER_STOPED. Five handlers before the release take commands from
  the pool; that each of them keeps `StopHeard`, and that no reset clears `request_end_flag`
  (`ResetHears`), is `StopKept`.
* **PlayersProofs**: `PidInv` (types; which `at` has a pid, an address and a thread in
  hand; one owner per pid and per address; what the table leads to) and from it
  `PlayersTyped`, `OpenSafe` and the refinement `PlayersImplementLease`. `ExitSafe`,
  `~StopOthers /\ ~ReuseIds => []ExitAfterThread`, needs `Threads` as well: a thread
  and the client that started it have each other, and nobody else joins it or takes
  back its interrupt before it was joined. `JoinsAnswered`, under the same two
  hypotheses, needs `Waits`: an owner that joins a thread that plays on has a stop in
  its pool, which an asynchronous stop of another client may take out
  (`clear_all_message`) but will send again, or the thread has taken one; and
  parameters in PLAYER_EXIT belong to no such thread. `InterruptsKept` follows
  from `Threads`: what a call takes off the list is the thread that it has joined. With
  another client's `player_stop` or an id that comes back a call may take back, or
  clear, what another waits for; each hypothesis is needed.
* **LoopBufferProofs**: `RingInv` and from it `BufferTyped`, `WindowCorrect`,
  `NoEndMistaken`, `SkipArrives` and the refinement `BufferIsStream`. `Ring` says that
  without a cache the protocol is at `pos` and that the cells before the write
  pointer hold the last bytes of the stream, as many as may be read or sought back
  to; `Course` that a call in progress has something left to read. The proofs are
  mostly arithmetic modulo the size of the ring, in lemmas of their own.
  `ReadsPlaced` is what is left of ReadAtPosition, which its run refutes: it holds
  whenever there is no cache or the protocol is not at 0, so the missing seek of the
  first read is the only way to it.
* **AudioDecoderProofs**: `AudioInv` and from it `AudioTyped`, `PlaybackKept`,
  `ReleaseComplete`. It says what each place of the main thread implies about
  output, threads and buffers (`Resources`), that STOP and RELEASE are the last
  messages of the queue and are not pushed out (`QueueShape`), that `state` shows what
  is set up, which is where `stop_adec` looks (`StateShows`), and that once STOP is
  taken the release is under way or done (`StopReleases`). `WaitsAnswered` adds that
  `alsa_stop` has left `stop_flag` set and the output not paused by the time it waits
  (`Stopping`), and that only `release_adec` takes the RELEASE (`Released`).
* **CacheFileProofs**: `MapInv` and from it `MapHonest` and `CacheHonest`. A page that
  is marked, in memory or in the file of the map, is whole, and the page in which the
  last write ended is stored up to that end, because the next write counts it in. The
  read of a part of a page leaves all of that alone: the run's counterexample is the
  fault of `cachefile_read` only, while each of the other three faults spoils the map.

Of each liveness property the proofs have the safety part, that what is waited for is
there or on its way: `NothingLeaks` for CommandFreed, `MateAwake` for CommandServed and
ReleaseReturns of the mate, `SeeksInterrupt` for SeekServed, `WaitsAnswered` for
ReleaseReturns of the audio decoder. Only
model-checked is the rest: that under fairness it comes (CommandFreed, SleepReturns,
ReleaseReturns, CommandServed, SeekServed), which like ENABLED is out of
the prover's reach, and the fairness part of ImplementsQueue. No module uses RECURSIVE
operators; nothing here is defined by recursion over data, for which induction
could not be proved either.

## 5. Not modelled

* *Interrupt list*: the window between the test and the add of
  `itemlist_add_tail_data`, the limit of 32 entries and the counter that aborts at
  10000. `kill` is a set in the models. How often FFmpeg asks during one call, on
  which the counter depends, is not known.
* *Client API*: the state queries and the setters that send one command each; they
  open a pid, which OpenIsSafe is about, and call the pool, which is modelled.
* *Player thread*: times, positions, buffer levels, subtitles and AV-sync state, and
  the decoder device. Packet contents and headers are bits, not control.
* *Stream cache*: names, checksums, the size account of the directory, two plays of
  one stream at once, and `int data_off` (a cached file is at most 1 GB). When the
  process starts `cache_system_init` deletes the whole directory, so a crash
  leaves nothing behind.
* *Loop buffer*: seeks by time, which renumber the stream, `url_lpreset`, the size
  query, a second thread during the unlocked read, what a failed seek returns, and the
  width of `valid_data_size` and of the `int` in aviolpbuf.c:270, both of which need
  2 GB.
* *Audio decoder*: the loop for the DSP (`adec-internal-mgt.c`) and the OMX decoders,
  which need firmware or libraries that are not here; the Android and raw outputs;
  the pcm ring of `adec_write.c`; a sound device that does not open (the code then
  joins threads that were never created, which is undefined).
* *HLS and HTTP*: playlist parsing and network protocols inside the vendored
  libavformat; their control flow is the servers' answers.
* *Stream decoders, subtitles, thumbnails, settings, codec library, utilities,
  example players*: sequential I/O against devices and files without state of
  interest; the example players are clients whose calls are among those of Players.
* *FFmpeg, firmware, prebuilt libraries*: not this project's code, and by far the
  largest part of the repository. What the player needs of FFmpeg (a read returns a
  packet, the end, EAGAIN or an error, and asks the interrupt callback) is in the
  actions that call it.
* *Weak memory*: the models are sequentially consistent, although the flags are plain
  `int`s. The data races are real, and a compiler that keeps a flag in a register
  breaks more than the models show.

## 6. How the project grew

1. CommandQueue and MessagePool, with their proofs; 2. MateThread, with its proofs;
3. PlayerThread, checked; 4. LoopBuffer and Stream, checked. Then: 5.
PlayerThreadProofs; 6. PidLease, Players and PlayersProofs; 7. LoopBufferProofs; 8.
AudioDecoder and AudioDecoderProofs; 9. CacheFile and CacheFileProofs.

What would come next is a model of the interrupt list with several players (check
then add, capacity, two owners of an entry), put under MateThread and Players in the
place of their sets, and LoopBuffer with a second thread around the unlocked read.
