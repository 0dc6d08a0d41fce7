----------------------------- MODULE LoopBuffer -----------------------------
(***************************************************************************)
(* The loop buffer between the demuxer and a protocol:                     *)
(* amffmpeg/libavformat/aviolpbuf.c.  A ring keeps the bytes around the    *)
(* read position, so that the player reads ahead of the demuxer and short  *)
(* seeks need no network; a cache on disk may hold bytes from an earlier   *)
(* play.                                                                   *)
(*                                                                         *)
(* One thread at a time uses a loop buffer: the player thread reads and    *)
(* seeks (as the demuxer) and buffers ahead (ffmpeg_buffering_data).  The  *)
(* unit of data is the byte, whose value is its position in the stream.    *)
(* Seeks by time, which renumber the stream, are left out.                 *)
(***************************************************************************)
EXTENDS Integers, Sequences

CONSTANTS Size,         \* buffer_size
          RESERVE,      \* the 32 bytes that a fill keeps free behind rp
          MARGIN,       \* the 64 bytes that a seek back keeps off
          SLACK,        \* the 1024 bytes below which a buffer counts as full
          ENOUGH,       \* the 3 MB of old data that are always enough
          BlockSize,    \* block_read_size
          FileSize,     \* bytes of the stream
          CacheSize,    \* bytes of it that the cache file has room for
          ReadSize,     \* sizes that the demuxer reads
          MaxReadSeek   \* longest read seeks: max_read_seek under the three seekflags

ASSUME BufferAssumption == /\ RESERVE \in Nat \ {0} /\ MARGIN \in Nat \ {0}
                           /\ Size \in Nat /\ RESERVE < Size
                           /\ SLACK \in Nat /\ ENOUGH \in Nat
                           /\ BlockSize \in Nat \ {0}
                           /\ FileSize \in Nat \ {0}
                           /\ CacheSize \in 0 .. FileSize
                           /\ ReadSize \subseteq Nat \ {0}
                           /\ MaxReadSeek \subseteq Nat

VARIABLES buffer,       \* the bytes; -1 where nothing was stored yet
          rp, wp,       \* where the demuxer reads and where data is stored
          valid_data_size,
          pos,          \* stream position of wp
          low,          \* position of the protocol below
          cached,       \* bytes that the cache holds
          cache_enable,
          file_size,    \* 0 when the protocol does not know it
          media,        \* is_streamed, or is_slowmedia; a limit of 0 stands for neither
          op,           \* the call in progress
          size, len,    \* url_lpread: bytes asked for, and still to come
          goal,         \* the position that a read seek is to reach
          data          \* the bytes that the last step copied to the demuxer

ring == <<buffer, rp, wp, valid_data_size, pos>>
below == <<low, cached>>
source == <<cache_enable, file_size, media>>
call == <<op, size, len, goal>>
vars == <<ring, below, source, call, data>>

Cell == 0 .. Size - 1
AGAIN == -11
FAILED == -1

MinOf(a, b) == IF a <= b THEN a ELSE b
MaxOf(a, b) == IF a >= b THEN a ELSE b

-----------------------------------------------------------------------------

AdvanceNoWrap(i, n) == i + n                    \* mutant: the pointer leaves the buffer

\* n places on in the ring, and n places back; n is at most Size.
Advance(i, n) == IF i + n >= Size THEN i + n - Size ELSE i + n
Retreat(i, n) == IF i - n < 0 THEN i - n + Size ELSE i - n

\* valid_data_can_seek_forward: what was stored and not read yet.
Forward == IF wp >= rp THEN wp - rp ELSE Size - (rp - wp)

\* The position of the next byte that the demuxer gets.
PosOnRead == pos - Forward

\* mutant: everything that was ever stored can be read again
BackUnbounded == MaxOf(0, valid_data_size - Forward)

\* valid_data_can_seek_back
Back == MaxOf(0, MinOf(valid_data_size - Forward, Size - Forward - MARGIN))

\* mutant: room is kept free behind rp even where nothing can be mistaken
SpaceReserved == IF wp >= rp THEN Size - wp - RESERVE ELSE rp - wp - RESERVE

SpaceAll == IF wp < rp THEN rp - wp ELSE Size - wp      \* mutant: nothing is reserved

\* The room for one fill: up to the end of the buffer or to the reserve behind rp.
Space == IF wp < rp THEN rp - wp - RESERVE
         ELSE IF rp # 0 THEN Size - wp
         ELSE Size - wp - RESERVE

\* What can be copied at once: up to wp or to the end of the buffer.
Contiguous == IF wp >= rp THEN wp - rp ELSE Size - rp

\* n bytes of the stream, beginning with byte from, are stored at wp.
Store(n, from) ==
    /\ buffer' = [c \in Cell |-> IF c \in wp .. wp + n - 1 THEN from + (c - wp) ELSE buffer[c]]
    /\ wp' = Advance(wp, n)
    /\ valid_data_size' = valid_data_size + n
    /\ pos' = pos + n
    /\ UNCHANGED rp

-----------------------------------------------------------------------------
\* url_lpfillbuffer, which is asked for n bytes and returns r.

Hit == cache_enable = 1 /\ pos \in cached

FillFull(n, r) == /\ MinOf(n, Space) <= 0
                  /\ r = 0
                  /\ UNCHANGED <<ring, below>>

\* aviolp_cache_read; the cache is taken to return what was stored in it.
FillCached(n, r) == /\ Hit
                    /\ r \in 1 .. MinOf(n, Space)
                    /\ pos .. pos + r - 1 \subseteq cached
                    /\ Store(r, pos)
                    /\ UNCHANGED below

\* The end of the file, or the protocol cannot be moved to pos.
FillNothing(n, r) == /\ MinOf(n, Space) > 0
                     /\ ~Hit
                     /\ \/ file_size > 0 /\ pos >= file_size /\ r = 0
                        \/ /\ file_size = 0 \/ pos < file_size
                           /\ cache_enable = 1 /\ low > 0 /\ low # pos
                           /\ r = FAILED
                     /\ UNCHANGED <<ring, below>>

\* Where the protocol reads: it is moved first if the cache was used before.
From == IF cache_enable = 1 /\ low > 0 THEN pos ELSE low

\* url_read, and aviolp_cache_write of what it returned.
FillRead(n, r) ==
    /\ MinOf(n, Space) > 0
    /\ ~Hit
    /\ file_size = 0 \/ pos < file_size
    /\ \/ /\ r \in 1 .. MinOf(MinOf(n, Space), FileSize - From)
          /\ Store(r, From)
          /\ low' = From + r
          /\ cached' = IF cache_enable = 1 /\ pos + r <= CacheSize
                       THEN cached \cup (pos .. pos + r - 1) ELSE cached
       \/ /\ \/ r \in {AGAIN, FAILED}
             \/ r = 0 /\ From >= FileSize
          /\ low' = From
          /\ UNCHANGED <<ring, cached>>

Fill(n, r) == FillFull(n, r) \/ FillCached(n, r) \/ FillNothing(n, r) \/ FillRead(n, r)

\* The values that a fill returns.
Result == {AGAIN, FAILED} \cup (0 .. Size)

-----------------------------------------------------------------------------

Init == /\ buffer = [c \in Cell |-> -1]
        /\ rp = 0 /\ wp = 0 /\ valid_data_size = 0 /\ pos = 0
        /\ low = 0
        /\ cache_enable \in {0, 1}
        /\ cached \in {{}, IF cache_enable = 1 THEN 0 .. CacheSize - 1 ELSE {}}
        /\ file_size \in {0, FileSize}
        /\ media \in {"slow", "streamed"}
        /\ op = "none" /\ size = 0 /\ len = 0 /\ goal = 0
        /\ data = <<>>

\* url_lp_intelligent_buffering: read ahead, unless old data would be lost too soon.
Buffer == /\ op = "none"
          /\ Back + Forward < Size - SLACK \/ Back > MinOf(Forward \div 2 + 1, ENOUGH)
          /\ \E r \in Result : Fill(BlockSize, r)
          /\ data' = <<>>
          /\ UNCHANGED <<source, call>>

ReadCall(n) == /\ op = "none"
               /\ op' = "read" /\ size' = n /\ len' = n
               /\ data' = <<>>
               /\ UNCHANGED <<ring, below, source, goal>>

Return == op' = "none" /\ size' = 0 /\ len' = 0 /\ goal' = 0

\* One turn of the loop of url_lpread that finds data; a read seek drops it.
Copied == MinOf(len, Contiguous)

Copy == /\ op # "none"
        /\ Copied > 0
        /\ rp' = Advance(rp, Copied)
        /\ data' = IF op = "read" THEN [i \in 1 .. Copied |-> buffer[rp + i - 1]] ELSE <<>>
        /\ IF len = Copied THEN Return
           ELSE len' = len - Copied /\ UNCHANGED <<op, size, goal>>
        /\ UNCHANGED <<buffer, wp, valid_data_size, pos, below, source>>

\* A read that was short of data returns what it has; a read seek asks for the rest.
Short(r) == IF op = "skip" /\ (size > len \/ r = AGAIN)
            THEN size' = len /\ UNCHANGED <<op, len, goal>>
            ELSE Return

\* One turn of that loop that finds none.
Refill == /\ op # "none"
          /\ Copied = 0
          /\ \E r \in Result : /\ Fill(BlockSize, r)
                               /\ IF r > 0 THEN UNCHANGED call ELSE Short(r)
          /\ data' = <<>>
          /\ UNCHANGED source

-----------------------------------------------------------------------------
\* url_lpseek to position x.

InRing(x) == x - PosOnRead \in -Back .. Forward

SeekInRing(x) ==
    /\ InRing(x)
    /\ rp' = IF x >= PosOnRead THEN Advance(rp, x - PosOnRead) ELSE Retreat(rp, PosOnRead - x)
    /\ UNCHANGED <<buffer, wp, valid_data_size, pos, below, call>>

\* Reading on is cheaper than a seek, or the only way.
ReadSeek(x, limit) ==
    LET distance == x - PosOnRead
    IN  /\ distance > 0
        /\ \/ media = "streamed"
           \/ /\ media = "slow"
              /\ distance < Size - BlockSize /\ distance <= limit
              /\ file_size = 0 \/ distance < (3 * file_size) \div 4

SkipLess(x) == size' = x - PosOnRead /\ len' = x - PosOnRead    \* mutant: counted from rp

\* What a read seek reads beyond the buffer.
SkipSize(x) == size' = x - pos /\ len' = x - pos

SeekRead(x, limit) ==
    /\ ~InRing(x) /\ ReadSeek(x, limit)
    /\ rp' = Advance(rp, Forward)
    /\ op' = "skip" /\ goal' = x /\ SkipSize(x)
    /\ UNCHANGED <<buffer, wp, valid_data_size, pos, below>>

\* The ring starts anew at position x.
Restart(x) == /\ rp' = 0 /\ wp' = 0 /\ valid_data_size' = 0
              /\ pos' = x
              /\ UNCHANGED buffer

\* A seek of the protocol; with a cache only when the cache misses.  If it fails the
\* protocol is moved back to pos, if that works.
SeekLow(x, limit) ==
    /\ ~InRing(x) /\ ~ReadSeek(x, limit)
    /\ \/ media = "streamed" /\ UNCHANGED <<ring, low>>           \* no url_seek
       \/ IF cache_enable = 1 /\ x < file_size THEN Restart(x) /\ UNCHANGED low
          ELSE \/ Restart(x) /\ low' = x
               \/ /\ valid_data_size' = 0
                  /\ low' \in {low, pos}
                  /\ UNCHANGED <<buffer, rp, wp, pos>>
    /\ UNCHANGED <<cached, call>>

Seek(x) == /\ op = "none"
           /\ \/ SeekInRing(x)
              \/ \E limit \in MaxReadSeek : SeekRead(x, limit) \/ SeekLow(x, limit)
           /\ data' = <<>>
           /\ UNCHANGED source

\* SEEK_END always goes to the protocol.
SeekEnd(x) == /\ op = "none"
              /\ Restart(x)
              /\ low' = x
              /\ data' = <<>>
              /\ UNCHANGED <<cached, source, call>>

Next == \/ Buffer
        \/ \E n \in ReadSize : ReadCall(n)
        \/ Copy
        \/ Refill
        \/ \E x \in 0 .. FileSize : Seek(x) \/ SeekEnd(x)

Spec == Init /\ [][Next]_vars

-----------------------------------------------------------------------------

Byte == -1 .. FileSize - 1

TypeOK == /\ buffer \in [Cell -> Byte]
          /\ rp \in Cell /\ wp \in Cell
          /\ valid_data_size \in Nat /\ pos \in Nat /\ low \in Nat
          /\ cached \subseteq 0 .. FileSize - 1
          /\ cache_enable \in {0, 1} /\ file_size \in {0, FileSize}
          /\ media \in {"slow", "streamed"}
          /\ op \in {"none", "read", "skip"}
          /\ size \in Nat /\ len \in 0 .. size /\ goal \in Nat
          /\ data \in Seq(Byte)

\* Every byte that a seek inside the ring may go back to, and every byte read ahead, is
\* still there: a fill never overwrites one of them.
WindowIsStream ==
    cache_enable = 0 =>
        /\ \A k \in 0 .. Forward - 1 : buffer[Advance(rp, k)] = PosOnRead + k
        /\ \A k \in 1 .. Back : buffer[Retreat(rp, k)] = PosOnRead - k

\* A read that finds no data can fill: a ring without room would look like the end of
\* the file to the demuxer.
NoFalseEnd == op # "none" /\ Copied = 0 => Space > 0

\* A read seek stays on course: it reads exactly as much as is missing to its goal.
SkipOnCourse == op = "skip" => PosOnRead + len = goal

\* The demuxer sees the stream: every copy is the bytes at its position, and only a copy,
\* a seek or what a read seek drops moves that position.  So a fill never makes a full ring
\* look like an empty one, and a seek inside the ring ends where it should.
TheStream == INSTANCE Stream WITH at <- PosOnRead

StreamStep ==
    \/ TheStream!Move(PosOnRead)
    \/ /\ op = "read"
       /\ \E n \in 1 .. Size : TheStream!Deliver(n)
    \/ /\ op = "skip"
       /\ \E y \in PosOnRead .. goal : TheStream!Move(y)
    \/ /\ op = "none"
       /\ \E x \in 0 .. FileSize :
             /\ \E y \in {x, PosOnRead, pos} : TheStream!Move(y)
             /\ Seek(x) \/ SeekEnd(x)

StreamSteps == [][cache_enable = 0 => StreamStep]_vars

\* Data from the protocol is data for wp: "maybe do read from cache file before,so seek
\* it now".
ReadAtPosition == [][low' # low /\ pos' > pos => low' = pos']_vars
=============================================================================
