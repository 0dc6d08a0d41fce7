-------------------------- MODULE LoopBufferProofs --------------------------
(***************************************************************************)
(* Proofs about LoopBuffer, for every size of the ring, the stream, the    *)
(* cache and the reads: the ring keeps the stream, and the demuxer sees it.*)
(***************************************************************************)
EXTENDS LoopBuffer, TLAPS

\* Without a cache the bytes before wp are the last bytes of the stream before pos: as
\* many as were stored since the ring was restarted, and those that wait for the demuxer.
Kept(k) == k <= valid_data_size \/ k <= Forward

Before == \A k \in 1 .. Size : Kept(k) => buffer[Retreat(wp, k)] = pos - k

\* Without a cache the protocol is where the next byte is stored.
Synchronous == low = pos /\ pos <= FileSize

Ring == cache_enable = 0 => Synchronous /\ Before

\* A call in progress still wants bytes, and a read seek just what is missing.
Course == /\ op # "none" => len > 0
          /\ SkipOnCourse

RingInv == TypeOK /\ Ring /\ Course

-----------------------------------------------------------------------------
(* The arithmetic of the ring. *)

LEMMA ForwardRange ==
    ASSUME rp \in Cell, wp \in Cell
    PROVE  Forward \in 0 .. Size - 1
  BY BufferAssumption DEF Forward, Cell

LEMMA AdvanceInCell ==
    ASSUME NEW i \in Cell, NEW n \in 0 .. Size
    PROVE  Advance(i, n) \in Cell
  BY BufferAssumption DEF Advance, Cell

LEMMA RetreatInCell ==
    ASSUME NEW i \in Cell, NEW n \in 0 .. Size
    PROVE  Retreat(i, n) \in Cell
  BY BufferAssumption DEF Retreat, Cell

\* Places between rp and wp, counted from either end.
LEMMA FromEitherEnd ==
    ASSUME rp \in Cell, wp \in Cell, NEW k \in 0 .. Forward - 1
    PROVE  Advance(rp, k) = Retreat(wp, Forward - k)
  BY BufferAssumption DEF Advance, Retreat, Forward, Cell

LEMMA BehindEitherEnd ==
    ASSUME rp \in Cell, wp \in Cell, NEW k \in 1 .. Size, Forward + k <= Size
    PROVE  Retreat(rp, k) = Retreat(wp, Forward + k)
  BY BufferAssumption DEF Retreat, Forward, Cell

\* The demuxer's pointer moves on by at most what is there, and back by less than a turn.
LEMMA ForwardAfterAdvance ==
    ASSUME rp \in Cell, wp \in Cell, NEW n \in 0 .. Forward,
           rp' = Advance(rp, n), wp' = wp
    PROVE  Forward' = Forward - n
  BY BufferAssumption DEF Advance, Forward, Cell

LEMMA ForwardAfterRetreat ==
    ASSUME rp \in Cell, wp \in Cell, NEW n \in 0 .. Size - 1 - Forward,
           rp' = Retreat(rp, n), wp' = wp
    PROVE  Forward' = Forward + n
  BY BufferAssumption DEF Retreat, Forward, Cell

\* A fill finds room for fewer bytes than would bring wp round to rp.
LEMMA SpaceLeaves ==
    ASSUME rp \in Cell, wp \in Cell, NEW n \in 1 .. Space
    PROVE  /\ wp + n <= Size
           /\ Forward + n <= Size - 1
  BY BufferAssumption DEF Space, Forward, Cell

LEMMA ForwardAfterStore ==
    ASSUME rp \in Cell, wp \in Cell, NEW n \in 1 .. Space,
           wp' = Advance(wp, n), rp' = rp
    PROVE  Forward' = Forward + n
  BY BufferAssumption, SpaceLeaves DEF Advance, Forward, Cell, Space

\* What can be copied at once is there, and is not cut by the end of the buffer.
LEMMA ContiguousRange ==
    ASSUME rp \in Cell, wp \in Cell
    PROVE  Contiguous \in 0 .. Forward /\ rp + Contiguous <= Size
  BY BufferAssumption DEF Contiguous, Forward, Cell

LEMMA BackRange ==
    ASSUME rp \in Cell, wp \in Cell, valid_data_size \in Nat
    PROVE  /\ Back \in 0 .. Size
           /\ Back > 0 => /\ Forward + Back <= valid_data_size
                          /\ Forward + Back <= Size - 1
  BY BufferAssumption, ForwardRange DEF Back, MaxOf, MinOf, Cell

-----------------------------------------------------------------------------
(* What a fill does: it stores bytes, of the stream's next without a cache, or nothing. *)

Stored(r) == /\ r \in 1 .. Space
             /\ low' \in Nat /\ cached' \subseteq 0 .. FileSize - 1
             /\ \E b \in Nat : /\ b + r <= FileSize
                               /\ Store(r, b)
                               /\ cache_enable = 0 => b = low /\ low' = b + r

Idle(r) == /\ r <= 0
           /\ low' \in Nat /\ cached' = cached
           /\ cache_enable = 0 => low' = low
           /\ UNCHANGED ring

LEMMA FillOutcome ==
    ASSUME TypeOK, NEW n \in Nat, NEW r \in Result, Fill(n, r)
    PROVE  Stored(r) \/ Idle(r)
<1>1. Space \in Int
  BY BufferAssumption DEF Space, TypeOK, Cell
<1>2. MinOf(n, Space) \in Int /\ MinOf(n, Space) <= Space
  BY <1>1 DEF MinOf
<1>3. r \in Int
  BY BufferAssumption DEF Result, AGAIN, FAILED
<1>4. From \in Nat /\ (cache_enable = 0 => From = low)
  BY DEF From, TypeOK
<1>5. CASE FillFull(n, r)
  BY <1>5 DEF FillFull, Idle, below, TypeOK
<1>6. CASE FillCached(n, r)
  <2>1. r \in 1 .. Space
    BY <1>1, <1>2, <1>6 DEF FillCached
  <2>2. pos + r <= FileSize
    <3>1. pos .. pos + r - 1 \subseteq 0 .. FileSize - 1 /\ pos \in Nat
      BY <1>6 DEF FillCached, TypeOK
    <3>2. pos + r - 1 \in pos .. pos + r - 1
      BY <1>1, <2>1, <3>1
    <3> QED BY <1>1, <2>1, <3>1, <3>2, BufferAssumption
  <2>3. cache_enable = 1 /\ Store(r, pos) /\ low' = low /\ cached' = cached
    BY <1>6 DEF FillCached, Hit, below
  <2> QED BY <2>1, <2>2, <2>3 DEF Stored, TypeOK
<1>7. CASE FillNothing(n, r)
  BY <1>7 DEF FillNothing, Idle, FAILED, below, TypeOK
<1>8. CASE FillRead(n, r)
  <2>1. CASE /\ r \in 1 .. MinOf(MinOf(n, Space), FileSize - From)
             /\ Store(r, From)
             /\ low' = From + r
             /\ cached' = IF cache_enable = 1 /\ pos + r <= CacheSize
                          THEN cached \cup (pos .. pos + r - 1) ELSE cached
    <3>1. r \in 1 .. Space /\ From + r <= FileSize
      BY <1>1, <1>2, <1>4, <2>1, BufferAssumption DEF MinOf
    <3>2. cached' \subseteq 0 .. FileSize - 1
      BY <2>1, <3>1, BufferAssumption DEF TypeOK
    <3> QED BY <1>4, <2>1, <3>1, <3>2 DEF Stored
  <2>2. CASE /\ r \in {AGAIN, FAILED} \/ (r = 0 /\ From >= FileSize)
             /\ low' = From
             /\ UNCHANGED <<ring, cached>>
    <3>1. r <= 0
      BY <2>2 DEF AGAIN, FAILED
    <3> QED BY <1>4, <2>2, <3>1 DEF Idle
  <2> QED BY <1>8, <2>1, <2>2 DEF FillRead
<1> QED BY <1>5, <1>6, <1>7, <1>8 DEF Fill

LEMMA StoreTypes ==
    ASSUME TypeOK, NEW r \in 1 .. Space, NEW b \in Nat, b + r <= FileSize, Store(r, b)
    PROVE  /\ buffer' \in [Cell -> Byte]
           /\ rp' \in Cell /\ wp' \in Cell
           /\ valid_data_size' \in Nat /\ pos' \in Nat
           /\ Forward' = Forward + r
           /\ PosOnRead' = PosOnRead
<1>1. rp \in Cell /\ wp \in Cell /\ buffer \in [Cell -> Byte] /\ valid_data_size \in Nat /\ pos \in Nat
  BY DEF TypeOK
<1>2. r \in Int /\ Space \in Int
  BY <1>1, BufferAssumption DEF Space, Cell
<1>3. wp + r <= Size
  BY <1>1, SpaceLeaves
<1>4. buffer' \in [Cell -> Byte]
  <2>1. ASSUME NEW c \in Cell, c \in wp .. wp + r - 1
        PROVE  b + (c - wp) \in Byte
    BY <1>1, <1>2, <2>1, BufferAssumption DEF Byte, Cell
  <2>2. \A c \in Cell : (IF c \in wp .. wp + r - 1 THEN b + (c - wp) ELSE buffer[c]) \in Byte
    BY <1>1, <2>1
  <2> QED BY <2>2 DEF Store
<1>5. wp' = Advance(wp, r) /\ rp' = rp /\ valid_data_size' = valid_data_size + r /\ pos' = pos + r
  BY DEF Store
<1>6. wp' \in Cell
  BY <1>1, <1>2, <1>3, <1>5, BufferAssumption DEF Advance, Cell
<1>7. Forward' = Forward + r
  BY <1>1, <1>5, ForwardAfterStore
<1>8. PosOnRead' = PosOnRead
  BY <1>1, <1>2, <1>5, <1>7, ForwardRange DEF PosOnRead
<1> QED BY <1>1, <1>2, <1>4, <1>5, <1>6, <1>7, <1>8

\* A fill overwrites no byte that is kept: those are before wp by less than a turn.
LEMMA StoreKeeps ==
    ASSUME TypeOK, Before, NEW r \in 1 .. Space, pos + r <= FileSize, Store(r, pos)
    PROVE  Before'
<1>1. rp \in Cell /\ wp \in Cell /\ buffer \in [Cell -> Byte] /\ valid_data_size \in Nat /\ pos \in Nat
  BY DEF TypeOK
<1>2. r \in Nat \ {0} /\ Space \in Int /\ r <= Space
  BY <1>1, BufferAssumption DEF Space, Cell
<1>3. wp + r <= Size /\ r <= Size - 1
  <2>1. wp + r <= Size /\ Forward + r <= Size - 1
    BY <1>1, SpaceLeaves
  <2> QED BY <1>1, <1>2, <2>1, ForwardRange, BufferAssumption
<1>4. Forward' = Forward + r /\ Forward \in 0 .. Size - 1
  BY <1>1, StoreTypes, ForwardRange
<1>5. wp' = Advance(wp, r) /\ valid_data_size' = valid_data_size + r /\ pos' = pos + r
  BY DEF Store
<1>6. SUFFICES ASSUME NEW k \in 1 .. Size, k <= valid_data_size' \/ k <= Forward'
               PROVE  buffer'[Retreat(wp', k)] = pos' - k
  BY DEF Before, Kept, Retreat
<1>7. CASE k <= r
  <2>1. Retreat(wp', k) = wp + r - k /\ wp + r - k \in Cell
    BY <1>1, <1>2, <1>3, <1>5, <1>7, BufferAssumption DEF Advance, Retreat, Cell
  <2>2. wp + r - k \in wp .. wp + r - 1
    BY <1>1, <1>2, <1>7 DEF Cell
  <2>3. buffer'[wp + r - k] = pos + ((wp + r - k) - wp)
    BY <2>1, <2>2 DEF Store
  <2> QED BY <1>1, <1>2, <1>5, <2>1, <2>3 DEF Cell
<1>8. CASE k > r
  <2>1. k - r \in 1 .. Size /\ Kept(k - r)
    BY <1>1, <1>2, <1>4, <1>5, <1>6, <1>8, BufferAssumption DEF Kept
  <2>2. buffer[Retreat(wp, k - r)] = pos - (k - r)
    BY <2>1 DEF Before
  <2>3. Retreat(wp', k) = Retreat(wp, k - r) /\ Retreat(wp, k - r) \in Cell
    BY <1>1, <1>2, <1>3, <1>5, <1>8, BufferAssumption DEF Advance, Retreat, Cell
  <2>4. Retreat(wp, k - r) \notin wp .. wp + r - 1
    BY <1>1, <1>2, <1>3, <1>8, BufferAssumption DEF Retreat, Cell
  <2>5. buffer'[Retreat(wp, k - r)] = buffer[Retreat(wp, k - r)]
    BY <2>3, <2>4 DEF Store
  <2> QED BY <1>1, <1>2, <1>5, <2>2, <2>3, <2>5
<1> QED BY <1>2, <1>7, <1>8

\* So a fill keeps the ring and the demuxer's position, whatever it returns.
LEMMA FillKeeps ==
    ASSUME TypeOK, Ring, NEW n \in Nat, NEW r \in Result, Fill(n, r), UNCHANGED source
    PROVE  /\ buffer' \in [Cell -> Byte]
           /\ rp' \in Cell /\ wp' \in Cell
           /\ valid_data_size' \in Nat /\ pos' \in Nat /\ low' \in Nat
           /\ cached' \subseteq 0 .. FileSize - 1
           /\ PosOnRead' = PosOnRead
           /\ Ring'
<1>1. CASE Idle(r)
  <2>1. UNCHANGED <<buffer, rp, wp, valid_data_size, pos, cache_enable>>
    BY <1>1 DEF Idle, ring, source
  <2>2. Ring'
    BY <1>1, <2>1 DEF Idle, Ring, Synchronous, Before, Kept, Forward, Retreat
  <2> QED BY <1>1, <2>1, <2>2 DEF Idle, TypeOK, PosOnRead, Forward
<1>2. CASE Stored(r)
  <2>1. PICK b \in Nat : /\ b + r <= FileSize
                         /\ Store(r, b)
                         /\ cache_enable = 0 => b = low /\ low' = b + r
    BY <1>2 DEF Stored
  <2>2. r \in 1 .. Space /\ low' \in Nat /\ cached' \subseteq 0 .. FileSize - 1
    BY <1>2 DEF Stored
  <2>3. Ring'
    <3>1. SUFFICES ASSUME cache_enable = 0
                   PROVE  Synchronous' /\ Before'
      BY DEF Ring, source
    <3>2. Synchronous /\ Before
      BY <3>1 DEF Ring
    <3>3. b = pos /\ low' = pos + r
      BY <2>1, <3>1, <3>2 DEF Synchronous
    <3>4. Before'
      BY <2>1, <2>2, <3>2, <3>3, StoreKeeps
    <3>5. Synchronous'
      BY <2>1, <3>3 DEF Synchronous, Store
    <3> QED BY <3>4, <3>5
  <2> QED BY <2>1, <2>2, <2>3, StoreTypes
<1> QED BY <1>1, <1>2, FillOutcome

-----------------------------------------------------------------------------
(* The steps.  Each keeps the types, the ring and the course of a read seek. *)

LEMMA RingInit == Init => RingInv
<1> SUFFICES ASSUME Init PROVE RingInv
  OBVIOUS
<1>1. 0 \in Cell /\ -1 \in Byte
  BY BufferAssumption DEF Cell, Byte
<1>2. cached \subseteq 0 .. FileSize - 1
  BY BufferAssumption DEF Init
<1>3. TypeOK
  BY <1>1, <1>2, BufferAssumption DEF Init, TypeOK
<1>4. Ring
  BY BufferAssumption DEF Init, Ring, Synchronous, Before, Kept, Forward
<1>5. Course
  BY DEF Init, Course, SkipOnCourse
<1> QED BY <1>3, <1>4, <1>5 DEF RingInv

LEMMA BufferStep ==
    ASSUME RingInv, Buffer
    PROVE  RingInv' /\ PosOnRead' = PosOnRead
<1>1. PICK r \in Result : Fill(BlockSize, r)
  BY DEF Buffer
<1>2. UNCHANGED <<source, call>> /\ data' = <<>> /\ op = "none"
  BY DEF Buffer
<1>3. /\ buffer' \in [Cell -> Byte]
      /\ rp' \in Cell /\ wp' \in Cell
      /\ valid_data_size' \in Nat /\ pos' \in Nat /\ low' \in Nat
      /\ cached' \subseteq 0 .. FileSize - 1
      /\ PosOnRead' = PosOnRead
      /\ Ring'
  BY <1>1, <1>2, FillKeeps, BufferAssumption DEF RingInv
<1>4. TypeOK'
  BY <1>2, <1>3 DEF RingInv, TypeOK, source, call
<1>5. Course'
  BY <1>2 DEF Course, SkipOnCourse, call
<1> QED BY <1>3, <1>4, <1>5 DEF RingInv

LEMMA ReadCallStep ==
    ASSUME RingInv, NEW n \in ReadSize, ReadCall(n)
    PROVE  RingInv' /\ PosOnRead' = PosOnRead
<1>1. n \in Nat \ {0}
  BY BufferAssumption
<1>2. TypeOK'
  BY <1>1 DEF RingInv, TypeOK, ReadCall, ring, below, source
<1>3. Ring'
  BY DEF RingInv, Ring, Synchronous, Before, Kept, Forward, Retreat, ReadCall, ring, below, source
<1>4. Course'
  BY <1>1 DEF Course, SkipOnCourse, ReadCall
<1>5. PosOnRead' = PosOnRead
  BY DEF PosOnRead, Forward, ReadCall, ring
<1> QED BY <1>2, <1>3, <1>4, <1>5 DEF RingInv

\* The bytes that a copy takes are there.
LEMMA CopiedRange ==
    ASSUME TypeOK
    PROVE  Copied \in Nat /\ Copied <= len /\ Copied <= Contiguous /\ Copied <= Forward
<1>1. Contiguous \in 0 .. Forward /\ Forward \in 0 .. Size - 1
  BY ContiguousRange, ForwardRange DEF TypeOK
<1>2. len \in Nat
  BY DEF TypeOK
<1> QED BY <1>1, <1>2, BufferAssumption DEF Copied, MinOf

LEMMA CopyStep ==
    ASSUME RingInv, Copy
    PROVE  RingInv' /\ PosOnRead' = PosOnRead + Copied
<1>1. TypeOK /\ Ring /\ Course
  BY DEF RingInv
<1>2. rp \in Cell /\ wp \in Cell /\ pos \in Nat /\ size \in Nat /\ len \in 0 .. size
  BY <1>1 DEF TypeOK
<1>3. Copied \in Nat /\ Copied <= len /\ Copied <= Contiguous /\ Copied <= Forward /\ Copied > 0
  BY <1>1, CopiedRange DEF Copy
<1>4. Forward \in 0 .. Size - 1 /\ rp + Contiguous <= Size /\ Contiguous \in 0 .. Forward
  BY <1>2, ForwardRange, ContiguousRange
<1>5. rp' = Advance(rp, Copied) /\ UNCHANGED <<buffer, wp, valid_data_size, pos, below, source>>
  BY DEF Copy
<1>6. Forward' = Forward - Copied
  BY <1>2, <1>3, <1>4, <1>5, ForwardAfterAdvance
<1>7. PosOnRead' = PosOnRead + Copied
  BY <1>2, <1>3, <1>4, <1>5, <1>6 DEF PosOnRead
<1>8. rp' \in Cell
  BY <1>2, <1>3, <1>4, <1>5, AdvanceInCell, BufferAssumption
<1>9. data' \in Seq(Byte)
  <2>1. CASE op = "read"
    <3>1. \A i \in 1 .. Copied : rp + i - 1 \in Cell
      BY <1>2, <1>3, <1>4, BufferAssumption DEF Cell
    <3>2. \A i \in 1 .. Copied : buffer[rp + i - 1] \in Byte
      BY <1>1, <3>1 DEF TypeOK
    <3>3. data' = [i \in 1 .. Copied |-> buffer[rp + i - 1]]
      BY <2>1 DEF Copy
    <3> QED BY <1>3, <3>2, <3>3
  <2>2. CASE op # "read"
    BY <2>2 DEF Copy
  <2> QED BY <2>1, <2>2
<1>10. /\ op' \in {"none", "read", "skip"}
       /\ size' \in Nat /\ len' \in 0 .. size' /\ goal' \in Nat
       /\ Course'
  <2>1. CASE len = Copied
    BY <2>1 DEF Copy, Return, Course, SkipOnCourse
  <2>2. CASE len # Copied
    <3>1. len' = len - Copied /\ op' = op /\ size' = size /\ goal' = goal
      BY <2>2 DEF Copy
    <3>2. PosOnRead \in Int
      BY <1>2, <1>4 DEF PosOnRead
    <3> QED BY <1>1, <1>2, <1>3, <1>7, <2>2, <3>1, <3>2 DEF TypeOK, Course, SkipOnCourse
  <2> QED BY <2>1, <2>2
<1>11. TypeOK'
  BY <1>1, <1>5, <1>8, <1>9, <1>10 DEF TypeOK, below, source
<1>12. Ring'
  <2>1. SUFFICES ASSUME cache_enable = 0
                 PROVE  Synchronous' /\ Before'
    BY <1>5 DEF Ring, source
  <2>2. Synchronous'
    BY <1>1, <1>5, <2>1 DEF Ring, Synchronous, below
  <2>3. \A k \in 1 .. Size : Kept(k)' => Kept(k)
    BY <1>3, <1>4, <1>5, <1>6 DEF Kept
  <2>4. Before'
    BY <1>1, <1>5, <2>1, <2>3 DEF Ring, Before, Retreat
  <2> QED BY <2>2, <2>4
<1> QED BY <1>7, <1>10, <1>11, <1>12 DEF RingInv

LEMMA RefillStep ==
    ASSUME RingInv, Refill
    PROVE  RingInv' /\ PosOnRead' = PosOnRead
<1>1. PICK r \in Result : Fill(BlockSize, r) /\ IF r > 0 THEN UNCHANGED call ELSE Short(r)
  BY DEF Refill
<1>2. UNCHANGED source /\ data' = <<>> /\ op # "none"
  BY DEF Refill
<1>3. /\ buffer' \in [Cell -> Byte]
      /\ rp' \in Cell /\ wp' \in Cell
      /\ valid_data_size' \in Nat /\ pos' \in Nat /\ low' \in Nat
      /\ cached' \subseteq 0 .. FileSize - 1
      /\ PosOnRead' = PosOnRead
      /\ Ring'
  BY <1>1, <1>2, FillKeeps, BufferAssumption DEF RingInv
<1>4. /\ op' \in {"none", "read", "skip"}
      /\ size' \in Nat /\ len' \in 0 .. size' /\ goal' \in Nat
      /\ Course'
  BY <1>1, <1>3 DEF RingInv, TypeOK, Course, SkipOnCourse, Short, Return, call
<1>5. TypeOK'
  BY <1>2, <1>3, <1>4 DEF RingInv, TypeOK, source
<1> QED BY <1>3, <1>4, <1>5 DEF RingInv

\* A restarted ring keeps nothing.
LEMMA RestartKeeps ==
    ASSUME TypeOK, NEW x \in 0 .. FileSize, Restart(x), UNCHANGED source,
           cache_enable = 0 => low' = x
    PROVE  /\ buffer' \in [Cell -> Byte]
           /\ rp' \in Cell /\ wp' \in Cell
           /\ valid_data_size' \in Nat /\ pos' \in Nat
           /\ PosOnRead' = x
           /\ Ring'
<1>1. 0 \in Cell /\ x \in Nat /\ x <= FileSize
  BY BufferAssumption DEF Cell
<1>2. rp' = 0 /\ wp' = 0 /\ valid_data_size' = 0 /\ pos' = x /\ buffer' = buffer
  BY DEF Restart
<1>3. Forward' = 0
  BY <1>2 DEF Forward
<1>4. PosOnRead' = x
  BY <1>1, <1>2, <1>3 DEF PosOnRead
<1>5. Before'
  BY <1>2, <1>3 DEF Before, Kept
<1>6. Ring'
  BY <1>1, <1>2, <1>5 DEF Ring, Synchronous, source
<1> QED BY <1>1, <1>2, <1>4, <1>6 DEF TypeOK

LEMMA SeekStep ==
    ASSUME RingInv, NEW x \in 0 .. FileSize, Seek(x)
    PROVE  RingInv' /\ PosOnRead' \in {x, PosOnRead, pos}
<1>1. TypeOK /\ Ring /\ Course /\ op = "none" /\ x \in Nat /\ x <= FileSize
  BY BufferAssumption DEF RingInv, Seek
<1>2. rp \in Cell /\ wp \in Cell /\ pos \in Nat /\ valid_data_size \in Nat
  BY <1>1 DEF TypeOK
<1>3. Forward \in 0 .. Size - 1
  BY <1>2, ForwardRange
<1>4. /\ Back \in 0 .. Size
      /\ Back > 0 => /\ Forward + Back <= valid_data_size
                     /\ Forward + Back <= Size - 1
  BY <1>2, BackRange
<1>5. UNCHANGED source /\ data' = <<>> /\ PosOnRead = pos - Forward
  BY DEF Seek, PosOnRead
<1>6. CASE SeekInRing(x)
  <2>1. UNCHANGED <<buffer, wp, valid_data_size, pos, below, call>>
    BY <1>6 DEF SeekInRing
  <2>2. /\ rp' \in Cell /\ PosOnRead' = x
        /\ Forward' \in Nat /\ (Forward' <= Forward \/ Forward' <= valid_data_size)
    <3>1. CASE x >= PosOnRead
      <4>1. x - PosOnRead \in 0 .. Forward /\ rp' = Advance(rp, x - PosOnRead)
        BY <1>1, <1>2, <1>3, <1>4, <1>5, <1>6, <3>1, BufferAssumption DEF SeekInRing, InRing
      <4>2. rp' \in Cell
        BY <1>2, <1>3, <4>1, AdvanceInCell, BufferAssumption
      <4>3. Forward' = Forward - (x - PosOnRead)
        BY <1>2, <2>1, <4>1, ForwardAfterAdvance
      <4> QED BY <1>1, <1>2, <1>3, <1>5, <2>1, <4>1, <4>2, <4>3, BufferAssumption DEF PosOnRead
    <3>2. CASE ~(x >= PosOnRead)
      <4>1. PosOnRead - x \in 1 .. Back /\ rp' = Retreat(rp, PosOnRead - x)
        BY <1>1, <1>2, <1>3, <1>4, <1>5, <1>6, <3>2, BufferAssumption DEF SeekInRing, InRing
      <4>2. PosOnRead - x \in 0 .. Size - 1 - Forward
        BY <1>3, <1>4, <4>1, BufferAssumption
      <4>3. rp' \in Cell
        BY <1>2, <1>3, <4>1, <4>2, RetreatInCell, BufferAssumption
      <4>4. Forward' = Forward + (PosOnRead - x)
        BY <1>2, <2>1, <4>1, <4>2, ForwardAfterRetreat
      <4> QED BY <1>1, <1>2, <1>3, <1>4, <1>5, <2>1, <4>1, <4>3, <4>4, BufferAssumption DEF PosOnRead
    <3> QED BY <3>1, <3>2
  <2>3. TypeOK'
    BY <1>1, <1>5, <2>1, <2>2 DEF TypeOK, below, source, call
  <2>4. Ring'
    <3>1. SUFFICES ASSUME cache_enable = 0
                   PROVE  Synchronous' /\ Before'
      BY <1>5 DEF Ring, source
    <3>2. Synchronous'
      BY <1>1, <2>1, <3>1 DEF Ring, Synchronous, below
    <3>3. \A k \in 1 .. Size : Kept(k)' => Kept(k)
      BY <1>2, <1>3, <2>1, <2>2 DEF Kept
    <3>4. Before'
      BY <1>1, <2>1, <3>1, <3>3 DEF Ring, Before, Retreat
    <3> QED BY <3>2, <3>4
  <2>5. Course'
    BY <1>1, <2>1 DEF Course, SkipOnCourse, call
  <2> QED BY <2>2, <2>3, <2>4, <2>5 DEF RingInv
<1>7. ASSUME NEW limit \in MaxReadSeek, SeekRead(x, limit)
      PROVE  RingInv' /\ PosOnRead' = pos
  <2>1. UNCHANGED <<buffer, wp, valid_data_size, pos, below>> /\ rp' = Advance(rp, Forward)
    BY <1>7 DEF SeekRead
  <2>2. x - pos \in Nat /\ x - pos > 0
    BY <1>1, <1>2, <1>3, <1>4, <1>5, <1>7 DEF SeekRead, InRing, ReadSeek
  <2>3. op' = "skip" /\ goal' = x /\ size' = x - pos /\ len' = x - pos
    BY <1>7 DEF SeekRead, SkipSize
  <2>4. rp' \in Cell
    BY <1>2, <1>3, <2>1, AdvanceInCell, BufferAssumption
  <2>5. Forward' = 0
    BY <1>2, <1>3, <2>1, ForwardAfterAdvance
  <2>6. PosOnRead' = pos
    BY <1>2, <2>1, <2>5 DEF PosOnRead
  <2>7. TypeOK'
    BY <1>1, <1>5, <2>1, <2>2, <2>3, <2>4 DEF TypeOK, below, source
  <2>8. Ring'
    <3>1. SUFFICES ASSUME cache_enable = 0
                   PROVE  Synchronous' /\ Before'
      BY <1>5 DEF Ring, source
    <3>2. Synchronous'
      BY <1>1, <2>1, <3>1 DEF Ring, Synchronous, below
    <3>3. Before'
      BY <1>1, <2>1, <2>5, <3>1 DEF Ring, Before, Kept, Retreat
    <3> QED BY <3>2, <3>3
  <2>9. Course'
    BY <1>1, <1>2, <2>1, <2>2, <2>3, <2>6 DEF Course, SkipOnCourse
  <2> QED BY <2>6, <2>7, <2>8, <2>9 DEF RingInv
<1>8. ASSUME NEW limit \in MaxReadSeek, SeekLow(x, limit)
      PROVE  RingInv' /\ PosOnRead' \in {x, PosOnRead}
  <2>1. cached' = cached /\ UNCHANGED call
    BY <1>8 DEF SeekLow
  <2>2. Course'
    BY <1>1, <2>1 DEF Course, SkipOnCourse, call
  <2>3. CASE UNCHANGED <<ring, low>>
    <3>1. TypeOK' /\ PosOnRead' = PosOnRead
      BY <1>1, <1>5, <2>1, <2>3 DEF TypeOK, ring, source, call, PosOnRead, Forward
    <3>2. Ring'
      BY <1>1, <1>5, <2>3 DEF Ring, Synchronous, Before, Kept, Forward, Retreat, ring, source
    <3> QED BY <2>2, <3>1, <3>2 DEF RingInv
  <2>4. CASE Restart(x) /\ (low' = x \/ (cache_enable = 1 /\ low' = low))
    <3>1. low' \in Nat /\ (cache_enable = 0 => low' = x)
      BY <1>1, <2>4 DEF TypeOK
    <3>2. /\ buffer' \in [Cell -> Byte]
          /\ rp' \in Cell /\ wp' \in Cell
          /\ valid_data_size' \in Nat /\ pos' \in Nat
          /\ PosOnRead' = x
          /\ Ring'
      BY <1>1, <1>5, <2>4, <3>1, RestartKeeps
    <3>3. TypeOK'
      BY <1>1, <1>5, <2>1, <3>1, <3>2 DEF TypeOK, source, call
    <3> QED BY <2>2, <3>2, <3>3 DEF RingInv
  <2>5. CASE /\ valid_data_size' = 0
             /\ low' \in {low, pos}
             /\ UNCHANGED <<buffer, rp, wp, pos>>
    <3>1. TypeOK' /\ PosOnRead' = PosOnRead
      BY <1>1, <1>5, <2>1, <2>5 DEF TypeOK, source, call, PosOnRead, Forward
    <3>2. SUFFICES ASSUME cache_enable = 0
                   PROVE  Synchronous' /\ Before'
      BY <1>5, <2>2, <3>1 DEF Ring, RingInv, source
    <3>3. Synchronous'
      BY <1>1, <2>5, <3>2 DEF Ring, Synchronous
    <3>4. \A k \in 1 .. Size : Kept(k)' => Kept(k)
      BY <1>2, <2>5 DEF Kept, Forward
    <3>5. Before'
      BY <1>1, <2>5, <3>2, <3>4 DEF Ring, Before, Retreat
    <3> QED BY <3>3, <3>5
  <2> QED BY <1>8, <2>3, <2>4, <2>5 DEF SeekLow
<1> QED BY <1>6, <1>7, <1>8 DEF Seek

LEMMA SeekEndStep ==
    ASSUME RingInv, NEW x \in 0 .. FileSize, SeekEnd(x)
    PROVE  RingInv' /\ PosOnRead' = x
<1>1. /\ Restart(x) /\ low' = x /\ data' = <<>>
      /\ UNCHANGED <<cached, source, call>>
  BY DEF SeekEnd
<1>2. /\ buffer' \in [Cell -> Byte]
      /\ rp' \in Cell /\ wp' \in Cell
      /\ valid_data_size' \in Nat /\ pos' \in Nat
      /\ PosOnRead' = x
      /\ Ring'
  BY <1>1, RestartKeeps DEF RingInv
<1>3. TypeOK'
  BY <1>1, <1>2, BufferAssumption DEF RingInv, TypeOK, source, call
<1>4. Course'
  BY <1>1 DEF SeekEnd, Course, SkipOnCourse, call
<1> QED BY <1>2, <1>3, <1>4 DEF RingInv

-----------------------------------------------------------------------------
(* The results. *)

\* The invariant holds: every action keeps it.
THEOREM RingInductive == Spec => []RingInv
<1>1. RingInv /\ [Next]_vars => RingInv'
  <2> SUFFICES ASSUME RingInv, [Next]_vars PROVE RingInv'
    OBVIOUS
  <2>1. CASE Buffer
    BY <2>1, BufferStep
  <2>2. ASSUME NEW n \in ReadSize, ReadCall(n) PROVE RingInv'
    BY <2>2, ReadCallStep
  <2>3. CASE Copy
    BY <2>3, CopyStep
  <2>4. CASE Refill
    BY <2>4, RefillStep
  <2>5. ASSUME NEW x \in 0 .. FileSize, Seek(x) PROVE RingInv'
    BY <2>5, SeekStep
  <2>6. ASSUME NEW x \in 0 .. FileSize, SeekEnd(x) PROVE RingInv'
    BY <2>6, SeekEndStep
  <2>7. CASE UNCHANGED vars
    BY <2>7 DEF vars, ring, below, source, call, RingInv, TypeOK, Ring, Synchronous, Before, Kept,
                Forward, Retreat, Course, SkipOnCourse, PosOnRead
  <2> QED BY <2>1, <2>2, <2>3, <2>4, <2>5, <2>6, <2>7 DEF Next
<1> QED BY <1>1, RingInit, PTL DEF Spec

\* Pointers, positions, bytes and cache stay in range, for every size of the ring, the
\* stream and the cache.
THEOREM BufferTyped == Spec => []TypeOK
<1>1. RingInv => TypeOK
  BY DEF RingInv
<1> QED BY <1>1, RingInductive, PTL

\* What the demuxer can reach is the part of the kept bytes from Back behind rp to wp.
LEMMA WindowKept ==
    ASSUME RingInv
    PROVE  WindowIsStream
<1>1. TypeOK /\ Ring
  BY DEF RingInv
<1>2. rp \in Cell /\ wp \in Cell /\ pos \in Nat /\ valid_data_size \in Nat
  BY <1>1 DEF TypeOK
<1>3. Forward \in 0 .. Size - 1
  BY <1>2, ForwardRange
<1>4. /\ Back \in 0 .. Size
      /\ Back > 0 => /\ Forward + Back <= valid_data_size
                     /\ Forward + Back <= Size - 1
  BY <1>2, BackRange
<1>5. SUFFICES ASSUME cache_enable = 0
               PROVE  /\ \A k \in 0 .. Forward - 1 : buffer[Advance(rp, k)] = PosOnRead + k
                      /\ \A k \in 1 .. Back : buffer[Retreat(rp, k)] = PosOnRead - k
  BY DEF WindowIsStream
<1>6. Before
  BY <1>1, <1>5 DEF Ring
<1>7. ASSUME NEW k \in 0 .. Forward - 1
      PROVE  buffer[Advance(rp, k)] = PosOnRead + k
  <2>1. Forward - k \in 1 .. Size /\ Kept(Forward - k)
    BY <1>3, <1>7, BufferAssumption DEF Kept
  <2>2. buffer[Retreat(wp, Forward - k)] = pos - (Forward - k)
    BY <1>6, <2>1 DEF Before
  <2> QED BY <1>2, <1>3, <2>2, FromEitherEnd DEF PosOnRead
<1>8. ASSUME NEW k \in 1 .. Back
      PROVE  buffer[Retreat(rp, k)] = PosOnRead - k
  <2>1. Forward + k \in 1 .. Size /\ Kept(Forward + k) /\ k \in 1 .. Size
    BY <1>2, <1>3, <1>4, <1>8, BufferAssumption DEF Kept
  <2>2. buffer[Retreat(wp, Forward + k)] = pos - (Forward + k)
    BY <1>6, <2>1 DEF Before
  <2>3. Retreat(rp, k) = Retreat(wp, Forward + k)
    BY <1>2, <1>3, <2>1, BehindEitherEnd
  <2> QED BY <1>2, <1>3, <2>2, <2>3 DEF PosOnRead
<1> QED BY <1>7, <1>8

\* Every byte in front of the demuxer, and every byte that a seek back may reach, is the
\* stream's byte of its position: no fill overwrites one of them, whatever the sizes.
THEOREM WindowCorrect == Spec => []WindowIsStream
  BY RingInductive, WindowKept, PTL

\* A ring that holds nothing for the demuxer has room: a full ring never looks empty, and
\* url_lpread never takes it for the end of the file.
THEOREM NoEndMistaken == Spec => []NoFalseEnd
<1>1. RingInv => NoFalseEnd
  <2> SUFFICES ASSUME RingInv, op # "none", Copied = 0
               PROVE  Space > 0
    BY DEF NoFalseEnd
  <2>1. rp \in Cell /\ wp \in Cell /\ len \in Nat /\ len > 0
    BY DEF RingInv, TypeOK, Course
  <2>2. Contiguous = 0
    BY <2>1, ContiguousRange, ForwardRange, BufferAssumption DEF Copied, MinOf
  <2> QED BY <2>1, <2>2, BufferAssumption DEF Contiguous, Space, Cell
<1> QED BY <1>1, RingInductive, PTL

\* A read seek reads exactly what is missing to its goal, in however many pieces, short
\* reads and retries.
THEOREM SkipArrives == Spec => []SkipOnCourse
<1>1. RingInv => SkipOnCourse
  BY DEF RingInv, Course
<1> QED BY <1>1, RingInductive, PTL

\* A copy hands out the stream's bytes at the demuxer's position.
LEMMA CopyDelivers ==
    ASSUME RingInv, cache_enable = 0, Copy, op = "read"
    PROVE  \E n \in 1 .. Size : TheStream!Deliver(n)
<1>1. TypeOK /\ Ring /\ WindowIsStream
  BY WindowKept DEF RingInv
<1>2. rp \in Cell /\ wp \in Cell /\ pos \in Nat
  BY <1>1 DEF TypeOK
<1>3. Copied \in Nat /\ Copied > 0 /\ Copied <= Contiguous /\ Copied <= Forward
  BY <1>1, CopiedRange DEF Copy
<1>4. Forward \in 0 .. Size - 1 /\ rp + Contiguous <= Size /\ Contiguous \in 0 .. Forward
  BY <1>2, ForwardRange, ContiguousRange
<1>5. Copied \in 1 .. Size
  BY <1>3, <1>4, BufferAssumption
<1>6. data' = [i \in 1 .. Copied |-> buffer[rp + i - 1]]
  BY DEF Copy
<1>7. ASSUME NEW i \in 1 .. Copied
      PROVE  buffer[rp + i - 1] = PosOnRead + i - 1
  <2>1. i - 1 \in 0 .. Forward - 1
    BY <1>3, <1>4, <1>7
  <2>2. Advance(rp, i - 1) = rp + i - 1
    BY <1>2, <1>3, <1>4, <1>7, BufferAssumption DEF Advance, Cell
  <2>3. buffer[Advance(rp, i - 1)] = PosOnRead + (i - 1)
    BY <1>1, <2>1 DEF WindowIsStream
  <2> QED BY <1>2, <1>4, <1>7, <2>2, <2>3 DEF PosOnRead
<1>8. data' = [i \in 1 .. Copied |-> PosOnRead + i - 1]
  BY <1>6, <1>7
<1>9. PosOnRead' = PosOnRead + Copied
  BY CopyStep
<1> QED BY <1>5, <1>8, <1>9 DEF TheStream!Deliver

\* Without a cache the loop buffer implements a stream: only a copy hands out bytes, those
\* of the position, and only a copy, a seek or a read seek moves the position.
THEOREM BufferIsStream == Spec => StreamSteps
<1>1. RingInv /\ [Next]_vars => [cache_enable = 0 => StreamStep]_vars
  <2> SUFFICES ASSUME RingInv, Next, cache_enable = 0
               PROVE  StreamStep
    OBVIOUS
  <2>1. CASE Buffer
    BY <2>1, BufferStep DEF StreamStep, Buffer, TheStream!Move
  <2>2. ASSUME NEW n \in ReadSize, ReadCall(n) PROVE StreamStep
    BY <2>2, ReadCallStep DEF StreamStep, ReadCall, TheStream!Move
  <2>3. CASE Copy
    <3>1. op \in {"read", "skip"}
      BY <2>3 DEF RingInv, TypeOK, Copy
    <3>2. CASE op = "read"
      BY <2>3, <3>2, CopyDelivers DEF StreamStep
    <3>3. CASE op = "skip"
      <4>1. PosOnRead' = PosOnRead + Copied
        BY <2>3, CopyStep
      <4>2. PosOnRead + len = goal /\ PosOnRead \in Int /\ goal \in Nat /\ len \in Nat
        BY <3>3, ForwardRange, BufferAssumption DEF RingInv, TypeOK, Course, SkipOnCourse, PosOnRead
      <4>3. Copied \in Nat /\ Copied <= len
        BY CopiedRange DEF RingInv
      <4>4. PosOnRead' \in PosOnRead .. goal
        BY <4>1, <4>2, <4>3
      <4>5. data' = <<>>
        BY <2>3, <3>3 DEF Copy
      <4> QED BY <3>3, <4>4, <4>5 DEF StreamStep, TheStream!Move
    <3> QED BY <3>1, <3>2, <3>3
  <2>4. CASE Refill
    BY <2>4, RefillStep DEF StreamStep, Refill, TheStream!Move
  <2>5. ASSUME NEW x \in 0 .. FileSize, Seek(x) PROVE StreamStep
    <3>1. PosOnRead' \in {x, PosOnRead, pos} /\ data' = <<>> /\ op = "none"
      BY <2>5, SeekStep DEF Seek
    <3>2. \E y \in {x, PosOnRead, pos} : TheStream!Move(y)
      BY <3>1 DEF TheStream!Move
    <3> QED BY <2>5, <3>1, <3>2 DEF StreamStep
  <2>6. ASSUME NEW x \in 0 .. FileSize, SeekEnd(x) PROVE StreamStep
    <3>1. PosOnRead' = x /\ data' = <<>> /\ op = "none"
      BY <2>6, SeekEndStep DEF SeekEnd
    <3>2. \E y \in {x, PosOnRead, pos} : TheStream!Move(y)
      BY <3>1 DEF TheStream!Move
    <3> QED BY <2>6, <3>1, <3>2 DEF StreamStep
  <2> QED BY <2>1, <2>2, <2>3, <2>4, <2>5, <2>6 DEF Next
<1> QED BY <1>1, RingInductive, PTL DEF Spec, StreamSteps

\* What a read of the protocol brings is stored where it belongs.
LEMMA FillPlaced ==
    ASSUME RingInv, cache_enable = 0 \/ low > 0, low' # low, pos' > pos,
           NEW n \in Nat, NEW r \in Result, Fill(n, r)
    PROVE  low' = pos'
<1>1. pos \in Nat /\ low \in Nat
  BY DEF RingInv, TypeOK
<1>2. From = pos
  BY DEF From, RingInv, TypeOK, Ring, Synchronous
<1>3. FillRead(n, r)
  BY <1>1 DEF Fill, FillFull, FillCached, FillNothing, below, ring
<1>4. Store(r, From) /\ low' = From + r
  BY <1>1, <1>3 DEF FillRead, ring
<1> QED BY <1>2, <1>4 DEF Store

\* The protocol is at the wrong place only for the first read of a cached stream: without a
\* cache, and with one as soon as the protocol is not at the start of the stream any more,
\* what is read is the data for wp, after every seek that the cache hid from the protocol.
THEOREM ReadsPlaced ==
    Spec => [][cache_enable = 0 \/ low > 0
                  => (low' # low /\ pos' > pos => low' = pos')]_vars
<1>1. RingInv /\ [Next]_vars =>
         [cache_enable = 0 \/ low > 0 => (low' # low /\ pos' > pos => low' = pos')]_vars
  <2> SUFFICES ASSUME RingInv, Next, cache_enable = 0 \/ low > 0, low' # low, pos' > pos
               PROVE  low' = pos'
    OBVIOUS
  <2>0. pos \in Nat /\ BlockSize \in Nat
    BY BufferAssumption DEF RingInv, TypeOK
  <2>1. CASE Buffer
    BY <2>0, <2>1, FillPlaced DEF Buffer
  <2>2. CASE (\E n \in ReadSize : ReadCall(n)) \/ Copy
    BY <2>2 DEF ReadCall, Copy, below
  <2>3. CASE Refill
    BY <2>0, <2>3, FillPlaced DEF Refill
  <2>4. ASSUME NEW x \in 0 .. FileSize, Seek(x) PROVE low' = pos'
    BY <2>0, <2>4 DEF Seek, SeekInRing, SeekRead, SeekLow, Restart, below, ring
  <2>5. ASSUME NEW x \in 0 .. FileSize, SeekEnd(x) PROVE low' = pos'
    BY <2>5 DEF SeekEnd, Restart
  <2> QED BY <2>1, <2>2, <2>3, <2>4, <2>5 DEF Next
<1> QED BY <1>1, RingInductive, PTL DEF Spec
=============================================================================
