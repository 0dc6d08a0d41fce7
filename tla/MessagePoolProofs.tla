------------------------- MODULE MessagePoolProofs --------------------------
(***************************************************************************)
(* Proofs about MessagePool, for every capacity, every set of clients and  *)
(* consumers and every heap.                                               *)
(***************************************************************************)
EXTENDS MessagePool, TLAPS

\* A thread's pointer is set exactly while the thread is inside a call that owns a
\* command, and only clients send, only consumers handle.
HandShape ==
    /\ \A t \in Thread : cmd[t] # NULL <=> pc[t] \in {"scan", "send", "handle"}
    /\ \A t \in Client : pc[t] # "handle"
    /\ \A t \in Consumer : pc[t] \in {"idle", "handle"}

-----------------------------------------------------------------------------
(* The arithmetic of the ring. *)

LEMMA SlotValue ==
    ASSUME message_out_index \in Index, NEW k \in 0 .. MessageMax
    PROVE  /\ Slot(k) = IF message_out_index + k < MessageMax
                        THEN message_out_index + k
                        ELSE message_out_index + k - MessageMax
           /\ Slot(k) \in Index
  BY PoolAssumption DEF Slot, Index

\* Two places of the ring less than a turn apart are two slots.
LEMMA SlotInjective ==
    ASSUME message_out_index \in Index,
           NEW k \in 0 .. MessageMax - 1, NEW l \in 0 .. MessageMax - 1,
           Slot(k) = Slot(l)
    PROVE  k = l
  BY SlotValue, PoolAssumption DEF Index

LEMMA SlotZero ==
    ASSUME message_out_index \in Index
    PROVE  Slot(0) = message_out_index
  BY PoolAssumption DEF Slot, Index

LEMMA SuccInIndex ==
    ASSUME NEW i \in Index
    PROVE  Succ(i) \in Index
  BY PoolAssumption DEF Succ, Index

\* Moving the read index on by one moves every place of the ring by one.
LEMMA SlotShift ==
    ASSUME message_out_index \in Index, NEW k \in 0 .. MessageMax,
           message_out_index' = Succ(message_out_index)
    PROVE  Slot(k)' = (message_out_index + k + 1) % MessageMax
  BY PoolAssumption DEF Slot, Succ, Index

LEMMA AddOne ==
    ASSUME NEW n \in Nat \ {0}, NEW o \in 0 .. n - 1, NEW k \in 0 .. n
    PROVE  /\ k < n => (((o + k) % n) + 1) % n = (o + k + 1) % n
           /\ k > 0 => (((o + 1) % n) + (k - 1)) % n = (o + k) % n
           /\ k = n => (((o + k) % n) + 1) % n = (((o + 1) % n) + k) % n
<1>1. (o + k) % n = IF o + k < n THEN o + k ELSE o + k - n
  OBVIOUS
<1>2. (o + 1) % n = IF o + 1 < n THEN o + 1 ELSE 0
  OBVIOUS
<1> QED BY <1>1, <1>2

LEMMA FullTurn ==
    ASSUME NEW n \in Nat \ {0}, NEW o \in 0 .. n - 1
    PROVE  (o + n) % n = o
  OBVIOUS

-----------------------------------------------------------------------------

\* Type correctness: the indices stay inside message_list, the counter inside the
\* capacity, and every pointer points to a command or is null.
LEMMA TypeInductive == TypeOK /\ HandShape /\ [Next]_vars => TypeOK'
<1> SUFFICES ASSUME TypeOK, HandShape, [Next]_vars PROVE TypeOK'
  OBVIOUS
<1> USE PoolAssumption DEF TypeOK
<1>1. ASSUME NEW t \in Client, NEW m \in Message, SendCall(t, m) PROVE TypeOK'
  BY <1>1 DEF SendCall, Alloc, pool, Thread
<1>2. ASSUME NEW t \in Client, StopCall(t) PROVE TypeOK'
  BY <1>2 DEF StopCall, pool, Thread
<1>3. ASSUME NEW t \in Client, ScanUpdate(t) PROVE TypeOK'
  <2>1. cmd[t] \in Cell /\ heap[cmd[t]] \in Message \cup {FREED}
    BY <1>3 DEF ScanUpdate, HandShape, Thread
  <2> QED BY <1>3, <2>1 DEF ScanUpdate, pool, Thread
<1>4. ASSUME NEW t \in Client, ScanMiss(t) PROVE TypeOK'
  BY <1>4 DEF ScanMiss, pool, Thread
<1>5. ASSUME NEW t \in Client, SendRoom(t) PROVE TypeOK'
  BY <1>5, SuccInIndex DEF SendRoom, Store, Thread
<1>6. ASSUME NEW t \in Client, SendFull(t) PROVE TypeOK'
  BY <1>6, SuccInIndex DEF SendFull, Store, Thread
<1>7. ASSUME NEW t \in Client, ClearOne(t) PROVE TypeOK'
  <2>1. heap' \in [Cell -> Message \cup {FREED}]
    BY <1>7 DEF ClearOne
  <2>2. message_num' \in 0 .. MessageMax /\ message_out_index' \in Index
    BY <1>7, SuccInIndex DEF ClearOne, Take
  <2> QED BY <1>7, <2>1, <2>2 DEF ClearOne, Take, Thread
<1>8. ASSUME NEW t \in Client, ClearDone(t) PROVE TypeOK'
  BY <1>8 DEF ClearDone, Alloc, pool, Thread, Stop
<1>9. ASSUME NEW t \in Consumer, Get(t) PROVE TypeOK'
  BY <1>9, SuccInIndex DEF Get, Take, Thread
<1>10. ASSUME NEW t \in Consumer, Handle(t) PROVE TypeOK'
  BY <1>10 DEF Handle, pool, Thread
<1>11. CASE UNCHANGED vars
  BY <1>11 DEF vars, pool
<1> QED
  BY <1>1, <1>2, <1>3, <1>4, <1>5, <1>6, <1>7, <1>8, <1>9, <1>10, <1>11
     DEF Next, ClientStep, ConsumerStep

-----------------------------------------------------------------------------
(* What the four kinds of step do to the places of the ring. *)

LEMMA SameEntries ==
    ASSUME UNCHANGED pool
    PROVE  \A k : Entry(k)' = Entry(k)
  BY DEF pool, Entry, Slot

LEMMA TakeEntries ==
    ASSUME TypeOK, Take
    PROVE  /\ Entry(0) = message_list[message_out_index]
           /\ \A k \in 0 .. message_num - 2 : Entry(k)' = Entry(k + 1)
<1> USE PoolAssumption DEF TypeOK
<1>1. Entry(0) = message_list[message_out_index]
  BY SlotZero DEF Entry
<1>2. ASSUME NEW k \in 0 .. message_num - 2
      PROVE  Entry(k)' = Entry(k + 1)
  <2>1. Slot(k)' = Slot(k + 1)
    BY SlotShift DEF Take, Slot, Index
  <2> QED BY <2>1 DEF Take, Entry
<1> QED BY <1>1, <1>2

LEMMA HeadInWindow ==
    ASSUME TypeOK, Take
    PROVE  message_list[message_out_index] \in Window
  BY TakeEntries DEF Take, Window, TypeOK

LEMMA RoomEntries ==
    ASSUME TypeOK, RingShape, NEW t \in Client, SendRoom(t)
    PROVE  /\ \A k : k = message_num => Entry(k)' = cmd[t]
           /\ \A k \in 0 .. message_num - 1 : Entry(k)' = Entry(k)
<1> USE PoolAssumption DEF TypeOK
<1>1. \A k \in 0 .. MessageMax : Slot(k)' = Slot(k)
  BY DEF SendRoom, Slot
<1>2. message_num \in 0 .. MessageMax - 1 /\ message_in_index = Slot(message_num)
  BY DEF SendRoom, RingShape
<1>3. \A k : k = message_num => Entry(k)' = message_list'[Slot(k)]
  BY DEF SendRoom, Entry, Slot
<1>4. ASSUME NEW k \in 0 .. message_num - 1
      PROVE  Entry(k)' = Entry(k)
  <2>1. Slot(k) # Slot(message_num)
    BY <1>2, SlotInjective
  <2>2. Slot(k) \in Index
    BY SlotValue
  <2> QED BY <1>2, <2>1, <2>2 DEF SendRoom, Store, Entry, Slot
<1> QED BY <1>2, <1>3, <1>4 DEF SendRoom, Store

LEMMA FullEntries ==
    ASSUME TypeOK, RingShape, NEW t \in Client, SendFull(t)
    PROVE  /\ Entry(0) = message_list[message_in_index]
           /\ Entry(MessageMax - 1)' = cmd[t]
           /\ \A k \in 0 .. MessageMax - 2 : Entry(k)' = Entry(k + 1)
<1> USE PoolAssumption DEF TypeOK
<1>1. message_in_index = message_out_index /\ Slot(0) = message_out_index
  BY SlotValue DEF SendFull, RingShape, Index
<1>2. Slot(MessageMax - 1)' = message_out_index
  <2>1. Slot(MessageMax - 1)' = (message_out_index + (MessageMax - 1) + 1) % MessageMax
    BY SlotShift DEF SendFull
  <2>2. message_out_index + (MessageMax - 1) + 1 = message_out_index + MessageMax
    BY DEF Index
  <2> QED BY <2>1, <2>2, FullTurn DEF Index
<1>3. ASSUME NEW k \in 0 .. MessageMax - 2
      PROVE  Entry(k)' = Entry(k + 1)
  <2>1. Slot(k)' = Slot(k + 1)
    BY SlotShift DEF SendFull, Slot, Index
  <2>2. Slot(k + 1) # Slot(0) /\ Slot(k + 1) \in Index
    BY SlotInjective, SlotValue
  <2> QED BY <1>1, <2>1, <2>2 DEF SendFull, Store, Entry
<1> QED BY <1>1, <1>2, <1>3 DEF SendFull, Store, Entry

-----------------------------------------------------------------------------

\* The hand of a thread and its place in the code stay together.
LEMMA HandInductive == TypeOK /\ HandShape /\ SingleOwner /\ [Next]_vars => HandShape'
<1> SUFFICES ASSUME TypeOK, HandShape, SingleOwner, [Next]_vars PROVE HandShape'
  OBVIOUS
<1> USE PoolAssumption DEF TypeOK, HandShape, Thread
<1>1. ASSUME NEW t \in Client, NEW m \in Message, SendCall(t, m) PROVE HandShape'
  BY <1>1 DEF SendCall, Alloc
<1>2. ASSUME NEW t \in Client, StopCall(t) PROVE HandShape'
  BY <1>2 DEF StopCall
<1>3. ASSUME NEW t \in Client, ScanUpdate(t) PROVE HandShape'
  BY <1>3 DEF ScanUpdate
<1>4. ASSUME NEW t \in Client, ScanMiss(t) PROVE HandShape'
  BY <1>4 DEF ScanMiss
<1>5. ASSUME NEW t \in Client, SendRoom(t) \/ SendFull(t) PROVE HandShape'
  BY <1>5 DEF SendRoom, SendFull, Store
<1>6. ASSUME NEW t \in Client, ClearOne(t) PROVE HandShape'
  BY <1>6 DEF ClearOne
<1>7. ASSUME NEW t \in Client, ClearDone(t) PROVE HandShape'
  BY <1>7 DEF ClearDone, Alloc
<1>8. ASSUME NEW t \in Consumer, Handle(t) PROVE HandShape'
  BY <1>8 DEF Handle
<1>9. ASSUME NEW t \in Consumer, Get(t) PROVE HandShape'
  <2>1. message_list[message_out_index] \in Cell
    BY <1>9, TakeEntries, HeadInWindow DEF Get, SingleOwner
  <2> QED BY <1>9, <2>1 DEF Get
<1>10. CASE UNCHANGED vars
  BY <1>10 DEF vars
<1> QED
  BY <1>1, <1>2, <1>3, <1>4, <1>5, <1>6, <1>7, <1>8, <1>9, <1>10
     DEF Next, ClientStep, ConsumerStep

\* The two indices and the counter stay in step: the key case is the full pool,
\* where both indices move and the counter does not.
LEMMA RingInductive == TypeOK /\ RingShape /\ [Next]_vars => RingShape'
<1> SUFFICES ASSUME TypeOK, RingShape, [Next]_vars PROVE RingShape'
  OBVIOUS
<1> USE PoolAssumption DEF TypeOK, RingShape
<1>1. CASE UNCHANGED pool
  BY <1>1 DEF pool, Slot
<1>2. ASSUME NEW t \in Client, SendRoom(t) PROVE RingShape'
  <2>1. message_in_index' = (((message_out_index + message_num) % MessageMax) + 1) % MessageMax
    BY <1>2 DEF SendRoom, Store, Slot, Succ
  <2>2. message_num \in 0 .. MessageMax /\ message_out_index \in 0 .. MessageMax - 1
    BY DEF Index
  <2>3. message_in_index' = (message_out_index + message_num + 1) % MessageMax
    BY <1>2, <2>1, <2>2, AddOne DEF SendRoom
  <2>4. message_out_index + message_num + 1 = message_out_index + (message_num + 1)
    BY DEF Index
  <2> QED BY <1>2, <2>3, <2>4 DEF SendRoom, Slot
<1>3. ASSUME NEW t \in Client, SendFull(t) PROVE RingShape'
  BY <1>3, AddOne DEF SendFull, Store, Slot, Succ, Index
<1>4. CASE Take
  BY <1>4, AddOne DEF Take, Slot, Succ, Index
<1> QED
  BY <1>1, <1>2, <1>3, <1>4
     DEF Next, ClientStep, ConsumerStep, SendCall, StopCall, ScanUpdate, ScanMiss,
         ClearOne, ClearDone, Get, Handle, vars

-----------------------------------------------------------------------------

\* Who owns a command changes hands at every step and is never shared: a client's
\* pointer becomes the pool's, the pool's a consumer's, and only an owner frees.
LEMMA OwnerInductive ==
    TypeOK /\ HandShape /\ RingShape /\ SingleOwner /\ [Next]_vars => SingleOwner'
<1> SUFFICES ASSUME TypeOK, HandShape, RingShape, SingleOwner, [Next]_vars
             PROVE  SingleOwner'
  OBVIOUS
<1> USE PoolAssumption
<1> DEFINE Places == 0 .. message_num - 1
<1>0. /\ message_num \in 0 .. MessageMax
      /\ cmd \in [Thread -> Cell \cup {NULL}]
      /\ heap \in [Cell -> Message \cup {FREED}]
  BY DEF TypeOK
<1>A. /\ \A i, j \in Places : Entry(i) = Entry(j) => i = j
      /\ \A t, u \in Thread : cmd[t] = cmd[u] /\ cmd[t] # NULL => t = u
      /\ \A i \in Places, t \in Thread : Entry(i) # cmd[t]
      /\ \A i \in Places : Entry(i) \in Cell /\ heap[Entry(i)] # FREED
      /\ \A t \in Thread : cmd[t] # NULL => cmd[t] \in Cell /\ heap[cmd[t]] # FREED
  BY <1>0 DEF SingleOwner, Window, Held
<1> DEFINE Owned ==
      /\ \A i, j \in Places' : Entry(i)' = Entry(j)' => i = j
      /\ \A t, u \in Thread : cmd'[t] = cmd'[u] /\ cmd'[t] # NULL => t = u
      /\ \A i \in Places', t \in Thread : Entry(i)' # cmd'[t]
      /\ \A i \in Places' : Entry(i)' \in Cell /\ heap'[Entry(i)'] # FREED
      /\ \A t \in Thread : cmd'[t] # NULL => cmd'[t] \in Cell /\ heap'[cmd'[t]] # FREED
<1>B. SUFFICES Owned
  BY DEF SingleOwner, Window, Held, Thread
<1>1. ASSUME NEW t \in Client, NEW m \in Message, Alloc(t, m), UNCHANGED pool
      PROVE  Owned
  <2>1. PICK c \in Cell : /\ heap[c] = FREED
                          /\ heap' = [heap EXCEPT ![c] = m]
                          /\ cmd' = [cmd EXCEPT ![t] = c]
    BY <1>1 DEF Alloc
  <2> QED BY <1>0, <1>1, <1>A, <2>1, SameEntries DEF pool, Thread
<1>2. ASSUME UNCHANGED <<pool, heap, cmd>> PROVE Owned
  BY <1>0, <1>2, <1>A, SameEntries DEF pool
<1>3. ASSUME NEW t \in Client, ScanUpdate(t) PROVE Owned
  <2>1. cmd[t] # NULL /\ t \in Thread
    BY <1>3 DEF ScanUpdate, HandShape, Thread
  <2>2. 0 \in Places /\ Entry(0) = message_list[message_out_index]
    BY <1>0, <1>3, SlotZero DEF ScanUpdate, SameAsOldest, Entry, TypeOK
  <2>3. heap' = [heap EXCEPT ![Entry(0)] = heap[cmd[t]], ![cmd[t]] = FREED]
    BY <1>3, <2>2 DEF ScanUpdate
  <2> QED BY <1>0, <1>3, <1>A, <2>1, <2>2, <2>3, SameEntries DEF ScanUpdate, pool, Thread
<1>4. ASSUME NEW t \in Client, SendRoom(t) PROVE Owned
  <2>1. cmd[t] # NULL /\ t \in Thread
    BY <1>4 DEF SendRoom, Store, HandShape, Thread
  <2>2. /\ \A k : k = message_num => Entry(k)' = cmd[t]
        /\ \A k \in Places : Entry(k)' = Entry(k)
    BY <1>4, RoomEntries
  <2>3. /\ message_num' = message_num + 1
        /\ cmd' = [cmd EXCEPT ![t] = NULL]
        /\ heap' = heap
    BY <1>4 DEF SendRoom, Store
  <2>4. \A k \in Places' : k \in Places \/ k = message_num
    BY <1>0, <2>3
  <2> QED BY <1>0, <1>A, <2>1, <2>2, <2>3, <2>4
<1>5. ASSUME NEW t \in Client, SendFull(t) PROVE Owned
  <2>1. cmd[t] # NULL /\ t \in Thread
    BY <1>5 DEF SendFull, Store, HandShape, Thread
  <2>2. /\ Entry(MessageMax - 1)' = cmd[t]
        /\ \A k \in 0 .. MessageMax - 2 : Entry(k)' = Entry(k + 1)
    BY <1>5, FullEntries
  <2>3. /\ message_num' = MessageMax
        /\ message_num = MessageMax
        /\ cmd' = [cmd EXCEPT ![t] = NULL]
        /\ heap' = [heap EXCEPT ![Entry(0)] = FREED]
    BY <1>5, FullEntries DEF SendFull, Store
  <2>4. \A k \in Places' : k \in 0 .. MessageMax - 2 \/ k = MessageMax - 1
    BY <2>3
  <2>5. 0 \in Places /\ \A k \in 0 .. MessageMax - 2 : k + 1 \in Places /\ k + 1 # 0
    BY <2>3
  <2> QED BY <1>0, <1>A, <2>1, <2>2, <2>3, <2>4, <2>5
<1>6. ASSUME Take PROVE /\ 0 \in Places /\ Entry(0) = message_list[message_out_index]
                        /\ \A k \in Places' : /\ k + 1 \in Places /\ k + 1 # 0
                                              /\ Entry(k)' = Entry(k + 1)
  <2>1. message_num > 0 /\ message_num' = message_num - 1
    BY <1>6 DEF Take
  <2>2. /\ Entry(0) = message_list[message_out_index]
        /\ \A k \in 0 .. message_num - 2 : Entry(k)' = Entry(k + 1)
    BY <1>6, TakeEntries
  <2> QED BY <1>0, <2>1, <2>2
<1>7. ASSUME NEW t \in Client, ClearOne(t) PROVE Owned
  <2>1. Take /\ cmd' = cmd
    BY <1>7 DEF ClearOne
  <2>2. heap' = [heap EXCEPT ![Entry(0)] = FREED]
    BY <1>6, <1>7, <2>1 DEF ClearOne
  <2> QED BY <1>0, <1>6, <1>A, <2>1, <2>2
<1>8. ASSUME NEW t \in Consumer, Get(t) PROVE Owned
  <2>1. Take /\ heap' = heap /\ t \in Thread
    BY <1>8 DEF Get, Thread
  <2>2. cmd' = [cmd EXCEPT ![t] = Entry(0)]
    BY <1>6, <1>8, <2>1 DEF Get
  <2> QED BY <1>0, <1>6, <1>A, <2>1, <2>2
<1>9. ASSUME NEW t \in Consumer, Handle(t) PROVE Owned
  <2>1. cmd[t] # NULL /\ t \in Thread
    BY <1>9 DEF Handle, HandShape, Thread
  <2> QED BY <1>0, <1>9, <1>A, <2>1, SameEntries DEF Handle, pool
<1> QED
  BY <1>1, <1>2, <1>3, <1>4, <1>5, <1>7, <1>8, <1>9
     DEF Next, ClientStep, ConsumerStep, SendCall, StopCall, ScanMiss, ClearDone, vars, Stop

\* No step forgets the last pointer to a command before it is freed.
LEMMA LeakInductive ==
    TypeOK /\ HandShape /\ RingShape /\ SingleOwner /\ NoLeak /\ [Next]_vars => NoLeak'
<1> SUFFICES ASSUME TypeOK, HandShape, RingShape, SingleOwner, NoLeak, [Next]_vars
             PROVE  NoLeak'
  OBVIOUS
<1> USE PoolAssumption
<1> DEFINE Places == 0 .. message_num - 1
<1>0. /\ message_num \in 0 .. MessageMax
      /\ cmd \in [Thread -> Cell \cup {NULL}]
      /\ heap \in [Cell -> Message \cup {FREED}]
  BY DEF TypeOK
<1>A. ASSUME NEW c \in Cell, heap[c] # FREED
      PROVE  (\E k \in Places : c = Entry(k)) \/ (\E t \in Thread : c = cmd[t])
  BY <1>A DEF NoLeak, Window, Held
<1> DEFINE Kept(c) == \/ \E k \in Places' : c = Entry(k)'
                      \/ \E t \in Thread : c = cmd'[t]
<1>B. SUFFICES ASSUME NEW c \in Cell, heap'[c] # FREED
               PROVE  Kept(c)
  BY DEF NoLeak, Window, Held, Thread
<1>1. ASSUME NEW t \in Client, NEW m \in Message, Alloc(t, m), UNCHANGED pool, pc[t] \in {"idle", "clear"}
      PROVE  Kept(c)
  <2>1. PICK d \in Cell : /\ heap[d] = FREED
                          /\ heap' = [heap EXCEPT ![d] = m]
                          /\ cmd' = [cmd EXCEPT ![t] = d]
    BY <1>1 DEF Alloc
  <2>2. cmd[t] = NULL /\ t \in Thread
    BY <1>1 DEF HandShape, Thread
  <2> QED BY <1>0, <1>1, <1>A, <1>B, <2>1, <2>2, SameEntries DEF pool
<1>2. ASSUME UNCHANGED <<pool, heap, cmd>> PROVE Kept(c)
  BY <1>0, <1>2, <1>A, <1>B, SameEntries DEF pool
<1>3. ASSUME NEW t \in Client, ScanUpdate(t) PROVE Kept(c)
  <2>1. cmd[t] # NULL /\ t \in Thread
    BY <1>3 DEF ScanUpdate, HandShape, Thread
  <2>2. 0 \in Places /\ Entry(0) = message_list[message_out_index]
    BY <1>0, <1>3, SlotZero DEF ScanUpdate, SameAsOldest, Entry, TypeOK
  <2>3. heap' = [heap EXCEPT ![Entry(0)] = heap[cmd[t]], ![cmd[t]] = FREED]
    BY <1>3, <2>2 DEF ScanUpdate
  <2> QED BY <1>0, <1>3, <1>A, <1>B, <2>1, <2>2, <2>3, SameEntries DEF ScanUpdate, pool
<1>4. ASSUME NEW t \in Client, SendRoom(t) PROVE Kept(c)
  <2>1. /\ \A k : k = message_num => Entry(k)' = cmd[t]
        /\ \A k \in Places : Entry(k)' = Entry(k)
    BY <1>4, RoomEntries
  <2>2. /\ message_num' = message_num + 1
        /\ cmd' = [cmd EXCEPT ![t] = NULL]
        /\ heap' = heap
    BY <1>4 DEF SendRoom, Store
  <2>3. message_num \in Places' /\ \A k \in Places : k \in Places'
    BY <1>0, <2>2
  <2>4. CASE c = cmd[t]
    BY <2>1, <2>3, <2>4
  <2>5. CASE c # cmd[t]
    BY <1>0, <1>A, <1>B, <2>1, <2>2, <2>3, <2>5
  <2> QED BY <2>4, <2>5
<1>5. ASSUME NEW t \in Client, SendFull(t) PROVE Kept(c)
  <2>1. /\ Entry(MessageMax - 1)' = cmd[t]
        /\ \A k \in 0 .. MessageMax - 2 : Entry(k)' = Entry(k + 1)
    BY <1>5, FullEntries
  <2>2. /\ message_num' = MessageMax
        /\ message_num = MessageMax
        /\ cmd' = [cmd EXCEPT ![t] = NULL]
        /\ heap' = [heap EXCEPT ![Entry(0)] = FREED]
    BY <1>5, FullEntries DEF SendFull, Store
  <2>3. MessageMax - 1 \in Places' /\ \A k \in 0 .. MessageMax - 2 : k \in Places'
    BY <2>2
  <2>4. CASE c = cmd[t]
    BY <2>1, <2>3, <2>4
  <2>5. CASE c # cmd[t]
    <3>1. heap[c] # FREED /\ c # Entry(0)
      BY <1>0, <1>B, <2>2
    <3>2. CASE \E u \in Thread : c = cmd[u]
      BY <1>0, <2>2, <2>5, <3>2
    <3>3. CASE \E k \in Places : c = Entry(k)
      <4>1. PICK k \in Places : c = Entry(k)
        BY <3>3
      <4>2. k # 0 /\ k - 1 \in 0 .. MessageMax - 2 /\ (k - 1) + 1 = k
        BY <2>2, <3>1, <4>1
      <4>3. c = Entry(k - 1)' /\ k - 1 \in Places'
        BY <2>1, <2>3, <4>1, <4>2
      <4> QED BY <4>3
    <3> QED BY <1>A, <3>1, <3>2, <3>3
  <2> QED BY <2>4, <2>5
<1>6. ASSUME Take, heap[c] # FREED, c # message_list[message_out_index]
      PROVE  (\E k \in Places' : c = Entry(k)') \/ (\E t \in Thread : c = cmd[t])
  <2>1. message_num > 0 /\ message_num' = message_num - 1
    BY <1>6 DEF Take
  <2>2. /\ Entry(0) = message_list[message_out_index]
        /\ \A k \in 0 .. message_num - 2 : Entry(k)' = Entry(k + 1)
    BY <1>6, TakeEntries
  <2>3. ASSUME NEW k \in Places, c = Entry(k)
        PROVE  \E l \in Places' : c = Entry(l)'
    <3>1. k # 0 /\ k - 1 \in 0 .. message_num - 2 /\ (k - 1) + 1 = k
      BY <1>0, <1>6, <2>1, <2>2, <2>3
    <3>2. c = Entry(k - 1)' /\ k - 1 \in Places'
      BY <1>0, <2>1, <2>2, <2>3, <3>1
    <3> QED BY <3>2
  <2> QED BY <1>6, <1>A, <2>3
<1>7. ASSUME NEW t \in Client, ClearOne(t) PROVE Kept(c)
  <2>1. message_list[message_out_index] \in Cell
    BY <1>7, HeadInWindow DEF ClearOne, SingleOwner
  <2> QED BY <1>0, <1>6, <1>7, <1>B, <2>1 DEF ClearOne
<1>8. ASSUME NEW t \in Consumer, Get(t) PROVE Kept(c)
  <2>1. cmd[t] = NULL /\ t \in Thread
    BY <1>8 DEF Get, HandShape, Thread
  <2>2. c # message_list[message_out_index] => Kept(c)
    BY <1>0, <1>6, <1>8, <1>B, <2>1 DEF Get
  <2>3. c = message_list[message_out_index] => Kept(c)
    BY <1>0, <1>8, <2>1 DEF Get
  <2> QED BY <2>2, <2>3
<1>9. ASSUME NEW t \in Consumer, Handle(t) PROVE Kept(c)
  <2>1. cmd[t] # NULL /\ t \in Thread
    BY <1>9 DEF Handle, HandShape, Thread
  <2> QED BY <1>0, <1>9, <1>A, <1>B, <2>1, SameEntries DEF Handle, pool
<1> QED
  BY <1>1, <1>2, <1>3, <1>4, <1>5, <1>7, <1>8, <1>9
     DEF Next, ClientStep, ConsumerStep, SendCall, StopCall, ScanMiss, ClearDone, vars, Stop

-----------------------------------------------------------------------------

\* The inductive invariant of the pool.
PoolInv == TypeOK /\ HandShape /\ RingShape /\ SingleOwner /\ NoLeak

LEMMA PoolInit == Init => PoolInv
<1> SUFFICES ASSUME Init PROVE PoolInv
  OBVIOUS
<1> USE PoolAssumption DEF Init
<1>1. TypeOK /\ HandShape
  BY DEF TypeOK, HandShape, Index, Thread
<1>2. RingShape
  BY DEF RingShape, Slot
<1>3. Window = {} /\ Held = {}
  BY DEF Window, Held
<1>4. SingleOwner
  BY <1>3 DEF SingleOwner
<1>5. NoLeak
  BY DEF NoLeak
<1> QED BY <1>1, <1>2, <1>4, <1>5 DEF PoolInv

LEMMA PoolStep == PoolInv /\ [Next]_vars => PoolInv'
  BY TypeInductive, HandInductive, RingInductive, OwnerInductive, LeakInductive DEF PoolInv

THEOREM PoolInvariant == Spec => []PoolInv
  BY PoolInit, PoolStep, PTL DEF Spec

\* The pool is type correct: its indices never leave message_list.
THEOREM TypeCorrect == Spec => []TypeOK
  BY PoolInvariant, PTL DEF PoolInv

\* The read index, the write index and the counter of message_list always agree.
THEOREM RingCorrect == Spec => []RingShape
  BY PoolInvariant, PTL DEF PoolInv

\* No command is freed twice or read after it was freed: every queued or held
\* command is alive and has exactly one owner, for any number of clients and
\* consumers and any capacity.
THEOREM OwnerUnique == Spec => []SingleOwner
  BY PoolInvariant, PTL DEF PoolInv

\* No command is leaked by any mixture of sends, overflows, updates and clears.
THEOREM NothingLeaks == Spec => []NoLeak
  BY PoolInvariant, PTL DEF PoolInv
=============================================================================
