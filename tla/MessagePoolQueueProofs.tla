----------------------- MODULE MessagePoolQueueProofs -----------------------
(***************************************************************************)
(* MessagePool implements CommandQueue: the proof, for every capacity and  *)
(* every set of threads, of the safety part of ImplementsQueue.            *)
(***************************************************************************)
EXTENDS MessagePoolProofs, Sequences, SequenceTheorems

\* send_message_by_pid sends only seeks through send_message_update.
ScanHoldsSeek == \A t \in Client : pc[t] = "scan" => heap[cmd[t]] \in Seek

\* The queue that the pool represents is a sequence of commands, as long as the
\* counter says, and its k-th element is the command in the k-th place of the ring.
LEMMA QueueShape ==
    ASSUME PoolInv
    PROVE  /\ PoolQueue \in Seq(Message)
           /\ Len(PoolQueue) = message_num
           /\ \A k \in 1 .. message_num : PoolQueue[k] = heap[Entry(k - 1)]
<1>1. message_num \in Nat
  BY PoolAssumption DEF PoolInv, TypeOK
<1>2. ASSUME NEW k \in 1 .. message_num
      PROVE  heap[Entry(k - 1)] \in Message
  <2>1. k - 1 \in 0 .. message_num - 1
    BY <1>1
  <2>2. Entry(k - 1) \in Cell /\ heap[Entry(k - 1)] # FREED
    BY <2>1 DEF PoolInv, SingleOwner, Window
  <2> QED BY <2>2 DEF PoolInv, TypeOK
<1>3. PoolQueue \in [1 .. message_num -> Message]
  BY <1>2 DEF PoolQueue
<1> QED BY <1>1, <1>3 DEF PoolQueue

LEMMA QueueSame ==
    ASSUME PoolInv, UNCHANGED pool, \A k \in 0 .. message_num - 1 : heap'[Entry(k)] = heap[Entry(k)]
    PROVE  PoolQueue' = PoolQueue
<1>1. message_num' = message_num /\ message_num \in Nat
  BY PoolAssumption DEF pool, PoolInv, TypeOK
<1>2. \A k \in 1 .. message_num : k - 1 \in 0 .. message_num - 1 /\ Entry(k - 1)' = Entry(k - 1)
  BY <1>1, SameEntries
<1> QED BY <1>1, <1>2 DEF PoolQueue

\* A get, whoever frees the command afterwards, takes the head of the queue.
LEMMA QueueTake ==
    ASSUME PoolInv, Take,
           \A k \in 1 .. message_num - 1 : heap'[Entry(k)] = heap[Entry(k)]
    PROVE  Queue!TakeHead
<1>1. /\ PoolQueue \in Seq(Message)
      /\ Len(PoolQueue) = message_num
      /\ \A k \in 1 .. message_num : PoolQueue[k] = heap[Entry(k - 1)]
  BY QueueShape
<1>2. message_num \in Nat \ {0} /\ message_num' = message_num - 1
  BY PoolAssumption DEF Take, PoolInv, TypeOK
<1>3. PoolQueue # <<>>
  BY <1>1, <1>2
<1>4. /\ Tail(PoolQueue) \in Seq(Message)
      /\ Len(Tail(PoolQueue)) = message_num'
      /\ \A k \in 1 .. message_num' : Tail(PoolQueue)[k] = PoolQueue[k + 1]
  BY <1>1, <1>2, <1>3, HeadTailProperties
<1>5. ASSUME NEW k \in 1 .. message_num'
      PROVE  heap'[Entry(k - 1)'] = Tail(PoolQueue)[k]
  <2>1. /\ k - 1 \in 0 .. message_num - 2
        /\ k + 1 \in 1 .. message_num
        /\ k \in 1 .. message_num - 1
        /\ (k - 1) + 1 = k /\ (k + 1) - 1 = k
    BY <1>2
  <2>2. Entry(k - 1)' = Entry(k)
    BY <2>1, TakeEntries DEF PoolInv
  <2>3. Tail(PoolQueue)[k] = heap[Entry(k)]
    BY <1>1, <1>4, <2>1
  <2> QED BY <2>1, <2>2, <2>3
<1>6. PoolQueue' = [k \in 1 .. message_num' |-> heap'[Entry(k - 1)']]
  BY DEF PoolQueue
<1>7. Tail(PoolQueue) = [k \in 1 .. message_num' |-> Tail(PoolQueue)[k]]
  BY <1>4, LenProperties
<1>8. PoolQueue' = Tail(PoolQueue)
  BY <1>5, <1>6, <1>7
<1> QED BY <1>3, <1>8 DEF Queue!TakeHead

\* A send with room appends the sender's command.
LEMMA QueueAccept ==
    ASSUME PoolInv, NEW t \in Client, SendRoom(t)
    PROVE  \E m \in Message : Queue!Accept(m)
<1>1. /\ PoolQueue \in Seq(Message)
      /\ Len(PoolQueue) = message_num
      /\ \A k \in 1 .. message_num : PoolQueue[k] = heap[Entry(k - 1)]
  BY QueueShape
<1>2. /\ message_num \in Nat
      /\ message_num < MessageMax
      /\ message_num' = message_num + 1
      /\ heap' = heap
  BY PoolAssumption DEF SendRoom, PoolInv, TypeOK
<1>3. heap[cmd[t]] \in Message
  <2>1. cmd[t] \in Held
    BY DEF PoolInv, HandShape, SendRoom, Store, Held, Thread
  <2> QED BY <2>1 DEF PoolInv, SingleOwner, TypeOK
<1> DEFINE app == Append(PoolQueue, heap[cmd[t]])
<1>4. /\ app \in Seq(Message)
      /\ Len(app) = message_num'
      /\ \A k \in 1 .. message_num' :
             app[k] = IF k <= message_num THEN PoolQueue[k] ELSE heap[cmd[t]]
  BY <1>1, <1>2, <1>3, AppendProperties
<1>5. ASSUME NEW k \in 1 .. message_num'
      PROVE  heap'[Entry(k - 1)'] = app[k]
  <2>1. CASE k <= message_num
    <3>1. k - 1 \in 0 .. message_num - 1 /\ k \in 1 .. message_num
      BY <1>2, <2>1
    <3>2. Entry(k - 1)' = Entry(k - 1)
      BY <3>1, RoomEntries DEF PoolInv
    <3> QED BY <1>1, <1>2, <1>4, <2>1, <3>1, <3>2
  <2>2. CASE ~(k <= message_num)
    <3>1. k - 1 = message_num
      BY <1>2, <2>2
    <3>2. Entry(k - 1)' = cmd[t]
      BY <3>1, RoomEntries DEF PoolInv
    <3> QED BY <1>2, <1>4, <2>2, <3>2
  <2> QED BY <2>1, <2>2
<1> HIDE DEF app
<1>6. PoolQueue' = [k \in 1 .. message_num' |-> heap'[Entry(k - 1)']]
  BY DEF PoolQueue
<1>7. app = [k \in 1 .. message_num' |-> app[k]]
  BY <1>4, LenProperties
<1>8. PoolQueue' = app
  BY <1>5, <1>6, <1>7
<1> QED BY <1>1, <1>2, <1>3, <1>8 DEF Queue!Accept, app

\* A send to a full pool appends the sender's command and loses the oldest one.
LEMMA QueuePushOut ==
    ASSUME PoolInv, NEW t \in Client, SendFull(t)
    PROVE  \E m \in Message : Queue!PushOut(m)
<1>1. /\ PoolQueue \in Seq(Message)
      /\ Len(PoolQueue) = message_num
      /\ \A k \in 1 .. message_num : PoolQueue[k] = heap[Entry(k - 1)]
  BY QueueShape
<1>2. /\ message_num = MessageMax
      /\ message_num' = MessageMax
      /\ MessageMax \in Nat \ {0}
      /\ heap' = [heap EXCEPT ![Entry(0)] = FREED]
  BY PoolAssumption, FullEntries DEF SendFull, PoolInv
<1>3. heap[cmd[t]] \in Message /\ cmd[t] \in Cell /\ cmd[t] # Entry(0)
  <2>1. cmd[t] \in Held
    BY DEF PoolInv, HandShape, SendFull, Store, Held, Thread
  <2>2. Entry(0) \in Window
    BY <1>2 DEF Window
  <2> QED BY <2>1, <2>2 DEF PoolInv, SingleOwner, TypeOK
<1>4. ASSUME NEW k \in 1 .. MessageMax - 1
      PROVE  Entry(k) \in Cell /\ Entry(k) # Entry(0)
  BY <1>2 DEF PoolInv, SingleOwner, Window
<1> DEFINE rest == Tail(PoolQueue)
<1> DEFINE app == Append(rest, heap[cmd[t]])
<1>5. PoolQueue # <<>>
  BY <1>1, <1>2
<1>6. /\ rest \in Seq(Message)
      /\ Len(rest) = MessageMax - 1
      /\ \A k \in 1 .. MessageMax - 1 : rest[k] = PoolQueue[k + 1]
  BY <1>1, <1>2, <1>5, HeadTailProperties
<1> HIDE DEF rest
<1>7. /\ app \in Seq(Message)
      /\ Len(app) = MessageMax
      /\ \A k \in 1 .. MessageMax - 1 : app[k] = rest[k]
      /\ app[MessageMax] = heap[cmd[t]]
  BY <1>2, <1>3, <1>6, AppendProperties
<1>8. ASSUME NEW k \in 1 .. MessageMax
      PROVE  heap'[Entry(k - 1)'] = app[k]
  <2>1. CASE k = MessageMax
    <3>1. Entry(k - 1)' = cmd[t]
      BY <2>1, FullEntries DEF PoolInv
    <3> QED BY <1>2, <1>3, <1>7, <2>1, <3>1 DEF PoolInv, TypeOK
  <2>2. CASE k # MessageMax
    <3>1. /\ k \in 1 .. MessageMax - 1 /\ k - 1 \in 0 .. MessageMax - 2
          /\ k + 1 \in 1 .. MessageMax
          /\ (k - 1) + 1 = k /\ (k + 1) - 1 = k
      BY <1>2, <2>2
    <3>2. Entry(k - 1)' = Entry(k)
      BY <3>1, FullEntries DEF PoolInv
    <3>3. heap'[Entry(k)] = heap[Entry(k)]
      BY <1>2, <1>4, <3>1 DEF PoolInv, TypeOK
    <3>4. app[k] = heap[Entry(k)]
      BY <1>1, <1>2, <1>6, <1>7, <3>1
    <3> QED BY <3>2, <3>3, <3>4
  <2> QED BY <2>1, <2>2
<1> HIDE DEF app
<1>9. PoolQueue' = [k \in 1 .. MessageMax |-> heap'[Entry(k - 1)']]
  BY <1>2 DEF PoolQueue
<1>10. app = [k \in 1 .. MessageMax |-> app[k]]
  BY <1>7, LenProperties
<1>11. PoolQueue' = app
  BY <1>8, <1>9, <1>10
<1> QED BY <1>1, <1>2, <1>3, <1>11 DEF Queue!PushOut, app, rest

\* An update changes the head of the queue, a seek, into the sender's seek.
LEMMA QueueReplace ==
    ASSUME PoolInv, NEW t \in Client, ScanUpdate(t), ScanHoldsSeek
    PROVE  \E m \in Message : Queue!ReplaceHead(m)
<1> DEFINE m == heap[cmd[t]]
<1>1. /\ PoolQueue \in Seq(Message)
      /\ Len(PoolQueue) = message_num
      /\ \A k \in 1 .. message_num : PoolQueue[k] = heap[Entry(k - 1)]
  BY QueueShape
<1>2. /\ message_num \in Nat \ {0}
      /\ message_num' = message_num
      /\ Entry(0) = message_list[message_out_index]
  BY PoolAssumption, SlotZero DEF ScanUpdate, SameAsOldest, pool, PoolInv, TypeOK, Entry
<1>3. heap' = [heap EXCEPT ![Entry(0)] = m, ![cmd[t]] = FREED]
  BY <1>2 DEF ScanUpdate
<1>4. cmd[t] \in Held /\ Entry(0) \in Window
  BY <1>2 DEF PoolInv, HandShape, ScanUpdate, Held, Thread, Window
<1>5. /\ m \in Message /\ cmd[t] \in Cell
      /\ Entry(0) \in Cell /\ heap[Entry(0)] \in Message
      /\ cmd[t] # Entry(0)
  BY <1>4 DEF PoolInv, SingleOwner, TypeOK
<1>6. m \in Seek /\ heap[Entry(0)] \in Seek
  BY <1>2, <1>5 DEF ScanUpdate, SameAsOldest, Seek, ScanHoldsSeek
<1>7. ASSUME NEW k \in 1 .. message_num - 1
      PROVE  heap'[Entry(k)] = heap[Entry(k)]
  <2>1. k \in 0 .. message_num - 1 /\ 0 \in 0 .. message_num - 1 /\ k # 0
    BY <1>2
  <2>2. Entry(k) \in Window /\ Entry(k) # Entry(0)
    BY <2>1 DEF PoolInv, SingleOwner, Window
  <2> QED BY <1>3, <1>4, <1>5, <2>2 DEF PoolInv, SingleOwner, TypeOK
<1>8. heap'[Entry(0)] = m
  BY <1>3, <1>5 DEF PoolInv, TypeOK
<1> HIDE DEF m
<1> DEFINE rest == Tail(PoolQueue)
<1> DEFINE new == <<m>> \o rest
<1>9. PoolQueue # <<>>
  BY <1>1, <1>2
<1>10. /\ rest \in Seq(Message)
       /\ Len(rest) = message_num - 1
       /\ \A k \in 1 .. message_num - 1 : rest[k] = PoolQueue[k + 1]
  BY <1>1, <1>2, <1>9, HeadTailProperties
<1> HIDE DEF rest
<1>11. /\ <<m>> \in Seq(Message)
       /\ Len(<<m>>) = 1
       /\ <<m>>[1] = m
  BY <1>5
<1>12. /\ new \in Seq(Message)
       /\ Len(new) = message_num
       /\ \A k \in 1 .. message_num : new[k] = IF k <= 1 THEN m ELSE rest[k - 1]
  <2>1. Len(<<m>>) + Len(rest) = message_num
    BY <1>2, <1>10, <1>11
  <2>2. /\ new \in Seq(Message)
        /\ Len(new) = message_num
        /\ \A k \in 1 .. message_num :
               new[k] = IF k <= Len(<<m>>) THEN <<m>>[k] ELSE rest[k - Len(<<m>>)]
    BY <1>10, <1>11, <2>1, ConcatProperties
  <2> HIDE DEF new
  <2>3. ASSUME NEW k \in 1 .. message_num
        PROVE  new[k] = IF k <= 1 THEN m ELSE rest[k - 1]
    <3>1. k <= 1 => k = 1
      BY <1>2
    <3> QED BY <1>11, <2>2, <3>1
  <2> QED BY <2>2, <2>3
<1> HIDE DEF new
<1>13. ASSUME NEW k \in 1 .. message_num
       PROVE  heap'[Entry(k - 1)'] = new[k]
  <2>1. Entry(k - 1)' = Entry(k - 1)
    BY SameEntries DEF ScanUpdate
  <2>2. CASE k = 1
    BY <1>8, <1>12, <2>1, <2>2
  <2>3. CASE k # 1
    <3>1. /\ k - 1 \in 1 .. message_num - 1 /\ ~(k <= 1)
          /\ (k - 1) + 1 = k
      BY <1>2, <2>3
    <3> QED BY <1>1, <1>7, <1>10, <1>12, <2>1, <3>1
  <2> QED BY <2>2, <2>3
<1>14. PoolQueue' = [k \in 1 .. message_num |-> heap'[Entry(k - 1)']]
  BY <1>2 DEF PoolQueue
<1>15. new = [k \in 1 .. message_num |-> new[k]]
  BY <1>12, LenProperties
<1>16. PoolQueue' = new
  BY <1>13, <1>14, <1>15
<1>17. Head(PoolQueue) = heap[Entry(0)]
  BY <1>1, <1>2, <1>9
<1> QED BY <1>5, <1>6, <1>9, <1>16, <1>17 DEF Queue!ReplaceHead, new, rest

-----------------------------------------------------------------------------

\* Nobody writes a command that a client is about to send: the pool's cells and the
\* cells in other hands are different cells.
LEMMA ScanInductive == PoolInv /\ ScanHoldsSeek /\ [Next]_vars => ScanHoldsSeek'
<1> SUFFICES ASSUME PoolInv, ScanHoldsSeek, [Next]_vars,
                    NEW u \in Client, pc'[u] = "scan"
             PROVE  heap'[cmd'[u]] \in Seek
  BY DEF ScanHoldsSeek
<1> USE PoolAssumption DEF PoolInv
<1>0. /\ heap \in [Cell -> Message \cup {FREED}]
      /\ cmd \in [Thread -> Cell \cup {NULL}]
      /\ pc \in [Thread -> {"idle", "scan", "send", "clear", "handle"}]
      /\ Client \subseteq Thread /\ Consumer \subseteq Thread
  BY DEF TypeOK, Thread
<1> DEFINE Untouched == /\ pc[u] = "scan" /\ cmd'[u] = cmd[u]
                        /\ heap'[cmd[u]] = heap[cmd[u]]
<1>1. Untouched => heap'[cmd'[u]] \in Seek
  BY DEF ScanHoldsSeek
<1>2. /\ pc[u] = "scan" => cmd[u] \in Cell /\ heap[cmd[u]] # FREED
      /\ \A t \in Thread : pc[u] = "scan" /\ t # u => cmd[t] # cmd[u]
      /\ \A c \in Window : pc[u] = "scan" => c # cmd[u]
  BY <1>0 DEF HandShape, SingleOwner, Held
<1>3. ASSUME NEW t \in Client, NEW m \in Message, SendCall(t, m)
      PROVE  heap'[cmd'[u]] \in Seek
  <2>1. PICK d \in Cell : /\ heap[d] = FREED
                          /\ heap' = [heap EXCEPT ![d] = m]
                          /\ cmd' = [cmd EXCEPT ![t] = d]
    BY <1>3 DEF SendCall, Alloc
  <2>2. pc' = [pc EXCEPT ![t] = IF m \in Seek THEN "scan" ELSE "send"]
    BY <1>3 DEF SendCall
  <2>3. CASE t = u
    BY <1>0, <2>1, <2>2, <2>3
  <2>4. CASE t # u
    BY <1>0, <1>1, <1>2, <2>1, <2>2, <2>4
  <2> QED BY <2>3, <2>4
<1>4. ASSUME NEW t \in Client, ScanUpdate(t) PROVE Untouched
  <2>1. message_list[message_out_index] \in Window
    BY <1>4, SlotZero DEF ScanUpdate, SameAsOldest, Window, Entry, TypeOK
  <2>2. t # u
    BY <1>0, <1>4 DEF ScanUpdate
  <2> QED BY <1>0, <1>2, <1>4, <2>1, <2>2 DEF ScanUpdate
<1>5. ASSUME NEW t \in Client, ScanMiss(t) PROVE Untouched
  BY <1>0, <1>5 DEF ScanMiss
<1>6. ASSUME NEW t \in Client, SendRoom(t) PROVE Untouched
  BY <1>0, <1>6 DEF SendRoom, Store
<1>7. ASSUME NEW t \in Client, SendFull(t) PROVE Untouched
  <2>1. message_list[message_in_index] \in Window
    BY <1>7, FullEntries DEF SendFull, Window
  <2> QED BY <1>0, <1>2, <1>7, <2>1 DEF SendFull, Store
<1>8. ASSUME NEW t \in Client, ClearOne(t) PROVE Untouched
  <2>1. message_list[message_out_index] \in Window
    BY <1>8, HeadInWindow DEF ClearOne
  <2> QED BY <1>0, <1>2, <1>8, <2>1 DEF ClearOne
<1>9. ASSUME NEW t \in Client, ClearDone(t) PROVE Untouched
  <2>1. PICK m \in Stop, d \in Cell : /\ heap[d] = FREED
                                      /\ heap' = [heap EXCEPT ![d] = m]
                                      /\ cmd' = [cmd EXCEPT ![t] = d]
    BY <1>9 DEF ClearDone, Alloc
  <2>2. pc' = [pc EXCEPT ![t] = "send"]
    BY <1>9 DEF ClearDone
  <2> QED BY <1>0, <1>2, <2>1, <2>2
<1>10. ASSUME NEW t \in Client, StopCall(t) PROVE Untouched
  BY <1>0, <1>10 DEF StopCall
<1>11. ASSUME NEW t \in Consumer, Get(t) PROVE Untouched
  BY <1>0, <1>11 DEF Get
<1>12. ASSUME NEW t \in Consumer, Handle(t) PROVE Untouched
  BY <1>0, <1>2, <1>12 DEF Handle
<1>13. CASE UNCHANGED vars
  BY <1>1, <1>13 DEF vars
<1> QED
  BY <1>1, <1>3, <1>4, <1>5, <1>6, <1>7, <1>8, <1>9, <1>10, <1>11, <1>12, <1>13
     DEF Next, ClientStep, ConsumerStep

\* The refinement mapping takes every step of the pool to a step of the queue or to
\* no step at all.
LEMMA QueueStep == PoolInv /\ ScanHoldsSeek /\ [Next]_vars => [Queue!QueueNext]_PoolQueue
<1> SUFFICES ASSUME PoolInv, ScanHoldsSeek, [Next]_vars
             PROVE  Queue!QueueNext \/ PoolQueue' = PoolQueue
  OBVIOUS
<1>0. /\ heap \in [Cell -> Message \cup {FREED}]
      /\ Client \subseteq Thread /\ Consumer \subseteq Thread
      /\ \A k \in 0 .. message_num - 1 : Entry(k) \in Cell /\ heap[Entry(k)] # FREED
      /\ \A t \in Thread, k \in 0 .. message_num - 1 : Entry(k) # cmd[t]
  BY PoolAssumption DEF PoolInv, TypeOK, Thread, SingleOwner, Window, Held
<1>1. ASSUME NEW t \in Client, NEW m \in Message, Alloc(t, m), UNCHANGED pool
      PROVE  PoolQueue' = PoolQueue
  <2>1. PICK d \in Cell : heap[d] = FREED /\ heap' = [heap EXCEPT ![d] = m]
    BY <1>1 DEF Alloc
  <2>2. \A k \in 0 .. message_num - 1 : heap'[Entry(k)] = heap[Entry(k)]
    BY <1>0, <2>1
  <2> QED BY <1>1, <2>2, QueueSame
<1>2. ASSUME UNCHANGED <<pool, heap>> PROVE PoolQueue' = PoolQueue
  BY <1>2, QueueSame
<1>3. ASSUME NEW t \in Client, ScanUpdate(t) PROVE Queue!QueueNext
  BY <1>3, QueueReplace DEF Queue!QueueNext
<1>4. ASSUME NEW t \in Client, SendRoom(t) PROVE Queue!QueueNext
  BY <1>4, QueueAccept DEF Queue!QueueNext
<1>5. ASSUME NEW t \in Client, SendFull(t) PROVE Queue!QueueNext
  BY <1>5, QueuePushOut DEF Queue!QueueNext
<1>6. ASSUME NEW t \in Client, ClearOne(t) PROVE Queue!QueueNext
  <2>1. heap' = [heap EXCEPT ![Entry(0)] = FREED] /\ Take
    BY <1>6, TakeEntries DEF ClearOne, PoolInv
  <2>2. message_num \in Nat \ {0}
    BY <2>1, PoolAssumption DEF Take, PoolInv, TypeOK
  <2>3. \A k \in 1 .. message_num - 1 : Entry(k) # Entry(0) /\ Entry(k) \in Cell
    BY <1>0, <2>2 DEF PoolInv, SingleOwner
  <2>4. \A k \in 1 .. message_num - 1 : heap'[Entry(k)] = heap[Entry(k)]
    BY <1>0, <2>1, <2>3
  <2> QED BY <2>1, <2>4, QueueTake DEF Queue!QueueNext
<1>7. ASSUME NEW t \in Consumer, Get(t) PROVE Queue!QueueNext
  <2>1. heap' = heap /\ Take
    BY <1>7 DEF Get
  <2> QED BY <2>1, QueueTake DEF Queue!QueueNext
<1>8. ASSUME NEW t \in Consumer, Handle(t) PROVE PoolQueue' = PoolQueue
  <2>1. \A k \in 0 .. message_num - 1 : heap'[Entry(k)] = heap[Entry(k)]
    BY <1>0, <1>8 DEF Handle
  <2> QED BY <1>8, <2>1, QueueSame DEF Handle
<1> QED
  BY <1>1, <1>2, <1>3, <1>4, <1>5, <1>6, <1>7, <1>8
     DEF Next, ClientStep, ConsumerStep, SendCall, StopCall, ScanMiss, ClearDone, vars, Stop

\* The ring of pointers is a lossy FIFO of commands, for every capacity: the safety
\* part of ImplementsQueue, which adds only that the consumer keeps taking.
THEOREM PoolImplementsQueue == Spec => Queue!QueueSafety
<1>1. Init => Queue!QueueInit /\ ScanHoldsSeek
  BY DEF Init, Queue!QueueInit, PoolQueue, ScanHoldsSeek, Thread
<1>2. Spec => []ScanHoldsSeek
  BY <1>1, PoolInvariant, ScanInductive, PTL DEF Spec
<1> QED BY <1>1, <1>2, PoolInvariant, QueueStep, PTL DEF Spec, Queue!QueueSafety
=============================================================================
