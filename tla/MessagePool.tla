---------------------------- MODULE MessagePool -----------------------------
(***************************************************************************)
(* The command pool of one player: amplayer/player/message.c, together     *)
(* with its callers.  Client threads run player_send_message and the       *)
(* clear-and-send of player_stop (player_ctrl.c); consumer threads run     *)
(* check_flag (player.c) or the mate's command proxy (player_mate.c).      *)
(* Every access to the pool is under msg_mutex, so each critical section   *)
(* is one action; the heap cells of the commands are modelled, because who *)
(* frees a command is spread over all these callers.                       *)
(***************************************************************************)
EXTENDS Integers

CONSTANTS MessageMax,   \* MESSAGE_MAX, the slots of message_list
          Cell,         \* heap cells a player_cmd_t may occupy
          Client,       \* threads calling the player_xxx API
          Consumer,     \* threads that take commands out of the pool
          Param,        \* values of a command's f_param
          NULL,         \* the null pointer
          FREED         \* content of a cell that is not allocated

\* A seek, a stop, and any command that is neither.
Ctrl == {"CMD_SEARCH", "CMD_STOP", "CMD_PAUSE"}

Message == [ctrl : Ctrl, param : Param]
Seek == {m \in Message : m.ctrl = "CMD_SEARCH"}
Stop == {m \in Message : m.ctrl = "CMD_STOP"}

ASSUME PoolAssumption == /\ MessageMax \in Nat \ {0}
                         /\ NULL \notin Cell
                         /\ FREED \notin Message
                         /\ Client \cap Consumer = {}

VARIABLES message_list,       \* slot -> pointer; slots outside the window are stale
          message_num,
          message_in_index,
          message_out_index,
          heap,               \* cell -> the command it holds, or FREED
          pc,                 \* where each thread is
          cmd                 \* the command pointer each thread holds

pool == <<message_list, message_num, message_in_index, message_out_index>>
vars == <<pool, heap, pc, cmd>>

Thread == Client \cup Consumer
Index == 0 .. MessageMax - 1

SuccNoWrap(i) == i + 1                          \* mutant: the index never wraps

\* (index + 1) % MESSAGE_MAX
Succ(i) == (i + 1) % MessageMax

\* The slot k places after the oldest command's.
Slot(k) == (message_out_index + k) % MessageMax

\* The command that the next get will return after k others.
Entry(k) == message_list[Slot(k)]

\* The cells the pool holds.
Window == {Entry(k) : k \in 0 .. message_num - 1}

\* The cells some thread's local pointer holds.
Held == {cmd[t] : t \in Thread} \ {NULL}

-----------------------------------------------------------------------------

Init == /\ message_list = [i \in Index |-> NULL]
        /\ message_num = 0
        /\ message_in_index = 0
        /\ message_out_index = 0
        /\ heap = [c \in Cell |-> FREED]
        /\ pc = [t \in Thread |-> "idle"]
        /\ cmd = [t \in Thread |-> NULL]

\* message_alloc, then the caller fills the command in.
Alloc(t, m) == \E c \in Cell : /\ heap[c] = FREED
                               /\ heap' = [heap EXCEPT ![c] = m]
                               /\ cmd' = [cmd EXCEPT ![t] = c]

\* player_send_message: send_message_by_pid scans for a seek, sends the rest.
SendCall(t, m) == /\ pc[t] = "idle"
                  /\ Alloc(t, m)
                  /\ pc' = [pc EXCEPT ![t] = IF m \in Seek THEN "scan" ELSE "send"]
                  /\ UNCHANGED pool

\* The scan of send_message_update: its loop never advances j, so it looks
\* message_num times at the oldest command.
SameAsOldest(t) ==
    /\ message_num > 0
    /\ heap[message_list[message_out_index]].ctrl = heap[cmd[t]].ctrl

\* mutant: the pool keeps the pointer it was given, which is then freed
ScanUpdateByPointer(t) ==
    /\ pc[t] = "scan"
    /\ SameAsOldest(t)
    /\ message_list' = [message_list EXCEPT ![message_out_index] = cmd[t]]
    /\ heap' = [heap EXCEPT ![message_list[message_out_index]] = FREED, ![cmd[t]] = FREED]
    /\ cmd' = [cmd EXCEPT ![t] = NULL]
    /\ pc' = [pc EXCEPT ![t] = "idle"]
    /\ UNCHANGED <<message_num, message_in_index, message_out_index>>

\* send_message_update finds the command, copies over it and frees its own.
ScanUpdate(t) ==
    /\ pc[t] = "scan"
    /\ SameAsOldest(t)
    /\ heap' = [heap EXCEPT ![message_list[message_out_index]] = heap[cmd[t]],
                            ![cmd[t]] = FREED]
    /\ cmd' = [cmd EXCEPT ![t] = NULL]
    /\ pc' = [pc EXCEPT ![t] = "idle"]
    /\ UNCHANGED pool

\* send_message_update finds nothing, unlocks, and calls send_message.
ScanMiss(t) ==
    /\ pc[t] = "scan"
    /\ ~SameAsOldest(t)
    /\ pc' = [pc EXCEPT ![t] = "send"]
    /\ UNCHANGED <<pool, heap, cmd>>

\* What both branches of send_message do: store the command and return.
Store(t) == /\ pc[t] = "send"
            /\ message_list' = [message_list EXCEPT ![message_in_index] = cmd[t]]
            /\ message_in_index' = Succ(message_in_index)
            /\ cmd' = [cmd EXCEPT ![t] = NULL]
            /\ pc' = [pc EXCEPT ![t] = "idle"]

SendRoom(t) == /\ message_num < MessageMax
               /\ Store(t)
               /\ message_num' = message_num + 1
               /\ UNCHANGED <<message_out_index, heap>>

\* mutant: the full branch forgets to move the read index past the freed command
SendFullKeepOut(t) ==
    /\ message_num = MessageMax
    /\ Store(t)
    /\ heap' = [heap EXCEPT ![message_list[message_in_index]] = FREED]
    /\ UNCHANGED <<message_num, message_out_index>>

\* The pool is full: the slot to be filled is the oldest command's, which is freed.
SendFull(t) ==
    /\ message_num = MessageMax
    /\ Store(t)
    /\ heap' = [heap EXCEPT ![message_list[message_in_index]] = FREED]
    /\ message_out_index' = Succ(message_out_index)
    /\ UNCHANGED message_num

\* mutant: the newest command is taken instead of the oldest
TakeNewest == /\ message_num > 0
              /\ message_num' = message_num - 1
              /\ message_in_index' = (message_in_index + MessageMax - 1) % MessageMax
              /\ UNCHANGED <<message_list, message_out_index>>

\* The pool's side of get_message, when it returns message_list[message_out_index].
Take == /\ message_num > 0
        /\ message_num' = message_num - 1
        /\ message_out_index' = Succ(message_out_index)
        /\ UNCHANGED <<message_list, message_in_index>>

\* player_stop and player_stop_async begin with clear_all_message.
StopCall(t) == /\ pc[t] = "idle"
               /\ pc' = [pc EXCEPT ![t] = "clear"]
               /\ UNCHANGED <<pool, heap, cmd>>

\* One turn of the loop of clear_all_message: get one message, free it.
ClearOne(t) == /\ pc[t] = "clear"
               /\ Take
               /\ heap' = [heap EXCEPT ![message_list[message_out_index]] = FREED]
               /\ UNCHANGED <<pc, cmd>>

\* clear_all_message sees an empty pool; the stop command is allocated and sent.
ClearDone(t) == /\ pc[t] = "clear"
                /\ message_num = 0
                /\ \E m \in Stop : Alloc(t, m)
                /\ pc' = [pc EXCEPT ![t] = "send"]
                /\ UNCHANGED pool

\* get_message in check_flag, check_start_cmd, check_stop_cmd or the mate's proxy.
\* (check_flag may put it off while two seeks follow each other within 400 ms.)
Get(t) == /\ pc[t] = "idle"
          /\ Take
          /\ cmd' = [cmd EXCEPT ![t] = message_list[message_out_index]]
          /\ pc' = [pc EXCEPT ![t] = "handle"]
          /\ UNCHANGED heap

\* mutant: an early return of the caller skips message_free
HandleNoFree(t) == /\ pc[t] = "handle"
                   /\ cmd' = [cmd EXCEPT ![t] = NULL]
                   /\ pc' = [pc EXCEPT ![t] = "idle"]
                   /\ UNCHANGED <<pool, heap>>

\* check_msg has read the command; the caller frees it.
Handle(t) == /\ pc[t] = "handle"
             /\ heap' = [heap EXCEPT ![cmd[t]] = FREED]
             /\ cmd' = [cmd EXCEPT ![t] = NULL]
             /\ pc' = [pc EXCEPT ![t] = "idle"]
             /\ UNCHANGED pool

-----------------------------------------------------------------------------

ClientStep(t) == \/ ScanUpdate(t) \/ ScanMiss(t)
                 \/ SendRoom(t) \/ SendFull(t)
                 \/ ClearOne(t) \/ ClearDone(t)

ConsumerStep(t) == Get(t) \/ Handle(t)

Next == \/ \E t \in Client : \/ \E m \in Message : SendCall(t, m)
                             \/ StopCall(t)
                             \/ ClientStep(t)
        \/ \E t \in Consumer : ConsumerStep(t)

Spec == Init /\ [][Next]_vars

\* A thread that is inside a call goes on; a consumer comes back for the next command,
\* because check_flag is called on every turn of the playback loop.
FairSpec == /\ Spec
            /\ \A t \in Client : WF_vars(ClientStep(t))
            /\ \A t \in Consumer : WF_vars(ConsumerStep(t))

-----------------------------------------------------------------------------

TypeOK == /\ message_list \in [Index -> Cell \cup {NULL}]
          /\ message_num \in 0 .. MessageMax
          /\ message_in_index \in Index
          /\ message_out_index \in Index
          /\ heap \in [Cell -> Message \cup {FREED}]
          /\ cmd \in [Thread -> Cell \cup {NULL}]
          /\ pc \in [Thread -> {"idle", "scan", "send", "clear", "handle"}]

\* The two indices and the counter agree, whatever mixture of sends, overflows,
\* gets and clears went before: message.c keeps the same fact in three variables
\* and updates them in five places.
RingShape == message_in_index = Slot(message_num)

\* Every allocated command has exactly one owner, a slot of the window or a local
\* pointer, and nothing else points to it: no command is freed twice, none is read
\* after it was freed, although clients, consumers and the overflow branch all free.
SingleOwner ==
    /\ \A i, j \in 0 .. message_num - 1 : Entry(i) = Entry(j) => i = j
    /\ \A t, u \in Thread : cmd[t] = cmd[u] /\ cmd[t] # NULL => t = u
    /\ Window \cap Held = {}
    /\ \A c \in Window \cup Held : c \in Cell /\ heap[c] # FREED

\* No command is leaked: what is allocated is in the pool or about to be used.
NoLeak == \A c \in Cell : heap[c] # FREED => c \in Window \cup Held

\* Every command that is allocated is freed in the end, by the consumer, by a
\* clear, by an overflow or by an update: no command waits in the pool for ever.
CommandFreed == \A c \in Cell : heap[c] # FREED ~> heap[c] = FREED

\* The commands of the pool, oldest first.
PoolQueue == [k \in 1 .. message_num |-> heap[Entry(k - 1)]]

Queue == INSTANCE CommandQueue WITH queue <- PoolQueue

\* The ring of pointers is a lossy FIFO of commands: the order in which commands
\* are taken is the order in which they were sent, only the oldest is ever lost,
\* and what a consumer reads is what a client wrote.
ImplementsQueue == Queue!QueueSpec
=============================================================================
