---------------------------- MODULE CommandQueue ----------------------------
(***************************************************************************)
(* What the message pool of a player promises to its callers: a bounded    *)
(* FIFO of commands that never refuses a command.  A command sent to a     *)
(* full queue pushes the oldest one out; a seek sent while the oldest      *)
(* command is a seek takes its place.  MessagePool implements this.        *)
(***************************************************************************)
EXTENDS Naturals, Sequences

CONSTANTS Message,      \* the commands a caller can send
          Seek,         \* the set of those that are seeks
          MessageMax    \* the capacity of the queue, at least one

VARIABLE queue

QueueInit == queue = <<>>

Accept(m) == /\ Len(queue) < MessageMax
             /\ queue' = Append(queue, m)

PushOut(m) == /\ Len(queue) = MessageMax
              /\ queue' = Append(Tail(queue), m)

ReplaceHead(m) == /\ queue # <<>>
                  /\ {Head(queue), m} \subseteq Seek
                  /\ queue' = <<m>> \o Tail(queue)

TakeHead == /\ queue # <<>>
            /\ queue' = Tail(queue)

QueueNext == \/ \E m \in Message : Accept(m) \/ PushOut(m) \/ ReplaceHead(m)
             \/ TakeHead

QueueSafety == QueueInit /\ [][QueueNext]_queue

\* The player keeps taking commands as long as there are any.
QueueSpec == QueueSafety /\ WF_queue(TakeHead)
=============================================================================
