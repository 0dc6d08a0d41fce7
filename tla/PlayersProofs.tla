--------------------------- MODULE PlayersProofs ----------------------------
(***************************************************************************)
(* The promises of Players for any number of clients, pids, addresses and  *)
(* threads: who has a pid, what it leads to, and, when only the owner of a *)
(* player stops it and thread ids are not used again, that a player's      *)
(* parameters outlive its thread.                                          *)
(***************************************************************************)
EXTENDS Players, TLAPS

-----------------------------------------------------------------------------
(* The inductive invariant. *)

\* The client has a pid: it is starting, playing or exiting a player of its own.
Own(c) == \/ at[c] \in Starting \cup Exiting \cup {"playing", "freed"}
          \/ at[c] \in Stopping /\ call[c].home = "playing"

\* What the pid of a client leads to.
Mine(c) == data[call[c].pid]

\* Owners whose pid leads to parameters that they have not freed.
Leads(c) == Own(c) /\ at[c] \notin {"requested", "freed"}

\* Only the owner of a player exits it.
Roles == \A c \in Client :
            /\ at[c] \in Exiting => call[c].home = "playing" /\ call[c].op = "exit"
            /\ at[c] \in Stopping /\ call[c].op = "exit" => call[c].home = "playing"

\* A pid in use has at most one owner, and without one it leads nowhere.
Owners == /\ \A c \in Client : Own(c) => call[c].pid \in pool
          /\ \A c, d \in Client : c # d /\ Own(c) /\ Own(d) => call[c].pid # call[d].pid
          /\ \A p \in Pid : data[p] # NULL => \E c \in Client : Own(c) /\ call[c].pid = p

\* Each owner's parameters are allocated and are no other owner's.
Parameters ==
    /\ \A c \in Client : at[c] = "requested" => Mine(c) = NULL
    /\ \A c \in Client : Leads(c) => Mine(c) # NULL /\ para[Mine(c)].live
    /\ \A c, d \in Client : c # d /\ Leads(c) /\ Leads(d) => Mine(c) # Mine(d)
    /\ \A c \in Client : at[c] \in {"published", "created", "failed"} \cup Stopping \cup Exiting
                            => call[c].para # NULL /\ (Own(c) => call[c].para = Mine(c))

PidInv == TypeOK /\ Roles /\ Owners /\ Parameters

\* The thread of an owner: the one it has created, or the one it has noted down.
Runs(c, t) == \/ at[c] = "created" /\ call[c].tid = t
              \/ /\ Leads(c) /\ at[c] \notin {"published", "created", "failed"}
                 /\ para[Mine(c)].pthread_id = t

\* Every owner of a started player has a thread of its own; it joins no other one; and it
\* neither takes the interrupt back nor frees anything before that thread is joined.
Threads ==
    /\ \A c \in Client : at[c] \in {"published", "created", "failed"}
                            => para[Mine(c)].pthread_id = NULL
    /\ \A c \in Client : Leads(c) /\ at[c] \notin {"published", "failed"}
                            => \E t \in Thread : Runs(c, t) /\ thread[t].is # "none"
    /\ \A c, d \in Client, t \in Thread : Runs(c, t) /\ Runs(d, t) => c = d
    /\ \A c \in Client : at[c] \in Stopping /\ call[c].home # "playing"
                            => at[c] \in {"stop", "clear", "send"} /\ call[c].op = "async"
    /\ \A c \in Client : at[c] \in {"joining", "lastjoining"} => call[c].tid \in Thread /\ Runs(c, call[c].tid)
    /\ \A c \in Client, t \in Thread :
          at[c] \in {"uninterrupt", "lastuninterrupt"} /\ Runs(c, t) => thread[t].is = "joined"
    /\ \A t \in Thread : thread[t].is \in {"running", "asked", "leaving"} =>
          \E c \in Client : Runs(c, t) /\ Mine(c) = thread[t].para

Alone == ~StopOthers /\ ~ReuseIds

ThreadInv == PidInv /\ (Alone => Threads)

-----------------------------------------------------------------------------
(* Types. *)

LEMMA Labels ==
    /\ Starting \subseteq At /\ Stopping \subseteq At /\ Exiting \subseteq At
    /\ {"idle", "playing", "freed"} \subseteq At
  BY DEF At

LEMMA NoCallTyped == MaxPlayers \in Nat \ {0} /\ 0 \in Pid /\ NoCall \in Call
<1>1. MaxPlayers \in Nat \ {0} /\ 0 \in Pid
  BY PlayersAssumption DEF Pid
<1>2. QED BY <1>1 DEF NoCall, Call

\* A client in a call has parameters in hand.
LEMMA InHand ==
    ASSUME PidInv, NEW c \in Client,
           at[c] \in {"published", "created", "failed"} \cup Stopping \cup Exiting
    PROVE  call[c].para \in Address
  BY DEF PidInv, TypeOK, Call, Parameters

LEMMA ReturnTyped ==
    ASSUME TypeOK, NEW c \in Client, Return(c)
    PROVE  at' \in [Client -> At] /\ call' \in [Client -> Call]
<1>1. call[c].home \in {"idle", "playing"} /\ call[c].pid \in Pid /\ call[c] \in Call
  BY DEF TypeOK, Call
<1>2. DEFINE back == [NoCall EXCEPT !.pid = IF call[c].home = "playing" THEN call[c].pid ELSE 0]
<1>3. back \in Call
  BY <1>1, NoCallTyped DEF Call
<1>4. [call[c] EXCEPT !.tid = NULL] \in Call
  BY <1>1 DEF Call
<1>5. /\ at' = [at EXCEPT ![c] = "lastjoin"] \/ at' = [at EXCEPT ![c] = call[c].home]
      /\ call' = [call EXCEPT ![c] = [call[c] EXCEPT !.tid = NULL]] \/ call' = [call EXCEPT ![c] = back]
  BY DEF Return, Goto, TypeOK
<1>6. QED BY <1>1, <1>3, <1>4, <1>5, Labels DEF TypeOK, Exiting

LEMMA StartTyped ==
    ASSUME PidInv, NEW o \in Client, Start(o)
    PROVE  TypeOK'
<1> USE DEF TypeOK, PidInv, Goto
<1>1. CASE Request(o)
  <2>1. PICK p \in Pid : /\ pool' = pool \cup {p}
                         /\ data' = [data EXCEPT ![p] = NULL]
                         /\ last' = p
                         /\ call' = [call EXCEPT ![o] = [NoCall EXCEPT !.pid = p]]
    BY <1>1 DEF Request
  <2>2. [NoCall EXCEPT !.pid = p] \in Call
    BY NoCallTyped DEF Call
  <2>3. QED BY <1>1, <2>1, <2>2, Labels DEF Request, Starting
<1>2. CASE OutOfMemory(o)
  BY <1>2, NoCallTyped, Labels DEF OutOfMemory
<1>3. CASE Allocate(o)
  <2>1. PICK a \in Address :
          /\ para' = [para EXCEPT ![a] = NewPara]
          /\ data' = [data EXCEPT ![call[o].pid] = a]
          /\ call' = [call EXCEPT ![o] = [call[o] EXCEPT !.para = a]]
    BY <1>3 DEF Allocate
  <2>2. [call[o] EXCEPT !.para = a] \in Call /\ call[o].pid \in Pid
    BY DEF Call
  <2>3. NewPara \in Para
    BY DEF Para, NewPara
  <2>4. QED BY <1>3, <2>1, <2>2, <2>3, Labels DEF Allocate, Starting
<1>4. CASE Create(o)
  <2>1. call[o].para \in Address /\ at[o] = "published"
    BY <1>4, InHand DEF Create
  <2>2. [para[call[o].para] EXCEPT !.stop = FALSE] \in Para
    <3>1. para[call[o].para] \in Para
      BY <2>1
    <3>2. QED BY <3>1 DEF Para
  <2>3. para' \in [Address -> Para]
    BY <1>4, <2>1, <2>2 DEF Create
  <2>4. /\ thread' \in [Thread -> [is : Phase, para : Address \cup {NULL}]]
        /\ call' \in [Client -> Call]
        /\ at' \in [Client -> At]
    <3>1. CASE at' = [at EXCEPT ![o] = "failed"] /\ UNCHANGED <<thread, call>>
      BY <3>1, Labels DEF Starting
    <3>2. CASE \E t \in Thread :
                  /\ thread' = [thread EXCEPT ![t] = [is |-> "running", para |-> call[o].para]]
                  /\ call' = [call EXCEPT ![o] = [call[o] EXCEPT !.tid = t]]
                  /\ at' = [at EXCEPT ![o] = "created"]
      <4>1. \A t \in Thread : [call[o] EXCEPT !.tid = t] \in Call
        BY DEF Call
      <4>2. QED BY <2>1, <3>2, <4>1, Labels DEF Starting, Phase
    <3>3. QED BY <1>4, <3>1, <3>2 DEF Create
  <2>5. QED BY <1>4, <2>3, <2>4 DEF Create
<1>5. CASE Started(o)
  <2>1. call[o].para \in Address /\ call[o].tid \in Thread \cup {NULL}
    BY <1>5, InHand DEF Started, Call
  <2>2. [para[call[o].para] EXCEPT !.pthread_id = call[o].tid] \in Para
    BY <2>1 DEF Para
  <2>3. [call[o] EXCEPT !.para = NULL, !.tid = NULL] \in Call
    BY DEF Call
  <2>4. /\ para' = [para EXCEPT ![call[o].para] = [para[call[o].para] EXCEPT !.pthread_id = call[o].tid]]
        /\ call' = [call EXCEPT ![o] = [call[o] EXCEPT !.para = NULL, !.tid = NULL]]
    BY <1>5, <2>1 DEF Started
  <2>5. QED BY <1>5, <2>1, <2>2, <2>3, <2>4, Labels DEF Started
<1>6. CASE StartFailed(o)
  <2>1. call[o].para \in Address
    BY <1>6, InHand DEF StartFailed
  <2>2. [para[call[o].para] EXCEPT !.live = FALSE] \in Para
    <3>1. para[call[o].para] \in Para
      BY <2>1
    <3>2. QED BY <3>1 DEF Para
  <2>3. QED BY <1>6, <2>1, <2>2, Labels DEF StartFailed
<1>7. CASE Release(o)
  <2>1. call[o].pid \in Pid
    BY DEF Call
  <2>2. QED BY <1>7, <2>1, NoCallTyped, Labels DEF Release
<1>8. QED BY <1>1, <1>2, <1>3, <1>4, <1>5, <1>6, <1>7 DEF Start

LEMMA StopTyped ==
    ASSUME PidInv, NEW c \in Client, Stop(c)
    PROVE  TypeOK'
<1> USE DEF TypeOK, PidInv, Goto
<1>1. call[c].para \in Address
  BY InHand DEF Stop, NoStop, Stops, Interrupt, Send, Join, Joined, Uninterrupt, Exit, Stopping, Exiting
<1>2. para[call[c].para] \in Para /\ para[call[c].para].pthread_id \in Thread \cup {NULL}
  BY <1>1 DEF Para
<1>3. /\ [para[call[c].para] EXCEPT !.stop = FALSE] \in Para
      /\ [para[call[c].para] EXCEPT !.stop = TRUE] \in Para
      /\ [para[call[c].para] EXCEPT !.live = FALSE] \in Para
  BY <1>2 DEF Para
<1>4. CASE NoStop(c)
  BY <1>4, ReturnTyped DEF NoStop
<1>5. CASE Stops(c) \/ Interrupt(c)
  BY <1>1, <1>2, <1>3, <1>5, Labels DEF Stops, Interrupt, Stopping
<1>6. CASE Send(c)
  <2>1. para' \in [Address -> Para]
    BY <1>1, <1>3, <1>6 DEF Send
  <2>2. at' \in [Client -> At] /\ call' \in [Client -> Call]
    BY <1>6, ReturnTyped, Labels DEF Send, Stopping
  <2>3. QED BY <1>6, <2>1, <2>2 DEF Send
<1>7. CASE Join(c)
  <2>1. PICK t \in Thread \cup {NULL} : call' = [call EXCEPT ![c] = [call[c] EXCEPT !.tid = t]]
    BY <1>2, <1>7 DEF Join
  <2>2. [call[c] EXCEPT !.tid = t] \in Call
    BY DEF Call
  <2>3. at' \in [Client -> At]
    BY <1>7, Labels DEF Join, Stopping, Exiting
  <2>4. QED BY <1>7, <2>1, <2>2, <2>3 DEF Join
<1>8. CASE Joined(c)
  <2>1. [call[c] EXCEPT !.tid = NULL] \in Call
    BY DEF Call
  <2>2. at' \in [Client -> At]
    BY <1>8, Labels DEF Joined, Stopping, Exiting
  <2>3. call' \in [Client -> Call]
    BY <1>8, <2>1 DEF Joined
  <2>4. thread' \in [Thread -> [is : Phase, para : Address \cup {NULL}]]
    BY <1>8 DEF Joined, Phase
  <2>5. QED BY <1>8, <2>2, <2>3, <2>4 DEF Joined
<1>9. CASE Uninterrupt(c)
  <2>1. para' \in [Address -> Para] /\ kill' \subseteq Thread
    BY <1>1, <1>3, <1>9 DEF Uninterrupt
  <2>2. QED BY <1>9, <2>1, ReturnTyped DEF Uninterrupt
<1>10. CASE Exit(c)
  BY <1>1, <1>3, <1>10, Labels DEF Exit
<1>11. QED BY <1>4, <1>5, <1>6, <1>7, <1>8, <1>9, <1>10 DEF Stop

LEMMA EnterTyped ==
    ASSUME PidInv, NEW c \in Client, NEW op \in {"async", "stop", "exit"}, NEW p \in Pid, Enter(c, op, p)
    PROVE  TypeOK'
<1> USE DEF TypeOK, PidInv, Goto
<1>1. Open(p) \in Address \cup {NULL} /\ at[c] \in {"idle", "playing"}
  BY DEF Enter, Open, May
<1>2. [home |-> at[c], op |-> op, pid |-> p, para |-> Open(p), tid |-> NULL] \in Call
  BY <1>1 DEF Call
<1>3. QED BY <1>2, Labels DEF Enter, Stopping, Exiting

LEMMA ThreadTyped ==
    ASSUME PidInv, NEW t \in Thread, PlayerStep(t)
    PROVE  TypeOK'
<1> USE DEF TypeOK, PidInv
<1> DEFINE a == thread[t].para
<1>1. a \in Address => /\ [para[a] EXCEPT !.exited = TRUE] \in Para
                       /\ [para[a] EXCEPT !.stop = FALSE] \in Para
  BY DEF Para
<1>2. CASE TakeStop(t)
  <2>1. thread' = [thread EXCEPT ![t] = [thread[t] EXCEPT !.is = "asked"]]
    BY <1>2 DEF TakeStop
  <2>2. thread' \in [Thread -> [is : Phase, para : Address \cup {NULL}]]
    BY <2>1 DEF Phase
  <2>3. para' \in [Address -> Para]
    BY <1>1, <1>2 DEF TakeStop
  <2>4. QED BY <1>2, <2>2, <2>3 DEF TakeStop
<1>3. CASE MateWindow(t)
  BY <1>3 DEF MateWindow
<1>4. CASE Ending(t)
  <2>1. thread' = [thread EXCEPT ![t] = [thread[t] EXCEPT !.is = "leaving"]]
    BY <1>4 DEF Ending
  <2>2. thread' \in [Thread -> [is : Phase, para : Address \cup {NULL}]]
    BY <2>1 DEF Phase
  <2>3. para' \in [Address -> Para]
    BY <1>1, <1>4 DEF Ending
  <2>4. QED BY <1>4, <2>2, <2>3 DEF Ending
<1>5. CASE Ended(t)
  BY <1>5 DEF Ended, Phase
<1>6. QED BY <1>2, <1>3, <1>4, <1>5 DEF PlayerStep

-----------------------------------------------------------------------------
(* Who has which pid, and what it leads to. *)

\* Only this client moves.
Moves(c) == \A d \in Client \ {c} : at'[d] = at[d] /\ call'[d] = call[d]

LEMMA OneMoves ==
    ASSUME TypeOK, NEW c \in Client, Start(c) \/ Stop(c)
    PROVE  Moves(c)
<1> USE DEF TypeOK, Goto, Moves
<1>1. CASE Start(c)
  BY <1>1 DEF Start, Request, OutOfMemory, Allocate, Create, Started, StartFailed, Release
<1>2. CASE Stop(c)
  <2>1. Return(c) => Moves(c)
    BY DEF Return
  <2>2. QED
    BY <1>2, <2>1 DEF Stop, NoStop, Stops, Interrupt, Send, Join, Joined, Uninterrupt, Exit
<1>3. QED BY <1>1, <1>2

\* A step that neither takes a pid nor returns one, and neither allocates nor frees.
LEMMA QuietStep ==
    ASSUME PidInv, NEW c \in Client, Moves(c), UNCHANGED <<pool, data>>,
           \A a \in Address : para'[a].live = para[a].live,
           Own(c)' <=> Own(c), Leads(c)' <=> Leads(c), at'[c] # "requested",
           Own(c) => call'[c].pid = call[c].pid,
           at'[c] \in {"published", "created", "failed"} \cup Stopping \cup Exiting =>
              call'[c].para # NULL /\ (Own(c) => call'[c].para = Mine(c)),
           at'[c] \in Exiting => call'[c].home = "playing" /\ call'[c].op = "exit",
           at'[c] \in Stopping /\ call'[c].op = "exit" => call'[c].home = "playing"
    PROVE  Roles' /\ Owners' /\ Parameters'
<1>1. \A d \in Client : Own(d)' <=> Own(d)
  BY DEF Moves, Own
<1>2. \A d \in Client : Leads(d)' <=> Leads(d)
  BY DEF Moves, Own, Leads
<1>3. \A d \in Client : Own(d) => call'[d].pid = call[d].pid /\ Mine(d)' = Mine(d)
  BY DEF Moves, Mine
<1>4. Roles'
  BY DEF PidInv, Roles, Moves
<1>5. Owners'
  BY <1>1, <1>3 DEF PidInv, Owners
<1>6. Parameters'
  <2>1. \A d \in Client : at'[d] = "requested" => Mine(d)' = NULL
    BY DEF Moves, PidInv, Parameters, Mine
  <2>2. \A d \in Client : Leads(d)' => Mine(d)' # NULL /\ Mine(d)' \in Address /\ para'[Mine(d)'].live
    <3>1. \A d \in Client : Leads(d) => Mine(d) # NULL /\ para[Mine(d)].live /\ Own(d) /\ Mine(d) \in Address
      BY DEF PidInv, Parameters, TypeOK, Call, Leads, Mine
    <3>2. QED BY <1>2, <1>3, <3>1
  <2>3. \A d, e \in Client : d # e /\ Leads(d)' /\ Leads(e)' => Mine(d)' # Mine(e)'
    BY <1>2, <1>3 DEF PidInv, Parameters, Leads
  <2>4. \A d \in Client : at'[d] \in {"published", "created", "failed"} \cup Stopping \cup Exiting
                             => call'[d].para # NULL /\ (Own(d)' => call'[d].para = Mine(d)')
    BY <1>1, <1>3 DEF PidInv, Parameters, Moves
  <2>5. QED BY <2>1, <2>2, <2>3, <2>4 DEF Parameters
<1>7. QED BY <1>4, <1>5, <1>6

\* A client in a call of player_start or player_exit has its own parameters in hand.
LEMMA OwnInHand ==
    ASSUME PidInv, NEW c \in Client, Leads(c), at[c] # "playing"
    PROVE  call[c].para = Mine(c) /\ Mine(c) \in Address /\ call[c].pid \in Pid
  BY DEF PidInv, TypeOK, Call, Parameters, Leads, Own, Mine, Starting

LEMMA RequestKeeps ==
    ASSUME PidInv, NEW o \in Client, Request(o)
    PROVE  Roles' /\ Owners' /\ Parameters'
<1>1. PICK p \in Pid : /\ Requested(p)
                       /\ pool' = pool \cup {p}
                       /\ data' = [data EXCEPT ![p] = NULL]
                       /\ call' = [call EXCEPT ![o] = [NoCall EXCEPT !.pid = p]]
  BY DEF Request
<1>2. p \notin pool
  BY <1>1 DEF Requested, FreeProbes
<1>3. /\ at[o] = "idle" /\ at'[o] = "requested" /\ para' = para
      /\ call'[o].pid = p /\ data'[p] = NULL
      /\ Moves(o)
  BY <1>1, OneMoves DEF Request, Goto, PidInv, TypeOK, NoCall, Start
<1>4. ~Own(o) /\ Own(o)' /\ ~Leads(o)'
  BY <1>3 DEF Own, Leads, Starting, Stopping, Exiting
<1>5. \A d \in Client \ {o} : /\ Own(d)' <=> Own(d)
                              /\ Leads(d)' <=> Leads(d)
                              /\ call'[d] = call[d] /\ at'[d] = at[d]
  BY <1>3 DEF Moves, Own, Leads
<1>6. \A d \in Client : Own(d) => call[d].pid \in pool /\ call[d].pid # p
  BY <1>2 DEF PidInv, Owners
<1>7. \A d \in Client \ {o} : Own(d) => Mine(d)' = Mine(d)
  BY <1>1, <1>5, <1>6 DEF Mine, PidInv, TypeOK, Call
<1>8. Roles'
  BY <1>3, <1>5 DEF PidInv, Roles, Stopping, Exiting
<1>9. Owners'
  <2>1. \A c \in Client : Own(c)' => call'[c].pid \in pool'
    BY <1>1, <1>3, <1>5, <1>6
  <2>2. \A c, d \in Client : c # d /\ Own(c)' /\ Own(d)' => call'[c].pid # call'[d].pid
    BY <1>3, <1>5, <1>6 DEF PidInv, Owners
  <2>3. \A q \in Pid : data'[q] # NULL => \E c \in Client : Own(c)' /\ call'[c].pid = q
    BY <1>1, <1>3, <1>4, <1>5 DEF PidInv, Owners, TypeOK
  <2>4. QED BY <2>1, <2>2, <2>3 DEF Owners
<1>10. Parameters'
  <2>1. \A d \in Client : at'[d] = "requested" => Mine(d)' = NULL
    BY <1>3, <1>5, <1>7 DEF PidInv, Parameters, Mine, Own, Starting
  <2>2. \A d \in Client : Leads(d)' => Mine(d)' # NULL /\ para'[Mine(d)'].live
    BY <1>3, <1>4, <1>5, <1>7 DEF PidInv, Parameters, Leads
  <2>3. \A d, e \in Client : d # e /\ Leads(d)' /\ Leads(e)' => Mine(d)' # Mine(e)'
    BY <1>4, <1>5, <1>7 DEF PidInv, Parameters, Leads
  <2>4. \A d \in Client : at'[d] \in {"published", "created", "failed"} \cup Stopping \cup Exiting
                             => call'[d].para # NULL /\ (Own(d)' => call'[d].para = Mine(d)')
    BY <1>3, <1>5, <1>7 DEF PidInv, Parameters, Stopping, Exiting
  <2>5. QED BY <2>1, <2>2, <2>3, <2>4 DEF Parameters
<1>11. QED BY <1>8, <1>9, <1>10

\* The pid leads nowhere when it is given up: it has not led anywhere yet, or it is reset.
LEMMA GivenUpKeeps ==
    ASSUME PidInv, NEW o \in Client, OutOfMemory(o) \/ Release(o)
    PROVE  Roles' /\ Owners' /\ Parameters'
<1> DEFINE p == call[o].pid
<1>1. /\ at[o] \in {"requested", "freed"} /\ at'[o] = "idle" /\ para' = para /\ p \in Pid
      /\ data' = [data EXCEPT ![p] = NULL]
      /\ pool \ {p} \subseteq pool'
      /\ Moves(o)
  BY OneMoves DEF OutOfMemory, Release, Goto, PidInv, TypeOK, Call, Start, Parameters, Mine
<1>2. Own(o) /\ ~Own(o)' /\ ~Leads(o)'
  BY <1>1 DEF Own, Leads, Starting, Stopping, Exiting
<1>3. \A d \in Client \ {o} : /\ Own(d)' <=> Own(d)
                              /\ Leads(d)' <=> Leads(d)
                              /\ call'[d] = call[d] /\ at'[d] = at[d]
  BY <1>1 DEF Moves, Own, Leads
<1>4. \A d \in Client \ {o} : Own(d) => call[d].pid \in pool \ {p} /\ Mine(d)' = Mine(d)
  <2>1. \A d \in Client \ {o} : Own(d) => call[d].pid \in pool \ {p}
    BY <1>2 DEF PidInv, Owners
  <2>2. QED BY <1>1, <1>3, <2>1 DEF Mine, PidInv, TypeOK
<1>5. Roles'
  BY <1>1, <1>3 DEF PidInv, Roles, Stopping, Exiting
<1>6. Owners'
  <2>1. \A c \in Client : Own(c)' => call'[c].pid \in pool'
    BY <1>1, <1>2, <1>3, <1>4
  <2>2. \A c, d \in Client : c # d /\ Own(c)' /\ Own(d)' => call'[c].pid # call'[d].pid
    BY <1>2, <1>3 DEF PidInv, Owners
  <2>3. \A q \in Pid : data'[q] # NULL => \E c \in Client : Own(c)' /\ call'[c].pid = q
    BY <1>1, <1>3 DEF PidInv, Owners, TypeOK
  <2>4. QED BY <2>1, <2>2, <2>3 DEF Owners
<1>7. Parameters'
  <2>1. \A d \in Client : at'[d] = "requested" => Mine(d)' = NULL
    BY <1>1, <1>3, <1>4 DEF PidInv, Parameters, Own, Starting
  <2>2. \A d \in Client : Leads(d)' => Mine(d)' # NULL /\ para'[Mine(d)'].live
    BY <1>1, <1>2, <1>3, <1>4 DEF PidInv, Parameters, Leads
  <2>3. \A d, e \in Client : d # e /\ Leads(d)' /\ Leads(e)' => Mine(d)' # Mine(e)'
    BY <1>2, <1>3, <1>4 DEF PidInv, Parameters, Leads
  <2>4. \A d \in Client : at'[d] \in {"published", "created", "failed"} \cup Stopping \cup Exiting
                             => call'[d].para # NULL /\ (Own(d)' => call'[d].para = Mine(d)')
    BY <1>1, <1>3, <1>4 DEF PidInv, Parameters, Stopping, Exiting
  <2>5. QED BY <2>1, <2>2, <2>3, <2>4 DEF Parameters
<1>8. QED BY <1>5, <1>6, <1>7

\* A new address is no owner's: theirs are allocated.
LEMMA AllocateKeeps ==
    ASSUME PidInv, NEW o \in Client, Allocate(o)
    PROVE  Roles' /\ Owners' /\ Parameters'
<1> DEFINE p == call[o].pid
<1>1. PICK a \in Address :
          /\ ~para[a].live
          /\ para' = [para EXCEPT ![a] = NewPara]
          /\ data' = [data EXCEPT ![p] = a]
          /\ call' = [call EXCEPT ![o].para = a]
  BY DEF Allocate
<1>2. /\ at[o] = "requested" /\ at'[o] = "published" /\ p \in Pid /\ pool' = pool
      /\ call'[o].pid = p /\ call'[o].para = a /\ a # NULL
      /\ Moves(o)
  <2>1. a # NULL
    BY PlayersAssumption
  <2>2. Moves(o)
    BY OneMoves DEF PidInv, Start
  <2>3. QED BY <1>1, <2>1, <2>2 DEF Allocate, Goto, PidInv, TypeOK, Call
<1>3. Own(o) /\ Own(o)' /\ Leads(o)' /\ Mine(o)' = a /\ para'[a].live
  BY <1>1, <1>2 DEF Own, Leads, Starting, Mine, NewPara, PidInv, TypeOK
<1>4. \A d \in Client \ {o} : /\ Own(d)' <=> Own(d)
                              /\ Leads(d)' <=> Leads(d)
                              /\ call'[d] = call[d] /\ at'[d] = at[d]
  BY <1>2 DEF Moves, Own, Leads
<1>5. \A d \in Client \ {o} : Own(d) => call[d].pid \in Pid \ {p}
  BY <1>3 DEF PidInv, Owners, TypeOK
<1>6. \A d \in Client \ {o} : Own(d) => Mine(d)' = Mine(d)
  BY <1>1, <1>4, <1>5 DEF Mine, PidInv, TypeOK
<1>7. \A d \in Client \ {o} : Leads(d) =>
         /\ Own(d) /\ Mine(d) # NULL /\ Mine(d) \in Address /\ Mine(d) # a
         /\ para[Mine(d)].live /\ para'[Mine(d)].live
  <2>1. \A d \in Client : Leads(d) => Own(d) /\ Mine(d) # NULL /\ para[Mine(d)].live /\ Mine(d) \in Address
    BY DEF PidInv, Parameters, Leads, Mine, TypeOK, Call
  <2>2. QED BY <1>1, <2>1 DEF PidInv, TypeOK
<1>8. Roles'
  BY <1>2, <1>4 DEF PidInv, Roles, Stopping, Exiting
<1>9. Owners'
  <2>1. \A c \in Client : Own(c)' => call'[c].pid \in pool'
    BY <1>2, <1>3, <1>4 DEF PidInv, Owners
  <2>2. \A c, d \in Client : c # d /\ Own(c)' /\ Own(d)' => call'[c].pid # call'[d].pid
    BY <1>2, <1>3, <1>4 DEF PidInv, Owners
  <2>3. \A q \in Pid : data'[q] # NULL => \E c \in Client : Own(c)' /\ call'[c].pid = q
    BY <1>1, <1>2, <1>3, <1>4 DEF PidInv, Owners, TypeOK
  <2>4. QED BY <2>1, <2>2, <2>3 DEF Owners
<1>10. Parameters'
  <2>1. \A d \in Client : at'[d] = "requested" => Mine(d)' = NULL
    BY <1>2, <1>4, <1>6 DEF PidInv, Parameters, Own, Starting
  <2>2. \A d \in Client : Leads(d)' => Mine(d)' # NULL /\ para'[Mine(d)'].live
    BY <1>2, <1>3, <1>4, <1>6, <1>7
  <2>3. \A d, e \in Client : d # e /\ Leads(d)' /\ Leads(e)' => Mine(d)' # Mine(e)'
    BY <1>3, <1>4, <1>6, <1>7 DEF PidInv, Parameters
  <2>4. \A d \in Client : at'[d] \in {"published", "created", "failed"} \cup Stopping \cup Exiting
                             => call'[d].para # NULL /\ (Own(d)' => call'[d].para = Mine(d)')
    BY <1>2, <1>3, <1>4, <1>6 DEF PidInv, Parameters
  <2>5. QED BY <2>1, <2>2, <2>3, <2>4 DEF Parameters
<1>11. QED BY <1>8, <1>9, <1>10

\* What is freed is the owner's own.
LEMMA FreeKeeps ==
    ASSUME PidInv, NEW o \in Client, StartFailed(o) \/ Exit(o)
    PROVE  Roles' /\ Owners' /\ Parameters'
<1>1. /\ at[o] \in {"failed", "lastuninterrupt"} /\ at'[o] = "freed"
      /\ UNCHANGED <<pool, data, call>>
      /\ para' = [para EXCEPT ![call[o].para].live = FALSE]
      /\ Moves(o)
  BY OneMoves DEF StartFailed, Exit, Goto, PidInv, TypeOK, Start, Stop
<1>2. Own(o) /\ Own(o)' /\ Leads(o) /\ ~Leads(o)' /\ at[o] # "playing"
  BY <1>1 DEF Own, Leads, Starting, Exiting
<1>3. call[o].para = Mine(o) /\ Mine(o) \in Address
  BY <1>2, OwnInHand
<1>4. \A d \in Client : /\ Own(d)' <=> Own(d)
                        /\ Leads(d)' => Leads(d) /\ d # o
                        /\ Mine(d)' = Mine(d)
  BY <1>1, <1>2 DEF Moves, Own, Leads, Mine
<1>5. Roles'
  BY <1>1 DEF PidInv, Roles, Moves, Stopping, Exiting
<1>6. Owners'
  BY <1>1, <1>4 DEF PidInv, Owners
<1>7. Parameters'
  <2>1. \A d \in Client : at'[d] = "requested" => Mine(d)' = NULL
    BY <1>1, <1>4 DEF PidInv, Parameters, Moves
  <2>2. \A d \in Client : Leads(d)' => Mine(d)' # NULL /\ para'[Mine(d)'].live
    <3>1. \A d \in Client : Leads(d) => Mine(d) # NULL /\ para[Mine(d)].live /\ Mine(d) \in Address
      BY DEF PidInv, Parameters, Leads, Mine, TypeOK, Call
    <3>2. \A d \in Client : Leads(d) /\ d # o => Mine(d) # Mine(o)
      BY <1>2 DEF PidInv, Parameters
    <3>3. QED BY <1>1, <1>3, <1>4, <3>1, <3>2 DEF PidInv, TypeOK
  <2>3. \A d, e \in Client : d # e /\ Leads(d)' /\ Leads(e)' => Mine(d)' # Mine(e)'
    BY <1>4 DEF PidInv, Parameters
  <2>4. \A d \in Client : at'[d] \in {"published", "created", "failed"} \cup Stopping \cup Exiting
                             => call'[d].para # NULL /\ (Own(d)' => call'[d].para = Mine(d)')
    BY <1>1, <1>4 DEF PidInv, Parameters, Moves, Stopping, Exiting
  <2>5. QED BY <2>1, <2>2, <2>3, <2>4 DEF Parameters
<1>8. QED BY <1>5, <1>6, <1>7

\* The steps of a client that leave the table and the allocation alone.
Quiet(c) == \/ Create(c) \/ Started(c) \/ NoStop(c) \/ Stops(c) \/ Interrupt(c) \/ Send(c)
            \/ Join(c) \/ Joined(c) \/ Uninterrupt(c)

LEMMA LiveKept ==
    ASSUME PidInv, NEW c \in Client, Quiet(c)
    PROVE  \A a \in Address : para'[a].live = para[a].live
<1>1. CASE NoStop(c) \/ Stops(c) \/ Join(c) \/ Joined(c)
  BY <1>1 DEF NoStop, Stops, Join, Joined
<1>2. CASE Create(c) \/ Started(c) \/ Interrupt(c) \/ Send(c) \/ Uninterrupt(c)
  BY <1>2 DEF PidInv, TypeOK, Para, Create, Started, Interrupt, Send, Uninterrupt
<1>3. QED BY <1>1, <1>2 DEF Quiet

\* What Return leaves of a call.
LEMMA ReturnRoles ==
    ASSUME PidInv, NEW c \in Client, at[c] \in Stopping, Return(c)
    PROVE  /\ at'[c] \in {"idle", "playing", "lastjoin"}
           /\ at'[c] = "idle" <=> call[c].home = "idle"
           /\ at'[c] = "lastjoin" => call'[c].home = "playing" /\ call'[c].op = "exit"
                                     /\ call'[c].para = call[c].para
           /\ at'[c] # "idle" => call'[c].pid = call[c].pid
<1>1. call[c].home \in {"idle", "playing"} /\ call[c] \in Call
  BY DEF PidInv, TypeOK, Call
<1>2. CASE call[c].op = "exit"
  <2>1. call[c].home = "playing"
    BY <1>2 DEF PidInv, Roles
  <2>2. at'[c] = "lastjoin" /\ call'[c] = [call[c] EXCEPT !.tid = NULL]
    BY <1>2 DEF Return, Goto, PidInv, TypeOK
  <2>3. QED BY <1>1, <1>2, <2>1, <2>2 DEF Call
<1>3. CASE call[c].op # "exit"
  <2>1. /\ at'[c] = call[c].home
        /\ call'[c] = [NoCall EXCEPT !.pid = IF call[c].home = "playing" THEN call[c].pid ELSE 0]
    BY <1>3 DEF Return, Goto, PidInv, TypeOK
  <2>2. QED BY <1>1, <2>1 DEF NoCall
<1>4. QED BY <1>2, <1>3

LEMMA QuietKeeps ==
    ASSUME PidInv, NEW c \in Client, Quiet(c)
    PROVE  Roles' /\ Owners' /\ Parameters'
<1>1. Moves(c)
  BY OneMoves DEF Quiet, Start, Stop, PidInv
<1>2. \A a \in Address : para'[a].live = para[a].live
  BY LiveKept
<1>3. UNCHANGED <<pool, data>>
  BY DEF Quiet, Create, Started, NoStop, Stops, Interrupt, Send, Join, Joined, Uninterrupt
<1>4. CASE Create(c)
  <2>1. /\ at[c] = "published" /\ at'[c] \in {"created", "failed"}
        /\ call'[c].pid = call[c].pid /\ call'[c].para = call[c].para
    BY <1>4 DEF Create, Goto, PidInv, TypeOK, Call
  <2>2. Own(c) /\ Own(c)' /\ Leads(c) /\ Leads(c)'
    BY <2>1 DEF Own, Leads, Starting
  <2>3. call[c].para # NULL /\ call[c].para = Mine(c)
    BY <2>1, <2>2 DEF PidInv, Parameters
  <2>4. QED BY <1>1, <1>2, <1>3, <2>1, <2>2, <2>3, QuietStep DEF Stopping, Exiting
<1>5. CASE Started(c)
  <2>1. at[c] = "created" /\ at'[c] = "playing" /\ call'[c].pid = call[c].pid
    BY <1>5 DEF Started, Goto, PidInv, TypeOK, Call
  <2>2. Own(c) /\ Own(c)' /\ Leads(c) /\ Leads(c)'
    BY <2>1 DEF Own, Leads, Starting
  <2>3. QED BY <1>1, <1>2, <1>3, <2>1, <2>2, QuietStep DEF Stopping, Exiting
<1>6. CASE NoStop(c) \/ Uninterrupt(c) \/ (Send(c) /\ call[c].op = "async")
  <2>1. at[c] \in Stopping /\ Return(c)
    BY <1>6 DEF NoStop, Uninterrupt, Send, Stopping
  <2>2. /\ at'[c] \in {"idle", "playing", "lastjoin"}
        /\ at'[c] = "idle" <=> call[c].home = "idle"
        /\ at'[c] = "lastjoin" => call'[c].home = "playing" /\ call'[c].op = "exit"
                                  /\ call'[c].para = call[c].para
        /\ at'[c] # "idle" => call'[c].pid = call[c].pid
    BY <2>1, ReturnRoles
  <2>3. call[c].home \in {"idle", "playing"}
    BY DEF PidInv, TypeOK, Call
  <2>4. /\ Own(c) <=> call[c].home = "playing"
        /\ Leads(c) <=> Own(c)
        /\ Own(c)' <=> at'[c] # "idle"
        /\ Leads(c)' <=> Own(c)'
    BY <2>1, <2>2 DEF Own, Leads, Starting, Stopping, Exiting
  <2>5. call[c].para # NULL /\ (Own(c) => call[c].para = Mine(c))
    BY <2>1 DEF PidInv, Parameters
  <2>6. QED
    BY <1>1, <1>2, <1>3, <2>2, <2>3, <2>4, <2>5, QuietStep DEF Stopping, Exiting
<1>7. CASE Stops(c) \/ Interrupt(c) \/ (Send(c) /\ call[c].op # "async")
           \/ ((Join(c) \/ Joined(c)) /\ at[c] \in Stopping)
  <2>1. /\ at[c] \in Stopping /\ at'[c] \in Stopping
        /\ call'[c].home = call[c].home /\ call'[c].op = call[c].op
        /\ call'[c].pid = call[c].pid /\ call'[c].para = call[c].para
    BY <1>7 DEF Stops, Interrupt, Send, Join, Joined, Goto, Stopping, PidInv, TypeOK, Call
  <2>2. (Own(c)' <=> Own(c)) /\ (Leads(c) <=> Own(c)) /\ (Leads(c)' <=> Own(c)')
    BY <2>1 DEF Own, Leads, Starting, Stopping, Exiting
  <2>3. /\ call[c].para # NULL /\ (Own(c) => call[c].para = Mine(c))
        /\ call[c].op = "exit" => call[c].home = "playing"
    BY <2>1 DEF PidInv, Parameters, Roles
  <2>4. QED BY <1>1, <1>2, <1>3, <2>1, <2>2, <2>3, QuietStep DEF Stopping, Exiting
<1>8. CASE (Join(c) \/ Joined(c)) /\ at[c] \in Exiting
  <2>1. /\ at[c] \in Exiting /\ at'[c] \in Exiting
        /\ call'[c].home = call[c].home /\ call'[c].op = call[c].op
        /\ call'[c].pid = call[c].pid /\ call'[c].para = call[c].para
    BY <1>8 DEF Join, Joined, Goto, Exiting, PidInv, TypeOK, Call
  <2>2. Own(c) /\ Own(c)' /\ Leads(c) /\ Leads(c)'
    BY <2>1 DEF Own, Leads, Exiting
  <2>3. /\ call[c].para # NULL /\ (Own(c) => call[c].para = Mine(c))
        /\ call[c].home = "playing" /\ call[c].op = "exit"
    BY <2>1 DEF PidInv, Parameters, Roles
  <2>4. QED BY <1>1, <1>2, <1>3, <2>1, <2>2, <2>3, QuietStep DEF Stopping, Exiting
<1>9. QED BY <1>4, <1>5, <1>6, <1>7, <1>8 DEF Quiet, Join, Joined, Stopping, Exiting

LEMMA EnterKeeps ==
    ASSUME PidInv, NEW c \in Client, NEW op \in {"async", "stop", "exit"}, NEW p \in Pid, Enter(c, op, p)
    PROVE  Roles' /\ Owners' /\ Parameters'
<1>1. /\ Moves(c) /\ UNCHANGED <<pool, data, para>>
      /\ call'[c] = [home |-> at[c], op |-> op, pid |-> p, para |-> Open(p), tid |-> NULL]
      /\ at[c] \in {"idle", "playing"}
      /\ at[c] = "idle" => op # "exit"
      /\ at[c] = "playing" => p = call[c].pid
      /\ at'[c] \in {"stop", "lastjoin"}
      /\ at'[c] = "lastjoin" => op = "exit"
      /\ Open(p) # NULL
  BY DEF Enter, May, Goto, Moves, PidInv, TypeOK
<1>2. Own(c) => Open(p) = Mine(c)
  BY <1>1 DEF Own, Open, Mine, PidInv, Owners, Starting, Stopping, Exiting
<1>3. (Own(c) <=> at[c] = "playing") /\ (Leads(c) <=> Own(c))
      /\ (Own(c)' <=> at[c] = "playing") /\ (Leads(c)' <=> Own(c)')
  BY <1>1 DEF Own, Leads, Starting, Stopping, Exiting
<1>4. QED BY <1>1, <1>2, <1>3, QuietStep DEF Stopping, Exiting

\* The player thread and its mate leave the table and the calls alone, and of the parameters
\* all but the stop and the exit.
LEMMA PlayerStepFrame ==
    ASSUME PidInv, NEW t \in Thread, PlayerStep(t)
    PROVE  /\ UNCHANGED <<pool, data, at, call>>
           /\ \A a \in Address : para'[a].live = para[a].live /\ para'[a].pthread_id = para[a].pthread_id
           /\ \A u \in Thread : /\ thread[u].is # "none" => thread'[u].is # "none"
                                /\ thread[u].is = "joined" => thread'[u].is = "joined"
                                /\ thread'[u].is \in {"running", "asked", "leaving"} =>
                                      /\ thread[u].is \in {"running", "asked", "leaving"}
                                      /\ thread'[u].para = thread[u].para
<1>1. CASE TakeStop(t)
  BY <1>1 DEF TakeStop, Playing, PidInv, TypeOK, Para
<1>2. CASE MateWindow(t)
  BY <1>2 DEF MateWindow
<1>3. CASE Ending(t)
  BY <1>3 DEF Ending, Playing, PidInv, TypeOK, Para
<1>4. CASE Ended(t)
  BY <1>4 DEF Ended, PidInv, TypeOK
<1>5. QED BY <1>1, <1>2, <1>3, <1>4 DEF PlayerStep

LEMMA ThreadKeeps ==
    ASSUME PidInv, NEW t \in Thread, PlayerStep(t)
    PROVE  Roles' /\ Owners' /\ Parameters'
<1>1. UNCHANGED <<pool, data, at, call>> /\ \A a \in Address : para'[a].live = para[a].live
  BY PlayerStepFrame
<1>2. \A c \in Client : (Own(c)' <=> Own(c)) /\ (Leads(c)' <=> Leads(c)) /\ Mine(c)' = Mine(c)
  BY <1>1 DEF Own, Leads, Mine
<1>3. \A c \in Client : Leads(c) => Mine(c) # NULL /\ para[Mine(c)].live /\ Mine(c) \in Address
  BY DEF PidInv, Parameters, Leads, Mine, TypeOK, Call
<1>4. Roles' /\ Owners'
  BY <1>1, <1>2 DEF PidInv, Roles, Owners
<1>5. Parameters'
  BY <1>1, <1>2, <1>3 DEF PidInv, Parameters
<1>6. QED BY <1>4, <1>5

LEMMA InitPidInv == Init => PidInv
<1> SUFFICES ASSUME Init PROVE PidInv
  OBVIOUS
<1>1. TypeOK
  <2>1. [NewPara EXCEPT !.live = FALSE] \in Para
    BY DEF Para, NewPara
  <2>2. QED BY <2>1, NoCallTyped, Labels DEF Init, TypeOK, Phase
<1>2. \A c \in Client : at[c] = "idle" /\ ~Own(c) /\ ~Leads(c)
  BY DEF Init, Own, Leads, Starting, Stopping, Exiting
<1>3. Roles /\ Owners /\ Parameters
  BY <1>2 DEF Init, Roles, Owners, Parameters, Stopping, Exiting
<1>4. QED BY <1>1, <1>3 DEF PidInv

\* The step of the client that a step of Next is, for the lemmas above.
LEMMA Steps ==
    ASSUME Next
    PROVE  \/ \E c \in Client : \/ Request(c) \/ OutOfMemory(c) \/ Release(c)
                                \/ Allocate(c) \/ StartFailed(c) \/ Exit(c) \/ Quiet(c)
           \/ \E c \in Client, op \in {"async", "stop", "exit"}, p \in Pid : Enter(c, op, p)
           \/ \E t \in Thread : PlayerStep(t)
  BY DEF Next, Start, Stop, Quiet

LEMMA PidStep == PidInv /\ [Next]_vars => PidInv'
<1> SUFFICES ASSUME PidInv, [Next]_vars PROVE PidInv'
  OBVIOUS
<1>1. CASE Next
  <2>1. TypeOK'
    BY <1>1, StartTyped, StopTyped, EnterTyped, ThreadTyped DEF Next
  <2>2. Roles' /\ Owners' /\ Parameters'
    BY <1>1, Steps, RequestKeeps, GivenUpKeeps, AllocateKeeps, FreeKeeps, QuietKeeps,
       EnterKeeps, ThreadKeeps
  <2>3. QED BY <2>1, <2>2 DEF PidInv
<1>2. CASE UNCHANGED vars
  BY <1>2 DEF vars, PidInv, TypeOK, Roles, Owners, Parameters, Own, Leads, Mine
<1>3. QED BY <1>1, <1>2

\* The pid table and the clients' parameters, in every reachable state.
THEOREM PidInductive == Spec => []PidInv
<1>1. QED BY InitPidInv, PidStep, PTL DEF Spec

\* Type correctness of the pid table, the players and the calls.
THEOREM PlayersTyped == Spec => []TypeOK
<1>1. PidInv => TypeOK
  BY DEF PidInv
<1>2. QED BY <1>1, PidInductive, PTL

\* Whatever clients there are and whomever they stop: a pid that is looked up leads to the
\* allocated parameters of one player, but for the owner's window between free and release.
THEOREM OpenSafe == Spec => []OpenIsSafe
<1>1. PidInv => OpenIsSafe
  <2> SUFFICES ASSUME PidInv, NEW p \in pool, data[p] # NULL,
                      ~ \E c \in Client : at[c] = "freed" /\ call[c].pid \in {q \in pool : data[q] = data[p]}
               PROVE  para[data[p]].live /\ \A q \in pool \ {p} : data[q] # data[p]
    BY DEF OpenIsSafe
  <2>1. \A q \in pool : data[q] = data[p] => \E c \in Client : Leads(c) /\ call[c].pid = q /\ Mine(c) = data[p]
    <3> SUFFICES ASSUME NEW q \in pool, data[q] = data[p]
                 PROVE  \E c \in Client : Leads(c) /\ call[c].pid = q /\ Mine(c) = data[p]
      OBVIOUS
    <3>1. PICK c \in Client : Own(c) /\ call[c].pid = q
      BY DEF PidInv, Owners, TypeOK
    <3>2. at[c] # "freed" /\ at[c] # "requested"
      BY <3>1 DEF PidInv, Parameters, Mine
    <3>3. QED BY <3>1, <3>2 DEF Leads, Mine
  <2>2. PICK c \in Client : Leads(c) /\ call[c].pid = p /\ Mine(c) = data[p]
    BY <2>1
  <2>3. para[data[p]].live
    BY <2>2 DEF PidInv, Parameters
  <2>4. \A q \in pool \ {p} : data[q] # data[p]
    BY <2>1, <2>2 DEF PidInv, Parameters
  <2>5. QED BY <2>3, <2>4
<1>2. QED BY <1>1, PidInductive, PTL

-----------------------------------------------------------------------------
(* The lease. *)

LEMMA HoldsOwn ==
    ASSUME NEW c \in Client, NEW p \in Pid
    PROVE  Holds(c, p) <=> Own(c) /\ call[c].pid = p
  BY DEF Holds, Own

LEMMA HolderIs ==
    ASSUME PidInv, NEW p \in Pid
    PROVE  /\ p \notin pool => Holder(p) = "free"
           /\ \A c \in Client : Own(c) /\ call[c].pid = p => Holder(p) = c
           /\ p \in pool /\ (\A c \in Client : ~(Own(c) /\ call[c].pid = p)) => Holder(p) = "lost"
           /\ \A c \in Client : Holder(p) = c => Own(c) /\ call[c].pid = p
<1>1. \A c \in Client : Own(c) /\ call[c].pid = p => Holder(p) = c
  <2> SUFFICES ASSUME NEW c \in Client, Own(c), call[c].pid = p PROVE Holder(p) = c
    OBVIOUS
  <2>1. p \in pool
    BY DEF PidInv, Owners
  <2>2. \A d \in Client : Holds(d, p) <=> d = c
    BY HoldsOwn DEF PidInv, Owners
  <2>3. QED BY <2>1, <2>2 DEF Holder
<1>2. p \in pool /\ (\A c \in Client : ~(Own(c) /\ call[c].pid = p)) => Holder(p) = "lost"
  BY HoldsOwn DEF Holder
<1>3. "free" \notin Client /\ "lost" \notin Client
  BY PlayersAssumption
<1>4. p \notin pool => Holder(p) = "free"
  BY DEF Holder
<1>5. \A c \in Client : Holder(p) = c => Own(c) /\ call[c].pid = p
  BY <1>1, <1>2, <1>3, <1>4
<1>6. QED BY <1>1, <1>2, <1>4, <1>5

\* The pids and their owners are unchanged, and so is the lease.
LEMMA HolderKept ==
    ASSUME pool' = pool,
           \A c \in Client : (Own(c)' <=> Own(c)) /\ (Own(c) => call'[c].pid = call[c].pid),
           NEW p \in Pid
    PROVE  Holder(p)' = Holder(p)
<1>1. \A c \in Client : Holds(c, p)' <=> Holds(c, p)
  <2>1. \A c \in Client : Holds(c, p) <=> Own(c) /\ call[c].pid = p
    BY HoldsOwn
  <2>2. \A c \in Client : Holds(c, p)' <=> Own(c)' /\ call'[c].pid = p
    BY DEF Holds, Own
  <2>3. QED BY <2>1, <2>2
<1>2. (\E c \in Client : Holds(c, p)') <=> (\E c \in Client : Holds(c, p))
  BY <1>1
<1>3. (CHOOSE c \in Client : Holds(c, p)') = (CHOOSE c \in Client : Holds(c, p))
  BY <1>1
<1>4. QED BY <1>2, <1>3 DEF Holder

\* The steps that neither begin nor end a lease.
LEMMA OwnKept ==
    ASSUME PidInv, NEW c \in Client,
           \/ Allocate(c) \/ StartFailed(c) \/ Exit(c) \/ Quiet(c)
           \/ \E op \in {"async", "stop", "exit"}, p \in Pid : Enter(c, op, p)
    PROVE  /\ pool' = pool
           /\ \A d \in Client : (Own(d)' <=> Own(d)) /\ (Own(d) => call'[d].pid = call[d].pid)
<1>1. pool' = pool
  BY DEF Allocate, StartFailed, Exit, Enter, Quiet, Create, Started, NoStop, Stops, Interrupt, Send,
         Join, Joined, Uninterrupt
<1>2. Moves(c)
  <2>1. CASE Allocate(c) \/ StartFailed(c) \/ Exit(c) \/ Quiet(c)
    BY <2>1, OneMoves DEF Start, Stop, Quiet, PidInv
  <2>2. CASE \E op \in {"async", "stop", "exit"}, p \in Pid : Enter(c, op, p)
    BY <2>2 DEF Enter, Goto, Moves, PidInv, TypeOK
  <2>3. QED BY <2>1, <2>2
<1>3. (Own(c)' <=> Own(c)) /\ (Own(c) => call'[c].pid = call[c].pid)
  <2>1. CASE Allocate(c) \/ StartFailed(c) \/ Exit(c) \/ Create(c) \/ Started(c)
    <3>1. /\ at[c] \in Starting \cup Exiting \cup {"playing", "freed"}
          /\ at'[c] \in Starting \cup Exiting \cup {"playing", "freed"}
      BY <2>1 DEF Allocate, StartFailed, Exit, Create, Started, Goto, Starting, Exiting, PidInv, TypeOK
    <3>2. call'[c].pid = call[c].pid
      BY <2>1 DEF Allocate, StartFailed, Exit, Create, Started, PidInv, TypeOK, Call
    <3>3. QED BY <3>1, <3>2 DEF Own
  <2>2. CASE NoStop(c) \/ Uninterrupt(c) \/ (Send(c) /\ call[c].op = "async")
    <3>1. at[c] \in Stopping /\ Return(c)
      BY <2>2 DEF NoStop, Uninterrupt, Send, Stopping
    <3>2. /\ at'[c] \in {"idle", "playing", "lastjoin"}
          /\ at'[c] = "idle" <=> call[c].home = "idle"
          /\ at'[c] # "idle" => call'[c].pid = call[c].pid
      BY <3>1, ReturnRoles
    <3>3. call[c].home \in {"idle", "playing"}
      BY DEF PidInv, TypeOK, Call
    <3>4. QED BY <3>1, <3>2, <3>3 DEF Own, Starting, Stopping, Exiting
  <2>3. CASE Stops(c) \/ Interrupt(c) \/ (Send(c) /\ call[c].op # "async") \/ Join(c) \/ Joined(c)
    <3>1. \/ at[c] \in Stopping /\ at'[c] \in Stopping
          \/ at[c] \in Exiting /\ at'[c] \in Exiting
      <4>1. CASE Stops(c) \/ Interrupt(c) \/ (Send(c) /\ call[c].op # "async")
        BY <4>1 DEF Stops, Interrupt, Send, Goto, Stopping, PidInv, TypeOK
      <4>2. CASE Join(c)
        BY <4>2 DEF Join, Goto, Stopping, Exiting, PidInv, TypeOK
      <4>3. CASE Joined(c)
        BY <4>3 DEF Joined, Goto, Stopping, Exiting, PidInv, TypeOK
      <4>4. QED BY <2>3, <4>1, <4>2, <4>3
    <3>2. call'[c].home = call[c].home /\ call'[c].pid = call[c].pid
      BY <2>3 DEF Stops, Interrupt, Send, Join, Joined, PidInv, TypeOK, Call
    <3>3. QED BY <3>1, <3>2 DEF Own, Starting, Stopping, Exiting
  <2>4. CASE \E op \in {"async", "stop", "exit"}, p \in Pid : Enter(c, op, p)
    <3>1. PICK op \in {"async", "stop", "exit"} : \E p \in Pid : Enter(c, op, p)
      BY <2>4
    <3>2. PICK p \in Pid : Enter(c, op, p)
      BY <3>1
    <3>3. /\ call'[c] = [home |-> at[c], op |-> op, pid |-> p, para |-> Open(p), tid |-> NULL]
          /\ at[c] \in {"idle", "playing"}
          /\ at[c] = "idle" => op # "exit"
          /\ at[c] = "playing" => p = call[c].pid
          /\ at'[c] \in {"stop", "lastjoin"}
          /\ at'[c] = "lastjoin" => op = "exit"
      BY <3>2 DEF Enter, May, Goto, PidInv, TypeOK
    <3>4. QED BY <3>3 DEF Own, Starting, Stopping, Exiting
  <2>5. QED BY <2>1, <2>2, <2>3, <2>4 DEF Quiet
<1>4. QED BY <1>1, <1>2, <1>3 DEF Moves, Own

LEMMA LendStep ==
    ASSUME PidInv, PidInv', NEW o \in Client, Request(o)
    PROVE  \E p \in Pid : /\ Holder(p) = "free" /\ Holder(p)' = o
                          /\ \A q \in Pid : Holder(q) # o
                          /\ \A q \in Pid \ {p} : Holder(q)' = Holder(q)
<1>1. PICK p \in Pid : /\ Requested(p)
                       /\ pool' = pool \cup {p}
                       /\ call' = [call EXCEPT ![o] = [NoCall EXCEPT !.pid = p]]
  BY DEF Request
<1>2. p \notin pool
  BY <1>1 DEF Requested, FreeProbes
<1>3. at[o] = "idle" /\ at'[o] = "requested" /\ call'[o].pid = p /\ Moves(o)
  BY <1>1, OneMoves DEF Request, Goto, PidInv, TypeOK, NoCall, Start
<1>4. ~Own(o) /\ Own(o)' /\ \A d \in Client \ {o} : (Own(d)' <=> Own(d)) /\ call'[d] = call[d]
  BY <1>3 DEF Own, Moves, Starting, Stopping, Exiting
<1>5. Holder(p) = "free" /\ \A q \in Pid : Holder(q) # o
  BY <1>2, <1>4, HolderIs
<1>6. Holder(p)' = o
  <2>1. Holds(o, p)'
    BY <1>3, <1>4 DEF Holds, Own
  <2>2. \A d \in Client : Holds(d, p)' => d = o
    BY <1>3, <1>4 DEF Holds, Own, PidInv, Owners
  <2>3. QED BY <1>1, <2>1, <2>2 DEF Holder
<1>7. \A q \in Pid \ {p} : Holder(q)' = Holder(q)
  <2> SUFFICES ASSUME NEW q \in Pid \ {p} PROVE Holder(q)' = Holder(q)
    OBVIOUS
  <2>1. \A c \in Client : Holds(c, q)' <=> Holds(c, q)
    BY <1>3, <1>4 DEF Holds, Own, Moves
  <2>2. (\E c \in Client : Holds(c, q)') <=> (\E c \in Client : Holds(c, q))
    BY <2>1
  <2>3. (CHOOSE c \in Client : Holds(c, q)') = (CHOOSE c \in Client : Holds(c, q))
    BY <2>1
  <2>4. QED BY <1>1, <2>2, <2>3 DEF Holder
<1>8. QED BY <1>5, <1>6, <1>7

LEMMA GiveUpStep ==
    ASSUME PidInv, NEW o \in Client, OutOfMemory(o) \/ Release(o)
    PROVE  \E p \in Pid : /\ Holder(p) = o
                          /\ Holder(p)' \in {"free", "lost"}
                          /\ \A q \in Pid \ {p} : Holder(q)' = Holder(q)
<1>0. PICK p \in Pid : p = call[o].pid
  BY DEF PidInv, TypeOK, Call
<1>1. /\ at[o] \in {"requested", "freed"} /\ at'[o] = "idle"
      /\ pool \ {p} = pool' \ {p}
      /\ Moves(o)
  BY <1>0, OneMoves DEF OutOfMemory, Release, Goto, PidInv, TypeOK, Call, Start
<1>2. Own(o) /\ ~Own(o)' /\ \A d \in Client \ {o} : (Own(d)' <=> Own(d)) /\ call'[d] = call[d]
  BY <1>1 DEF Own, Moves, Starting, Stopping, Exiting
<1>3. Holder(p) = o
  BY <1>0, <1>2, HolderIs
<1>4. Holder(p)' \in {"free", "lost"}
  <2>1. \A d \in Client : ~Holds(d, p)'
    BY <1>0, <1>2 DEF Holds, Own, PidInv, Owners
  <2>2. QED BY <2>1 DEF Holder
<1>5. \A q \in Pid \ {p} : Holder(q)' = Holder(q)
  <2> SUFFICES ASSUME NEW q \in Pid \ {p} PROVE Holder(q)' = Holder(q)
    OBVIOUS
  <2>1. \A c \in Client : Holds(c, q)' <=> Holds(c, q)
    BY <1>0, <1>1, <1>2 DEF Holds, Own, Moves
  <2>2. (\E c \in Client : Holds(c, q)') <=> (\E c \in Client : Holds(c, q))
    BY <2>1
  <2>3. (CHOOSE c \in Client : Holds(c, q)') = (CHOOSE c \in Client : Holds(c, q))
    BY <2>1
  <2>4. QED BY <1>1, <2>2, <2>3 DEF Holder
<1>6. QED BY <1>3, <1>4, <1>5

\* What the lease calls holder.
HolderFn == [p \in Pid |-> Holder(p)]

LEMMA LeaseStep == PidInv /\ PidInv' /\ [Next]_vars => [Lease!LeaseNext]_HolderFn
<1> SUFFICES ASSUME PidInv, PidInv', [Next]_vars PROVE [Lease!LeaseNext]_HolderFn
  OBVIOUS
<1>1. CASE \E o \in Client : Request(o)
  <2>1. PICK o \in Client : Request(o)
    BY <1>1
  <2>2. PICK p \in Pid : /\ Holder(p) = "free" /\ Holder(p)' = o
                         /\ \A q \in Pid : Holder(q) # o
                         /\ \A q \in Pid \ {p} : Holder(q)' = Holder(q)
    BY <2>1, LendStep
  <2>3. HolderFn' = [HolderFn EXCEPT ![p] = o]
    <3>1. \A q \in Pid : Holder(q)' = IF q = p THEN o ELSE Holder(q)
      BY <2>2
    <3>2. QED BY <3>1 DEF HolderFn
  <2>4. Lease!Lend(o, p)
    BY <2>2, <2>3 DEF Lease!Lend, HolderFn, Holder
  <2>5. QED BY <2>4 DEF Lease!LeaseNext
<1>2. CASE \E o \in Client : OutOfMemory(o) \/ Release(o)
  <2>1. PICK o \in Client : OutOfMemory(o) \/ Release(o)
    BY <1>2
  <2>2. PICK p \in Pid : /\ Holder(p) = o
                         /\ Holder(p)' \in {"free", "lost"}
                         /\ \A q \in Pid \ {p} : Holder(q)' = Holder(q)
    BY <2>1, GiveUpStep
  <2>3. HolderFn' = [HolderFn EXCEPT ![p] = "free"] \/ HolderFn' = [HolderFn EXCEPT ![p] = "lost"]
    <3>1. CASE Holder(p)' = "free"
      BY <2>2, <3>1 DEF HolderFn
    <3>2. CASE Holder(p)' = "lost"
      BY <2>2, <3>2 DEF HolderFn
    <3>3. QED BY <2>2, <3>1, <3>2
  <2>4. Lease!Return(o, p) \/ Lease!Lose(o, p)
    BY <2>2, <2>3 DEF Lease!Return, Lease!Lose, HolderFn, Holder
  <2>5. QED BY <2>4 DEF Lease!LeaseNext
<1>3. CASE /\ pool' = pool
           /\ \A d \in Client : (Own(d)' <=> Own(d)) /\ (Own(d) => call'[d].pid = call[d].pid)
  BY <1>3, HolderKept DEF HolderFn
<1>4. CASE UNCHANGED vars \/ \E t \in Thread : PlayerStep(t)
  <2>1. UNCHANGED <<pool, at, call>>
    BY <1>4 DEF vars, PlayerStep, TakeStop, MateWindow, Ending, Ended
  <2>2. QED BY <2>1, <1>3 DEF Own
<1>5. QED BY <1>1, <1>2, <1>3, <1>4, Steps, OwnKept

LEMMA LeaseInitial == Init => Lease!LeaseInit
  BY DEF Init, Holder, Lease!LeaseInit

\* Everybody who starts players is lent a pid that nobody else has, for every number of
\* clients and pids.
THEOREM PlayersImplementLease == Spec => ImplementsLease
<1>1. PidInv /\ PidInv' /\ [Next]_vars => [Lease!LeaseNext]_[p \in Pid |-> Holder(p)]
  BY LeaseStep DEF HolderFn
<1>2. QED BY <1>1, LeaseInitial, PidInductive, PTL DEF Spec, ImplementsLease, Lease!LeaseSpec

-----------------------------------------------------------------------------
(* The threads. *)

\* An owner has one thread, and only an owner has.
LEMMA RunsOnce ==
    ASSUME NEW c \in Client, NEW t, NEW u, Runs(c, t), Runs(c, u)
    PROVE  t = u /\ Leads(c)
  BY DEF Runs, Leads, Own, Starting

LEMMA LeadsTo ==
    ASSUME PidInv
    PROVE  \A c \in Client : Leads(c) => Mine(c) \in Address /\ call[c].pid \in Pid
  BY DEF PidInv, Parameters, Leads, Mine, TypeOK, Call

\* player_start and the end of player_exit leave the others' parameters alone.
LEMMA Others ==
    ASSUME PidInv, NEW c \in Client, Start(c) \/ Exit(c)
    PROVE  /\ Moves(c)
           /\ \A d \in Client \ {c} : Leads(d) =>
                 /\ Mine(d)' = Mine(d)
                 /\ para'[Mine(d)].pthread_id = para[Mine(d)].pthread_id
                 /\ para'[Mine(d)].stop = para[Mine(d)].stop
<1>1. Moves(c)
  BY OneMoves DEF Stop, PidInv
<1> SUFFICES ASSUME NEW d \in Client \ {c}, Leads(d)
             PROVE  /\ Mine(d)' = Mine(d)
                    /\ para'[Mine(d)].pthread_id = para[Mine(d)].pthread_id
                    /\ para'[Mine(d)].stop = para[Mine(d)].stop
  BY <1>1
<1>2. /\ Own(d) /\ call'[d] = call[d] /\ call[d].pid \in pool
      /\ Mine(d) \in Address /\ para[Mine(d)].live
  BY <1>1, LeadsTo DEF Leads, Moves, PidInv, Owners, Parameters
<1>3. CASE Request(c)
  <2>1. PICK p \in Pid : Requested(p) /\ data' = [data EXCEPT ![p] = NULL]
    BY <1>3 DEF Request
  <2>2. p \notin pool /\ para' = para
    BY <1>3, <2>1 DEF Requested, FreeProbes, Request
  <2>3. QED BY <1>2, <2>1, <2>2 DEF Mine, PidInv, TypeOK
<1>4. CASE OutOfMemory(c)
  BY <1>2, <1>4 DEF Mine, OutOfMemory
<1>5. CASE Release(c) \/ Allocate(c)
  <2>1. Own(c)
    BY <1>5 DEF Release, Allocate, Own, Starting
  <2>2. call[d].pid # call[c].pid
    BY <1>2, <2>1 DEF PidInv, Owners
  <2>3. Mine(d)' = Mine(d)
    BY <1>2, <1>5, <2>2 DEF Mine, Release, Allocate, PidInv, TypeOK
  <2>4. para'[Mine(d)] = para[Mine(d)]
    BY <1>2, <1>5 DEF Release, Allocate, PidInv, TypeOK
  <2>5. QED BY <2>3, <2>4
<1>6. CASE Create(c) \/ Started(c) \/ StartFailed(c) \/ Exit(c)
  <2>1. Leads(c) /\ at[c] # "playing" /\ data' = data
    BY <1>6 DEF Create, Started, StartFailed, Exit, Leads, Own, Starting, Exiting
  <2>2. call[c].para = Mine(c) /\ Mine(c) \in Address /\ Mine(c) # Mine(d)
    BY <2>1, OwnInHand DEF PidInv, Parameters
  <2>3. para'[Mine(d)] = para[Mine(d)]
    BY <1>2, <1>6, <2>2 DEF Create, Started, StartFailed, Exit, PidInv, TypeOK
  <2>4. Mine(d)' = Mine(d)
    BY <1>2, <2>1 DEF Mine
  <2>5. QED BY <2>3, <2>4
<1>7. QED BY <1>3, <1>4, <1>5, <1>6 DEF Start

\* A step of one client keeps Threads when it leaves the others' parameters alone and keeps
\* the parts of Threads that speak of this client.
LEMMA ThreadsFrame ==
    ASSUME Threads, NEW c \in Client, Moves(c),
           \A d \in Client \ {c} : Leads(d) =>
              Mine(d)' = Mine(d) /\ para'[Mine(d)].pthread_id = para[Mine(d)].pthread_id,
           \A t \in Thread : /\ thread[t].is # "none" => thread'[t].is # "none"
                             /\ thread[t].is = "joined" => thread'[t].is = "joined",
           \A t \in Thread : thread'[t].is \in {"running", "asked", "leaving"} =>
              \/ Runs(c, t)' /\ Mine(c)' = thread'[t].para
              \/ /\ thread[t].is \in {"running", "asked", "leaving"}
                 /\ thread'[t].para = thread[t].para
                 /\ ~Runs(c, t),
           at'[c] \in {"published", "created", "failed"} => para'[Mine(c)'].pthread_id = NULL,
           Leads(c)' /\ at'[c] \notin {"published", "failed"}
              => \E t \in Thread : Runs(c, t)' /\ thread'[t].is # "none",
           \A d \in Client \ {c}, t \in Thread : Runs(c, t)' => ~Runs(d, t),
           at'[c] \in Stopping /\ call'[c].home # "playing"
              => at'[c] \in {"stop", "clear", "send"} /\ call'[c].op = "async",
           at'[c] \in {"joining", "lastjoining"} => (call[c].tid \in Thread /\ Runs(c, call[c].tid))',
           \A t \in Thread : at'[c] \in {"uninterrupt", "lastuninterrupt"} /\ Runs(c, t)' => thread'[t].is = "joined"
    PROVE  Threads'
<1>1. \A d \in Client \ {c} : /\ at'[d] = at[d] /\ call'[d] = call[d]
                              /\ Leads(d)' <=> Leads(d)
  BY DEF Moves, Leads, Own
<1>2. \A d \in Client \ {c} : \A t : Runs(d, t)' <=> Runs(d, t)
  BY <1>1 DEF Runs
<1>3. \A d \in Client : at'[d] \in {"published", "created", "failed"}
                            => para'[Mine(d)'].pthread_id = NULL
  <2>1. \A d \in Client : at[d] \in {"published", "created", "failed"} => Leads(d)
    BY DEF Leads, Own, Starting
  <2>2. QED BY <1>1, <2>1 DEF Threads
<1>4. \A d \in Client : Leads(d)' /\ at'[d] \notin {"published", "failed"}
                            => \E t \in Thread : Runs(d, t)' /\ thread'[t].is # "none"
  <2> SUFFICES ASSUME NEW d \in Client \ {c}, Leads(d)', at'[d] \notin {"published", "failed"}
               PROVE  \E t \in Thread : Runs(d, t)' /\ thread'[t].is # "none"
    OBVIOUS
  <2>1. PICK t \in Thread : Runs(d, t) /\ thread[t].is # "none"
    BY <1>1 DEF Threads
  <2>2. QED BY <1>2, <2>1
<1>5. \A d, e \in Client, t \in Thread : Runs(d, t)' /\ Runs(e, t)' => d = e
  BY <1>2 DEF Threads
<1>6. \A d \in Client : at'[d] \in Stopping /\ call'[d].home # "playing"
                            => at'[d] \in {"stop", "clear", "send"} /\ call'[d].op = "async"
  BY <1>1 DEF Threads
<1>7. \A d \in Client : at'[d] \in {"joining", "lastjoining"}
                            => (call[d].tid \in Thread /\ Runs(d, call[d].tid))'
  <2> SUFFICES ASSUME NEW d \in Client \ {c}, at'[d] \in {"joining", "lastjoining"}
               PROVE  (call[d].tid \in Thread /\ Runs(d, call[d].tid))'
    OBVIOUS
  <2>1. call[d].tid \in Thread /\ Runs(d, call[d].tid) /\ call'[d] = call[d]
    BY <1>1 DEF Threads
  <2>2. PICK t \in Thread : t = call[d].tid
    BY <2>1
  <2>3. Runs(d, t)'
    BY <1>2, <2>1, <2>2
  <2>4. call'[d].tid = t
    BY <2>1, <2>2
  <2>5. QED BY <2>3, <2>4 DEF Runs
<1>8. \A d \in Client, t \in Thread : at'[d] \in {"uninterrupt", "lastuninterrupt"} /\ Runs(d, t)' => thread'[t].is = "joined"
  BY <1>1, <1>2 DEF Threads
<1>9. \A t \in Thread : thread'[t].is \in {"running", "asked", "leaving"} =>
          \E d \in Client : Runs(d, t)' /\ Mine(d)' = thread'[t].para
  <2> SUFFICES ASSUME NEW t \in Thread,
                      thread[t].is \in {"running", "asked", "leaving"},
                      thread'[t].para = thread[t].para,
                      ~Runs(c, t)
               PROVE  \E d \in Client : Runs(d, t)' /\ Mine(d)' = thread'[t].para
    OBVIOUS
  <2>1. PICK d \in Client : Runs(d, t) /\ Mine(d) = thread[t].para
    BY DEF Threads
  <2>2. Leads(d) /\ d # c
    BY <2>1, RunsOnce
  <2>3. QED BY <1>2, <2>1, <2>2
<1>10. QED BY <1>3, <1>4, <1>5, <1>6, <1>7, <1>8, <1>9 DEF Threads

\* The steps in which the client stays an owner of a started player, or is none.
LEMMA ThreadsStay ==
    ASSUME ThreadInv, Threads, NEW c \in Client, Moves(c),
           \A d \in Client \ {c} : Leads(d) => Mine(d)' = Mine(d),
           \A a \in Address : para'[a].pthread_id = para[a].pthread_id,
           \/ /\ Leads(c) /\ Leads(c)' /\ Mine(c)' = Mine(c)
              /\ at[c] \notin {"published", "created", "failed"}
              /\ at'[c] \notin {"published", "created", "failed"}
           \/ ~Leads(c) /\ ~Leads(c)',
           \A t \in Thread : /\ thread[t].is # "none" => thread'[t].is # "none"
                             /\ thread[t].is = "joined" => thread'[t].is = "joined"
                             /\ thread'[t].is \in {"running", "asked", "leaving"} =>
                                   /\ thread[t].is \in {"running", "asked", "leaving"}
                                   /\ thread'[t].para = thread[t].para,
           at'[c] \in Stopping /\ call'[c].home # "playing"
              => at'[c] \in {"stop", "clear", "send"} /\ call'[c].op = "async",
           at'[c] \in {"joining", "lastjoining"} => (call[c].tid \in Thread /\ Runs(c, call[c].tid))',
           \A t \in Thread : at'[c] \in {"uninterrupt", "lastuninterrupt"} /\ Runs(c, t) => thread'[t].is = "joined"
    PROVE  Threads'
<1>1. \A d \in Client : Leads(d) => Mine(d) \in Address
  BY LeadsTo DEF ThreadInv
<1>2. \A t \in Thread : Runs(c, t)' <=> Runs(c, t)
  <2>1. CASE ~Leads(c) /\ ~Leads(c)'
    BY <2>1 DEF Runs, Leads, Own, Starting
  <2>2. CASE Leads(c) /\ Leads(c)'
    BY <1>1, <2>2 DEF Runs
  <2>3. QED BY <2>1, <2>2
<1>3. at'[c] \notin {"published", "created", "failed"}
  BY DEF Leads, Own, Starting
<1>4. Leads(c)' => \E t \in Thread : Runs(c, t)' /\ thread'[t].is # "none"
  <2> SUFFICES ASSUME Leads(c)' PROVE \E t \in Thread : Runs(c, t)' /\ thread'[t].is # "none"
    OBVIOUS
  <2>1. PICK t \in Thread : Runs(c, t) /\ thread[t].is # "none"
    BY DEF Threads
  <2>2. QED BY <1>2, <2>1
<1>5. \A t \in Thread : thread'[t].is \in {"running", "asked", "leaving"} /\ Runs(c, t)
                            => Runs(c, t)' /\ Mine(c)' = thread'[t].para
  <2> SUFFICES ASSUME NEW t \in Thread, thread'[t].is \in {"running", "asked", "leaving"}, Runs(c, t)
               PROVE  Runs(c, t)' /\ Mine(c)' = thread'[t].para
    OBVIOUS
  <2>1. PICK d \in Client : Runs(d, t) /\ Mine(d) = thread[t].para
    BY DEF Threads
  <2>2. d = c
    BY <2>1 DEF Threads
  <2>3. Leads(c)
    BY RunsOnce
  <2>4. QED BY <1>2, <2>1, <2>2, <2>3
<1>6. \A d \in Client \ {c}, t \in Thread : Runs(c, t)' => ~Runs(d, t)
  BY <1>2 DEF Threads
<1>7. QED BY <1>1, <1>2, <1>3, <1>4, <1>5, <1>6, ThreadsFrame

\* The steps of a call: the client stays an owner of a started player, or is none.
InCall(c) == \/ NoStop(c) \/ Stops(c) \/ Interrupt(c) \/ Send(c) \/ Join(c) \/ Joined(c) \/ Uninterrupt(c)
             \/ \E op \in {"async", "stop", "exit"}, p \in Pid : Enter(c, op, p)

LEMMA InCallLeads ==
    ASSUME PidInv, NEW c \in Client, InCall(c)
    PROVE  /\ Moves(c)
           /\ \A d \in Client : Leads(d) => Mine(d)' = Mine(d)
           /\ Leads(c) <=> Leads(c)'
           /\ {at[c], at'[c]} \cap {"published", "created", "failed"} = {}
<1>1. pool' = pool /\ \A d \in Client : (Own(d)' <=> Own(d)) /\ (Own(d) => call'[d].pid = call[d].pid)
  BY OwnKept DEF InCall, Quiet
<1>2. data' = data
  BY DEF InCall, NoStop, Stops, Interrupt, Send, Join, Joined, Uninterrupt, Enter
<1>3. Moves(c)
  <2>1. CASE NoStop(c) \/ Stops(c) \/ Interrupt(c) \/ Send(c) \/ Join(c) \/ Joined(c) \/ Uninterrupt(c)
    BY <2>1, OneMoves DEF Stop, PidInv
  <2>2. CASE \E op \in {"async", "stop", "exit"}, p \in Pid : Enter(c, op, p)
    BY <2>2 DEF Enter, Goto, Moves, PidInv, TypeOK
  <2>3. QED BY <2>1, <2>2 DEF InCall
<1>4. {at[c], at'[c]} \subseteq {"idle", "playing"} \cup Stopping \cup Exiting
  <2>1. CASE \E op \in {"async", "stop", "exit"}, p \in Pid : Enter(c, op, p)
    BY <2>1 DEF Enter, May, Goto, Stopping, Exiting, PidInv, TypeOK
  <2>2. CASE NoStop(c) \/ Uninterrupt(c) \/ (Send(c) /\ call[c].op = "async")
    <3>1. at[c] \in Stopping /\ Return(c)
      BY <2>2 DEF NoStop, Uninterrupt, Send, Stopping
    <3>2. at'[c] \in {"idle", "playing", "lastjoin"}
      BY <3>1, ReturnRoles
    <3>3. QED BY <3>1, <3>2 DEF Exiting
  <2>3. CASE Stops(c) \/ Interrupt(c) \/ (Send(c) /\ call[c].op # "async")
    BY <2>3 DEF Stops, Interrupt, Send, Goto, Stopping, PidInv, TypeOK
  <2>4. CASE Join(c) \/ Joined(c)
    BY <2>4 DEF Join, Joined, Goto, Stopping, Exiting, PidInv, TypeOK
  <2>5. QED BY <2>1, <2>2, <2>3, <2>4 DEF InCall
<1>5. (Leads(c) <=> Own(c)) /\ (Leads(c)' <=> Own(c)')
  BY <1>4 DEF Leads, Own, Stopping, Exiting
<1>6. \A d \in Client : Leads(d) => Mine(d)' = Mine(d)
  BY <1>1, <1>2 DEF Leads, Mine
<1>7. {at[c], at'[c]} \cap {"published", "created", "failed"} = {}
  BY <1>4 DEF Stopping, Exiting
<1>8. QED BY <1>1, <1>3, <1>5, <1>6, <1>7

\* Of the parameters a call changes the stop only.
LEMMA InCallPara ==
    ASSUME PidInv, NEW c \in Client, InCall(c)
    PROVE  \A a \in Address : para'[a].pthread_id = para[a].pthread_id /\ para'[a].exited = para[a].exited
<1>1. CASE Interrupt(c) \/ Send(c) \/ Uninterrupt(c)
  BY <1>1 DEF Interrupt, Send, Uninterrupt, PidInv, TypeOK, Para
<1>2. CASE ~(Interrupt(c) \/ Send(c) \/ Uninterrupt(c))
  BY <1>2 DEF InCall, NoStop, Stops, Join, Joined, Enter
<1>3. QED BY <1>1, <1>2

LEMMA InCallThread ==
    ASSUME PidInv, NEW c \in Client, InCall(c)
    PROVE  /\ \A a \in Address : para'[a].pthread_id = para[a].pthread_id
           /\ \A t \in Thread : /\ thread[t].is # "none" => thread'[t].is # "none"
                                /\ thread[t].is = "joined" => thread'[t].is = "joined"
                                /\ thread'[t].is \in {"running", "asked", "leaving"} => thread'[t] = thread[t]
<1>1. \A a \in Address : para'[a].pthread_id = para[a].pthread_id
  BY InCallPara
<1>2. CASE Joined(c)
  BY <1>1, <1>2 DEF Joined, PidInv, TypeOK
<1>3. CASE ~Joined(c)
  <2>1. thread' = thread
    BY <1>3 DEF InCall, NoStop, Stops, Interrupt, Send, Join, Uninterrupt, Enter
  <2>2. QED BY <1>1, <2>1
<1>4. QED BY <1>2, <1>3

\* An owner joins its own thread, and it goes on when that is gone.
LEMMA JoinsOwn ==
    ASSUME ThreadInv, Threads, NEW c \in Client, Join(c)
    PROVE  /\ at'[c] \in {"joining", "lastjoining"} => (call[c].tid \in Thread /\ Runs(c, call[c].tid))'
           /\ \A t \in Thread : at'[c] \in {"uninterrupt", "lastuninterrupt"} /\ Runs(c, t) => thread'[t].is = "joined"
<1> DEFINE j == para[call[c].para].pthread_id
<1>1. Leads(c) /\ at[c] \in {"join", "lastjoin"}
  BY DEF Join, Threads, Leads, Own, Stopping, Exiting
<1>2. call[c].para = Mine(c) /\ Mine(c) \in Address
  BY <1>1, OwnInHand DEF ThreadInv
<1>3. PICK t \in Thread : Runs(c, t)
  BY <1>1 DEF Threads
<1>4. j = t /\ t # NULL
  BY <1>1, <1>2, <1>3, PlayersAssumption DEF Runs
<1>5. CASE NoJoin(c, j)
  <2>1. thread[t].is = "joined"
    <3>1. \A d \in Client \ {c} : at[d] \in {"joining", "lastjoining"} => call[d].tid # t
      BY <1>3 DEF Threads
    <3>2. QED BY <1>4, <1>5, <3>1 DEF NoJoin
  <2>2. at'[c] \notin {"joining", "lastjoining"} /\ thread' = thread
    BY <1>5 DEF Join, Goto, ThreadInv, PidInv, TypeOK
  <2>3. QED BY <1>3, <2>1, <2>2, RunsOnce
<1>6. CASE ~NoJoin(c, j)
  <2>1. /\ at'[c] \in {"joining", "lastjoining"} /\ call'[c].tid = t
        /\ call'[c].pid = call[c].pid /\ call'[c].home = call[c].home
    BY <1>4, <1>6 DEF Join, Goto, ThreadInv, PidInv, TypeOK, Call
  <2>2. Leads(c)' /\ Mine(c)' = Mine(c) /\ para' = para
    <3>1. para' = para
      BY DEF Join
    <3>2. QED BY <1>1, <3>1, InCallLeads DEF InCall, ThreadInv
  <2>3. Runs(c, t)'
    BY <1>2, <1>4, <2>1, <2>2 DEF Runs
  <2>4. QED BY <2>1, <2>3 DEF Runs
<1>7. QED BY <1>5, <1>6

LEMMA InCallThreads ==
    ASSUME ThreadInv, Threads, Alone, NEW c \in Client, InCall(c)
    PROVE  Threads'
<1>1. /\ Moves(c)
      /\ \A d \in Client : Leads(d) => Mine(d)' = Mine(d)
      /\ Leads(c) <=> Leads(c)'
      /\ at[c] \notin {"published", "created", "failed"}
      /\ at'[c] \notin {"published", "created", "failed"}
  BY InCallLeads DEF ThreadInv
<1>2. /\ \A a \in Address : para'[a].pthread_id = para[a].pthread_id
      /\ \A t \in Thread : /\ thread[t].is # "none" => thread'[t].is # "none"
                           /\ thread[t].is = "joined" => thread'[t].is = "joined"
                           /\ thread'[t].is \in {"running", "asked", "leaving"} => thread'[t] = thread[t]
  BY InCallThread DEF ThreadInv
<1>3. ASSUME /\ at'[c] \in Stopping /\ call'[c].home # "playing"
                   => at'[c] \in {"stop", "clear", "send"} /\ call'[c].op = "async"
             /\ at'[c] \in {"joining", "lastjoining"} => (call[c].tid \in Thread /\ Runs(c, call[c].tid))'
             /\ \A t \in Thread : at'[c] \in {"uninterrupt", "lastuninterrupt"} /\ Runs(c, t) => thread'[t].is = "joined"
      PROVE  Threads'
  BY <1>1, <1>2, <1>3, ThreadsStay
<1>4. CASE NoStop(c) \/ Uninterrupt(c) \/ (Send(c) /\ call[c].op = "async")
  <2>1. at[c] \in Stopping /\ Return(c)
    BY <1>4 DEF NoStop, Uninterrupt, Send, Stopping
  <2>2. at'[c] \in {"idle", "playing", "lastjoin"}
    BY <2>1, ReturnRoles DEF ThreadInv
  <2>3. QED BY <1>3, <2>2 DEF Stopping
<1>5. CASE Stops(c) \/ Interrupt(c) \/ (Send(c) /\ call[c].op # "async")
  <2>1. /\ at[c] \in {"stop", "clear", "send"} /\ at'[c] \in {"clear", "send", "join"} /\ call'[c] = call[c]
        /\ at'[c] = "join" => at[c] = "send" /\ call[c].op # "async"
    BY <1>5 DEF Stops, Interrupt, Send, Goto, ThreadInv, PidInv, TypeOK
  <2>2. call[c].home # "playing" => call[c].op = "async"
    BY <2>1 DEF Threads, Stopping
  <2>3. QED BY <1>3, <2>1, <2>2
<1>6. CASE Join(c)
  <2>1. at'[c] \in Stopping /\ call'[c].home # "playing" => at'[c] \in {"stop", "clear", "send"} /\ call'[c].op = "async"
    <3>1. at'[c] \in Stopping => at[c] = "join"
      BY <1>6 DEF Join, Goto, Stopping, ThreadInv, PidInv, TypeOK
    <3>2. call'[c].home = call[c].home
      BY <1>6 DEF Join, ThreadInv, PidInv, TypeOK, Call
    <3>3. QED BY <3>1, <3>2 DEF Threads, Stopping
  <2>2. QED BY <1>3, <1>6, <2>1, JoinsOwn
<1>7. CASE Joined(c)
  <2>1. /\ at[c] \in {"joining", "lastjoining"}
        /\ at'[c] = IF at[c] = "joining" THEN "uninterrupt" ELSE "lastuninterrupt"
        /\ call'[c].home = call[c].home
        /\ thread' = [thread EXCEPT ![call[c].tid] = [is |-> "joined", para |-> NULL]]
    BY <1>7 DEF Joined, Goto, ThreadInv, PidInv, TypeOK, Call
  <2>2. at'[c] \in Stopping => call'[c].home = "playing"
    BY <2>1 DEF Threads, Stopping
  <2>3. \A t \in Thread : Runs(c, t) => thread'[t].is = "joined"
    <3>1. call[c].tid \in Thread /\ Runs(c, call[c].tid)
      BY <2>1 DEF Threads
    <3>2. thread'[call[c].tid].is = "joined"
      BY <2>1, <3>1 DEF ThreadInv, PidInv, TypeOK
    <3>3. QED BY <3>1, <3>2, RunsOnce
  <2>4. QED BY <1>3, <2>1, <2>2, <2>3
<1>8. CASE \E op \in {"async", "stop", "exit"}, p \in Pid : Enter(c, op, p)
  <2>1. PICK op \in {"async", "stop", "exit"} : \E p \in Pid : Enter(c, op, p)
    BY <1>8
  <2>2. PICK p \in Pid : Enter(c, op, p)
    BY <2>1
  <2>3. /\ call'[c].home = at[c] /\ call'[c].op = op
        /\ at[c] \in {"idle", "playing"}
        /\ at[c] = "idle" => op = "async"
        /\ at'[c] \in {"stop", "lastjoin"}
    BY <2>2 DEF Enter, May, Goto, Alone, ThreadInv, PidInv, TypeOK
  <2>4. at'[c] \in Stopping /\ call'[c].home # "playing" => at'[c] \in {"stop", "clear", "send"} /\ call'[c].op = "async"
    BY <2>3 DEF Stopping
  <2>5. QED BY <1>3, <2>3, <2>4
<1>9. QED BY <1>4, <1>5, <1>6, <1>7, <1>8 DEF InCall

LEMMA TableThreads ==
    ASSUME ThreadInv, Threads, NEW o \in Client, Request(o) \/ OutOfMemory(o) \/ Release(o)
    PROVE  Threads'
<1>1. /\ Moves(o) /\ para' = para /\ thread' = thread
      /\ at[o] \in {"idle", "requested", "freed"} /\ at'[o] \in {"idle", "requested"}
  BY OneMoves DEF Request, OutOfMemory, Release, Goto, Start, ThreadInv, PidInv, TypeOK
<1>2. ~Leads(o) /\ ~Leads(o)'
  BY <1>1 DEF Leads, Own, Starting, Stopping, Exiting
<1>3. \A d \in Client \ {o} : Leads(d) => Mine(d)' = Mine(d)
  BY Others DEF Start, ThreadInv
<1>4. at'[o] \notin Stopping /\ at'[o] \notin {"joining", "lastjoining", "uninterrupt", "lastuninterrupt"}
  BY <1>1 DEF Stopping
<1>5. QED BY <1>1, <1>2, <1>3, <1>4, ThreadsStay

\* A new player has no thread yet, and its address is no other owner's.
LEMMA AllocateThreads ==
    ASSUME ThreadInv, Threads, NEW o \in Client, Allocate(o)
    PROVE  Threads'
<1>1. PICK a \in Address :
          /\ ~para[a].live
          /\ para' = [para EXCEPT ![a] = NewPara]
          /\ data' = [data EXCEPT ![call[o].pid] = a]
          /\ call' = [call EXCEPT ![o].para = a]
  BY DEF Allocate
<1>2. /\ at[o] = "requested" /\ at'[o] = "published" /\ thread' = thread
      /\ call'[o].pid = call[o].pid /\ call[o].pid \in Pid
  BY <1>1 DEF Allocate, Goto, ThreadInv, PidInv, TypeOK, Call
<1>3. Moves(o)
  BY OneMoves DEF Start, ThreadInv, PidInv
<1>4. Mine(o)' = a /\ para'[a].pthread_id = NULL
  BY <1>1, <1>2 DEF Mine, NewPara, ThreadInv, PidInv, TypeOK
<1>5. \A t : ~Runs(o, t) /\ ~Runs(o, t)'
  BY <1>2 DEF Runs, Leads
<1>6. \A d \in Client \ {o} : Leads(d) =>
         Mine(d)' = Mine(d) /\ para'[Mine(d)].pthread_id = para[Mine(d)].pthread_id
  BY Others DEF Start, ThreadInv
<1>7. \A t \in Thread : thread'[t].is \in {"running", "asked", "leaving"} => 
         thread[t].is \in {"running", "asked", "leaving"} /\ thread'[t].para = thread[t].para /\ ~Runs(o, t)
  BY <1>2, <1>5
<1>8. QED BY <1>2, <1>3, <1>4, <1>5, <1>6, <1>7, ThreadsFrame DEF Stopping

\* Nobody but its creator runs a new thread.
LEMMA CreateThreads ==
    ASSUME ThreadInv, Threads, Alone, NEW o \in Client, Create(o)
    PROVE  Threads'
<1>1. /\ Moves(o) /\ data' = data
      /\ at[o] = "published" /\ at'[o] \in {"created", "failed"}
      /\ call'[o].pid = call[o].pid
  <2>1. Moves(o)
    BY OneMoves DEF Start, ThreadInv, PidInv
  <2>2. QED BY <2>1 DEF Create, Goto, ThreadInv, PidInv, TypeOK, Call
<1>2. Leads(o) /\ \A t : ~Runs(o, t)
  BY <1>1 DEF Leads, Own, Starting, Runs
<1>3. call[o].para = Mine(o) /\ Mine(o) \in Address /\ Mine(o)' = Mine(o)
  BY <1>1, <1>2, OwnInHand DEF ThreadInv, Mine
<1>4. \A a \in Address : para'[a].pthread_id = para[a].pthread_id
  BY <1>3 DEF Create, ThreadInv, PidInv, TypeOK, Para
<1>5. \A d \in Client \ {o} : Leads(d) =>
         Mine(d)' = Mine(d) /\ para'[Mine(d)].pthread_id = para[Mine(d)].pthread_id
  BY Others DEF Start, ThreadInv
<1>6. at'[o] \in {"published", "created", "failed"} => para'[Mine(o)'].pthread_id = NULL
  BY <1>1, <1>3, <1>4 DEF Threads
<1>7. at'[o] \notin Stopping \cup {"joining", "lastjoining", "uninterrupt", "lastuninterrupt"}
  BY <1>1 DEF Stopping
<1>8. CASE at'[o] = "failed" /\ thread' = thread
  <2>1. \A t : ~Runs(o, t)'
    BY <1>8 DEF Runs
  <2>2. QED BY <1>1, <1>2, <1>5, <1>6, <1>7, <1>8, <2>1, ThreadsFrame
<1>9. CASE \E t \in Thread : /\ NewId(t)
                             /\ thread' = [thread EXCEPT ![t] = [is |-> "running", para |-> call[o].para]]
                             /\ call' = [call EXCEPT ![o].tid = t]
                             /\ Goto(o, "created")
  <2>1. PICK t \in Thread : /\ NewId(t)
                            /\ thread' = [thread EXCEPT ![t] = [is |-> "running", para |-> call[o].para]]
                            /\ call' = [call EXCEPT ![o].tid = t]
                            /\ Goto(o, "created")
    BY <1>9
  <2>2. thread[t].is = "none"
    BY <2>1 DEF NewId, Alone
  <2>3. at'[o] = "created" /\ call'[o].tid = t /\ thread'[t].is \in {"running", "asked"} /\ thread'[t].para = Mine(o)
    BY <1>3, <2>1 DEF Goto, ThreadInv, PidInv, TypeOK
  <2>4. \A u \in Thread \ {t} : thread'[u] = thread[u]
    BY <2>1 DEF ThreadInv, PidInv, TypeOK
  <2>5. \A u : Runs(o, u)' <=> u = t
    BY <2>3 DEF Runs
  <2>6. \A d \in Client \ {o} : ~Runs(d, t)
    <3> SUFFICES ASSUME NEW d \in Client \ {o}, Runs(d, t) PROVE FALSE
      OBVIOUS
    <3>1. Leads(d) /\ at[d] \notin {"published", "failed"}
      BY RunsOnce DEF Runs
    <3>2. PICK u \in Thread : Runs(d, u) /\ thread[u].is # "none"
      BY <3>1 DEF Threads
    <3>3. QED BY <2>2, <3>2, RunsOnce
  <2>7. \A u \in Thread : thread'[u].is \in {"running", "asked", "leaving"} =>
           \/ Runs(o, u)' /\ Mine(o)' = thread'[u].para
           \/ thread[u].is \in {"running", "asked", "leaving"} /\ thread'[u].para = thread[u].para /\ ~Runs(o, u)
    BY <1>2, <1>3, <2>3, <2>4, <2>5
  <2>8. \A u \in Thread : /\ thread[u].is # "none" => thread'[u].is # "none"
                          /\ thread[u].is = "joined" => thread'[u].is = "joined"
    BY <2>2, <2>3, <2>4
  <2>9. QED BY <1>1, <1>5, <1>6, <1>7, <2>3, <2>5, <2>6, <2>7, <2>8, ThreadsFrame
<1>10. QED BY <1>8, <1>9 DEF Create, Goto, ThreadInv, PidInv, TypeOK

\* The creator notes down the thread it has created.
LEMMA StartedThreads ==
    ASSUME ThreadInv, Threads, NEW o \in Client, Started(o)
    PROVE  Threads'
<1>1. Moves(o) /\ data' = data /\ thread' = thread
  BY OneMoves DEF Started, Start, ThreadInv, PidInv
<1>2. at[o] = "created" /\ at'[o] = "playing" /\ call'[o].pid = call[o].pid
  BY DEF Started, Goto, ThreadInv, PidInv, TypeOK, Call
<1>3. Leads(o) /\ Leads(o)' /\ Mine(o)' = Mine(o)
  BY <1>1, <1>2 DEF Leads, Own, Starting, Mine
<1>4. call[o].para = Mine(o) /\ Mine(o) \in Address
  BY <1>2, <1>3, OwnInHand DEF ThreadInv
<1>5. para' = [para EXCEPT ![Mine(o)] = [para[Mine(o)] EXCEPT !.pthread_id = call[o].tid]]
  BY <1>4 DEF Started, ThreadInv, PidInv, TypeOK
<1>6. para'[Mine(o)].pthread_id = call[o].tid
  BY <1>4, <1>5 DEF ThreadInv, PidInv, TypeOK, Para
<1>7. \A t : Runs(o, t)' <=> Runs(o, t)
  BY <1>2, <1>3, <1>6 DEF Runs
<1>8. \A d \in Client \ {o} : Leads(d) =>
         Mine(d)' = Mine(d) /\ para'[Mine(d)].pthread_id = para[Mine(d)].pthread_id
  BY Others DEF Start, ThreadInv
<1>9. \A t \in Thread : thread'[t].is \in {"running", "asked", "leaving"} =>
         \/ Runs(o, t)' /\ Mine(o)' = thread'[t].para
         \/ thread[t].is \in {"running", "asked", "leaving"} /\ thread'[t].para = thread[t].para /\ ~Runs(o, t)
  <2> SUFFICES ASSUME NEW t \in Thread, thread[t].is \in {"running", "asked", "leaving"}, Runs(o, t)
               PROVE  Mine(o) = thread[t].para
    BY <1>1, <1>3, <1>7
  <2>1. QED BY DEF Threads
<1>10. \E t \in Thread : Runs(o, t)' /\ thread'[t].is # "none"
  BY <1>1, <1>2, <1>3, <1>7 DEF Threads
<1>11. \A d \in Client \ {o}, t \in Thread : Runs(o, t)' => ~Runs(d, t)
  BY <1>7 DEF Threads
<1>12. at'[o] \notin Stopping
  BY <1>2 DEF Stopping
<1>13. QED BY <1>1, <1>2, <1>8, <1>9, <1>10, <1>11, <1>12, ThreadsFrame

\* A failed start frees parameters without a thread, player_exit those of a joined one.
LEMMA FreeThreads ==
    ASSUME ThreadInv, Threads, NEW o \in Client, StartFailed(o) \/ Exit(o)
    PROVE  Threads'
<1>1. Moves(o) /\ data' = data /\ thread' = thread /\ call' = call
  BY OneMoves DEF StartFailed, Exit, Start, Stop, ThreadInv, PidInv
<1>2. at[o] \in {"failed", "lastuninterrupt"} /\ at'[o] = "freed"
  BY DEF StartFailed, Exit, Goto, ThreadInv, PidInv, TypeOK
<1>3. \A d \in Client \ {o} : Leads(d) =>
         Mine(d)' = Mine(d) /\ para'[Mine(d)].pthread_id = para[Mine(d)].pthread_id
  BY Others DEF Start, ThreadInv
<1>4. \A t \in Thread : Runs(o, t) => thread[t].is = "joined"
  BY <1>2 DEF Threads, Runs
<1>5. \A t : ~Runs(o, t)' /\ ~Leads(o)'
  BY <1>2 DEF Runs, Leads
<1>6. \A t \in Thread : thread'[t].is \in {"running", "asked", "leaving"} =>
         thread[t].is \in {"running", "asked", "leaving"} /\ thread'[t].para = thread[t].para /\ ~Runs(o, t)
  BY <1>1, <1>4
<1>7. at'[o] \notin Stopping
  BY <1>2 DEF Stopping
<1>8. QED BY <1>1, <1>2, <1>3, <1>5, <1>6, <1>7, ThreadsFrame

LEMMA ThreadThreads ==
    ASSUME ThreadInv, Threads, NEW t \in Thread, PlayerStep(t)
    PROVE  Threads'
<1>1. UNCHANGED <<at, call, data>> /\ \A a \in Address : para'[a].pthread_id = para[a].pthread_id
  BY PlayerStepFrame DEF ThreadInv
<1>2. \A u \in Thread : /\ thread[u].is # "none" => thread'[u].is # "none"
                        /\ thread[u].is = "joined" => thread'[u].is = "joined"
                        /\ thread'[u].is \in {"running", "asked", "leaving"} =>
                              thread[u].is \in {"running", "asked", "leaving"} /\ thread'[u].para = thread[u].para
  BY PlayerStepFrame DEF ThreadInv
<1>3. \A c \in Client : Mine(c)' = Mine(c) /\ (Leads(c)' <=> Leads(c))
  BY <1>1 DEF Mine, Leads, Own
<1>4. \A c \in Client : \A u : Runs(c, u)' <=> Runs(c, u)
  BY <1>1, <1>3, LeadsTo DEF Runs, ThreadInv
<1>5. \A c \in Client : at[c] \in {"published", "created", "failed"} => Leads(c)
  BY DEF Leads, Own, Starting
<1>6. \A c \in Client : at'[c] \in {"published", "created", "failed"} => para'[Mine(c)'].pthread_id = NULL
  BY <1>1, <1>3, <1>5, LeadsTo DEF Threads, ThreadInv
<1>7. \A c \in Client : at'[c] \in {"joining", "lastjoining"}
                            => (call[c].tid \in Thread /\ Runs(c, call[c].tid))'
  <2> SUFFICES ASSUME NEW c \in Client, at'[c] \in {"joining", "lastjoining"}
               PROVE  (call[c].tid \in Thread /\ Runs(c, call[c].tid))'
    OBVIOUS
  <2>1. PICK u \in Thread : u = call[c].tid /\ Runs(c, u)
    BY <1>1 DEF Threads
  <2>2. Runs(c, u)' /\ call'[c].tid = u
    BY <1>1, <1>4, <2>1
  <2>3. QED BY <2>2 DEF Runs
<1>8. /\ \A c \in Client : Leads(c)' /\ at'[c] \notin {"published", "failed"}
                            => \E u \in Thread : Runs(c, u)' /\ thread'[u].is # "none"
      /\ \A c, d \in Client, u \in Thread : Runs(c, u)' /\ Runs(d, u)' => c = d
      /\ \A c \in Client : at'[c] \in Stopping /\ call'[c].home # "playing"
                            => at'[c] \in {"stop", "clear", "send"} /\ call'[c].op = "async"
      /\ \A c \in Client, u \in Thread : at'[c] \in {"uninterrupt", "lastuninterrupt"} /\ Runs(c, u)' => thread'[u].is = "joined"
      /\ \A u \in Thread : thread'[u].is \in {"running", "asked", "leaving"} =>
          \E c \in Client : Runs(c, u)' /\ Mine(c)' = thread'[u].para
  BY <1>1, <1>2, <1>3, <1>4 DEF Threads
<1>9. QED BY <1>6, <1>7, <1>8 DEF Threads

LEMMA ThreadStep == ThreadInv /\ [Next]_vars => ThreadInv'
<1> SUFFICES ASSUME ThreadInv, [Next]_vars PROVE ThreadInv'
  OBVIOUS
<1>1. PidInv'
  BY PidStep DEF ThreadInv
<1>2. ASSUME Alone PROVE Threads'
  <2>1. Threads
    BY <1>2 DEF ThreadInv
  <2>2. CASE Next
    <3>1. \A c \in Client : Quiet(c) => Create(c) \/ Started(c) \/ InCall(c)
      BY DEF Quiet, InCall
    <3>2. \A c \in Client, op \in {"async", "stop", "exit"}, p \in Pid : Enter(c, op, p) => InCall(c)
      BY DEF InCall
    <3>3. QED BY <1>2, <2>1, <2>2, <3>1, <3>2, Steps, InCallThreads, TableThreads, AllocateThreads,
                 CreateThreads, StartedThreads, FreeThreads, ThreadThreads
  <2>3. CASE UNCHANGED vars
    BY <2>1, <2>3 DEF vars, Threads, Runs, Leads, Own, Mine
  <2>4. QED BY <2>2, <2>3
<1>3. Alone' <=> Alone
  BY DEF Alone
<1>4. QED BY <1>1, <1>2, <1>3 DEF ThreadInv

LEMMA InitThreads == Init => ThreadInv
<1> SUFFICES ASSUME Init PROVE ThreadInv
  OBVIOUS
<1>1. \A c \in Client : at[c] = "idle" /\ ~Leads(c) /\ \A t : ~Runs(c, t)
  BY DEF Init, Runs, Leads, Own, Starting, Stopping, Exiting
<1>2. Threads
  BY <1>1 DEF Init, Threads, Stopping
<1>3. QED BY <1>2, InitPidInv DEF ThreadInv

\* When only its owner stops a player and no thread id comes back, the parameters of a
\* player outlive its thread, for every number of players.
THEOREM ExitSafe == ASSUME ~StopOthers, ~ReuseIds
                    PROVE  Spec => []ExitAfterThread
<1>1. ThreadInv => ExitAfterThread
  <2> SUFFICES ASSUME ThreadInv, NEW t \in Thread, thread[t].is \in {"running", "asked", "leaving"}
               PROVE  para[thread[t].para].live /\ para[thread[t].para].pthread_id \in {t, NULL}
    BY DEF ExitAfterThread, Playing
  <2>1. PICK c \in Client : Runs(c, t) /\ Mine(c) = thread[t].para
    BY DEF ThreadInv, Threads, Alone
  <2>2. Leads(c)
    BY <2>1, RunsOnce
  <2>3. para[Mine(c)].live
    BY <2>2 DEF ThreadInv, PidInv, Parameters
  <2>4. para[Mine(c)].pthread_id \in {t, NULL}
    BY <2>1 DEF Runs, ThreadInv, Threads, Alone
  <2>5. QED BY <2>1, <2>3, <2>4
<1>2. Spec => []ThreadInv
  BY InitThreads, ThreadStep, PTL DEF Spec
<1>3. QED BY <1>1, <1>2, PTL
-----------------------------------------------------------------------------
(* The waits for a thread. *)

\* A stop is in the pool of these parameters, or about to be sent there.
Sent(a) == para[a].stop \/ \E d \in Client : at[d] = "send" /\ call[d].para = a

\* An owner waits for a thread that plays on only if it was asked to end: with a stop sent, or
\* taken already.
Answered(c) == \A t \in Thread : Runs(c, t) /\ thread[t].is \in {"running", "asked"} =>
                  /\ at[c] \in {"join", "joining"} => thread[t].is = "asked" \/ Sent(Mine(c))
                  /\ at[c] \notin {"lastjoin", "lastjoining"}

\* exited is what player_stop and player_exit go by: a thread that plays has not set it.
NotExited == /\ \A t \in Thread : thread[t].is \in {"running", "asked"} => ~para[thread[t].para].exited
             /\ \A c \in Client : at[c] = "published" => ~para[Mine(c)].exited

Waits == (\A c \in Client : Answered(c)) /\ NotExited

WaitInv == ThreadInv /\ (Alone => Waits)

\* A thread works on the parameters of the client whose thread it is.
LEMMA RunsOnMine ==
    ASSUME Threads, NEW c \in Client, NEW t \in Thread, Runs(c, t),
           thread[t].is \in {"running", "asked", "leaving"}
    PROVE  thread[t].para = Mine(c)
  BY DEF Threads

LEMMA RunsUnexited ==
    ASSUME Threads, NotExited, NEW c \in Client, NEW t \in Thread, Runs(c, t),
           thread[t].is \in {"running", "asked"}
    PROVE  ~para[Mine(c)].exited
  BY RunsOnMine DEF NotExited

\* A step of one client leaves the others' waits alone when it leaves them their
\* parameters, their thread and their stop.
LEMMA WaitsFrame ==
    ASSUME PidInv, Waits, NEW c \in Client, Moves(c),
           \A d \in Client \ {c} : Leads(d) =>
              Mine(d)' = Mine(d) /\ para'[Mine(d)].pthread_id = para[Mine(d)].pthread_id,
           \A d \in Client \ {c}, t \in Thread : Runs(d, t) /\ thread'[t].is \in {"running", "asked"} =>
              thread'[t] = thread[t],
           \A d \in Client \ {c} : Leads(d) /\ Sent(Mine(d)) => Sent(Mine(d))',
           Answered(c)', NotExited'
    PROVE  Waits'
<1> SUFFICES ASSUME NEW d \in Client \ {c} PROVE Answered(d)'
  BY DEF Waits
<1> SUFFICES ASSUME NEW t \in Thread, Runs(d, t)', thread'[t].is \in {"running", "asked"}
             PROVE  /\ at'[d] \in {"join", "joining"} => thread'[t].is = "asked" \/ Sent(Mine(d))'
                    /\ at'[d] \notin {"lastjoin", "lastjoining"}
  BY DEF Answered
<1>1. at'[d] = at[d] /\ call'[d] = call[d] /\ (Leads(d)' <=> Leads(d))
  BY DEF Moves, Leads, Own
<1>2. Runs(d, t)
  BY <1>1 DEF Runs
<1>3. Leads(d)
  BY <1>2, RunsOnce
<1>4. thread'[t] = thread[t]
  BY <1>2
<1>5. QED BY <1>1, <1>2, <1>3, <1>4 DEF Waits, Answered

\* A call leaves a stop where it was, or is about to send it again.
LEMMA InCallSent ==
    ASSUME ThreadInv, Threads, NEW c \in Client, InCall(c),
           NEW d \in Client \ {c}, Leads(d), Sent(Mine(d))
    PROVE  Sent(Mine(d))'
<1>1. Moves(c) /\ Mine(d)' = Mine(d) /\ Mine(d) \in Address
  BY InCallLeads, LeadsTo DEF ThreadInv
<1>2. at[c] \in Stopping => call[c].para \in Address
  BY InHand DEF ThreadInv
<1>3. CASE NoStop(c) \/ Stops(c) \/ Join(c) \/ Joined(c) \/ \E op \in {"async", "stop", "exit"}, p \in Pid : Enter(c, op, p)
  <2>1. at[c] # "send" /\ para' = para
    BY <1>3 DEF NoStop, Stops, Join, Joined, Enter, May
  <2>2. QED BY <1>1, <2>1 DEF Sent, Moves
<1>4. CASE Interrupt(c)
  <2>1. at[c] = "clear" /\ at'[c] = "send" /\ call'[c].para = call[c].para
    BY <1>4 DEF Interrupt, Goto, ThreadInv, PidInv, TypeOK
  <2>2. CASE call[c].para = Mine(d)
    BY <1>1, <2>1, <2>2 DEF Sent
  <2>3. CASE call[c].para # Mine(d)
    <3>1. para'[Mine(d)] = para[Mine(d)]
      BY <1>1, <1>4, <2>3 DEF Interrupt, ThreadInv, PidInv, TypeOK
    <3>2. QED BY <1>1, <2>1, <3>1 DEF Sent, Moves
  <2>4. QED BY <2>2, <2>3
<1>5. CASE Send(c)
  <2>1. call[c].para \in Address /\ para' = [para EXCEPT ![call[c].para].stop = TRUE]
    BY <1>2, <1>5 DEF Send, Stopping
  <2>2. CASE call[c].para = Mine(d)
    <3>1. para'[Mine(d)].stop
      BY <1>1, <2>1, <2>2 DEF ThreadInv, PidInv, TypeOK, Para
    <3>2. QED BY <1>1, <3>1 DEF Sent
  <2>3. CASE call[c].para # Mine(d)
    <3>1. para'[Mine(d)] = para[Mine(d)]
      BY <1>1, <2>1, <2>3 DEF ThreadInv, PidInv, TypeOK
    <3>2. QED BY <1>1, <2>3, <3>1 DEF Sent, Moves
  <2>4. QED BY <2>2, <2>3
<1>6. CASE Uninterrupt(c)
  <2>1. at[c] = "uninterrupt" /\ Leads(c)
    BY <1>6 DEF Uninterrupt, Threads, Leads, Own, Stopping
  <2>2. call[c].para = Mine(c) /\ Mine(c) # Mine(d)
    BY <2>1, OwnInHand DEF ThreadInv, PidInv, Parameters
  <2>3. para'[Mine(d)] = para[Mine(d)]
    BY <1>1, <1>6, <2>2 DEF Uninterrupt, ThreadInv, PidInv, TypeOK
  <2>4. QED BY <1>1, <2>1, <2>3 DEF Sent, Moves
<1>7. QED BY <1>3, <1>4, <1>5, <1>6 DEF InCall

\* A call waits for its thread only with a stop sent or taken.
LEMMA InCallAnswered ==
    ASSUME ThreadInv, Threads, Alone, Waits, NEW c \in Client, InCall(c)
    PROVE  Answered(c)'
<1> SUFFICES ASSUME NEW t \in Thread, Runs(c, t)', thread'[t].is \in {"running", "asked"}
             PROVE  /\ at'[c] \in {"join", "joining"} => thread'[t].is = "asked" \/ Sent(Mine(c))'
                    /\ at'[c] \notin {"lastjoin", "lastjoining"}
  BY DEF Answered
<1>1. /\ Moves(c) /\ Leads(c) /\ Mine(c)' = Mine(c) /\ Mine(c) \in Address
      /\ at[c] \notin {"published", "created", "failed"} /\ at'[c] # "created"
  BY InCallLeads, LeadsTo, RunsOnce DEF ThreadInv, Runs
<1>2. Runs(c, t) /\ para[Mine(c)].pthread_id = t /\ thread[t].is \in {"running", "asked"} /\ thread'[t] = thread[t]
  <2>1. para'[Mine(c)].pthread_id = para[Mine(c)].pthread_id /\ thread'[t] = thread[t]
    BY <1>1, InCallThread DEF ThreadInv
  <2>2. QED BY <1>1, <2>1 DEF Runs
<1>3. ~para[Mine(c)].exited
  BY <1>2, RunsUnexited DEF Waits
<1>4. at[c] # "playing" => call[c].para = Mine(c)
  BY <1>1, OwnInHand DEF ThreadInv
<1>5. CASE NoStop(c)
  BY <1>3, <1>4, <1>5 DEF NoStop
<1>6. CASE Stops(c) \/ Interrupt(c)
  <2>1. at'[c] \in {"clear", "send"}
    BY <1>6 DEF Stops, Interrupt, Goto, ThreadInv, PidInv, TypeOK
  <2>2. QED BY <2>1
<1>7. CASE Send(c) /\ call[c].op = "async"
  <2>1. at[c] = "send" /\ at'[c] = call[c].home /\ call[c].home \in {"idle", "playing"}
    BY <1>7 DEF Send, Return, Goto, ThreadInv, PidInv, TypeOK, Call
  <2>2. QED BY <2>1
<1>8. CASE Send(c) /\ call[c].op # "async"
  <2>1. at[c] = "send" /\ at'[c] = "join"
    BY <1>8 DEF Send, Goto, ThreadInv, PidInv, TypeOK
  <2>2. para'[Mine(c)].stop
    BY <1>1, <1>4, <1>8, <2>1 DEF Send, ThreadInv, PidInv, TypeOK, Para
  <2>3. QED BY <1>1, <2>1, <2>2 DEF Sent
<1>9. CASE Join(c)
  <2>1. at[c] = "join" /\ at'[c] \in {"uninterrupt", "joining"} /\ para' = para
    <3>1. at[c] # "lastjoin"
      BY <1>2 DEF Waits, Answered
    <3>2. QED BY <1>9, <3>1 DEF Join, Goto, ThreadInv, PidInv, TypeOK
  <2>2. thread[t].is = "asked" \/ Sent(Mine(c))
    BY <1>2, <2>1 DEF Waits, Answered
  <2>3. Sent(Mine(c)) => Sent(Mine(c))'
    BY <1>1, <2>1 DEF Sent, Moves
  <2>4. QED BY <1>2, <2>1, <2>2, <2>3
<1>10. CASE Joined(c)
  <2>1. at'[c] \in {"uninterrupt", "lastuninterrupt"}
    BY <1>10 DEF Joined, Goto, ThreadInv, PidInv, TypeOK
  <2>2. QED BY <2>1
<1>11. CASE Uninterrupt(c)
  <2>1. thread[t].is = "joined"
    BY <1>2, <1>11 DEF Uninterrupt, Threads
  <2>2. QED BY <1>2, <2>1
<1>12. CASE \E op \in {"async", "stop", "exit"}, p \in Pid : Enter(c, op, p)
  <2>1. PICK op \in {"async", "stop", "exit"} : \E p \in Pid : Enter(c, op, p)
    BY <1>12
  <2>2. PICK p \in Pid : Enter(c, op, p)
    BY <2>1
  <2>3. at[c] = "playing" /\ p = call[c].pid
    <3>1. at[c] \in {"idle", "playing"} /\ (at[c] = "playing" => p = call[c].pid)
      BY <2>2 DEF Enter, May
    <3>2. at[c] # "idle"
      BY <1>1 DEF Leads, Own, Starting, Stopping, Exiting
    <3>3. QED BY <3>1, <3>2
  <2>4. Open(p) = Mine(c)
    BY <1>1, <2>2, <2>3 DEF Enter, Open, Mine
  <2>5. at'[c] = "stop"
    BY <1>3, <2>2, <2>4 DEF Enter, Goto, ThreadInv, PidInv, TypeOK
  <2>6. QED BY <2>5
<1>13. QED BY <1>5, <1>6, <1>7, <1>8, <1>9, <1>10, <1>11, <1>12 DEF InCall

LEMMA InCallWaits ==
    ASSUME ThreadInv, Threads, Alone, Waits, NEW c \in Client, InCall(c)
    PROVE  Waits'
<1>1. /\ Moves(c)
      /\ \A d \in Client : Leads(d) => Mine(d)' = Mine(d) /\ Mine(d) \in Address
      /\ at'[c] # "published"
  BY InCallLeads, LeadsTo DEF ThreadInv
<1>2. \A a \in Address : para'[a].pthread_id = para[a].pthread_id /\ para'[a].exited = para[a].exited
  BY InCallPara DEF ThreadInv
<1>3. \A t \in Thread : thread'[t].is \in {"running", "asked"} => thread'[t] = thread[t]
  BY InCallThread DEF ThreadInv
<1>4. NotExited'
  <2>1. \A t \in Thread : thread'[t].is \in {"running", "asked"} => ~para'[thread'[t].para].exited
    <3> SUFFICES ASSUME NEW t \in Thread, thread'[t].is \in {"running", "asked"}
                 PROVE  ~para'[thread'[t].para].exited
      OBVIOUS
    <3>1. thread[t].is \in {"running", "asked"} /\ thread'[t].para = thread[t].para
      BY <1>3
    <3>2. PICK d \in Client : Runs(d, t) /\ Mine(d) = thread[t].para
      BY <3>1 DEF Threads
    <3>3. Mine(d) \in Address /\ ~para[Mine(d)].exited
      BY <1>1, <3>1, <3>2, RunsOnce DEF Waits, NotExited
    <3>4. QED BY <1>2, <3>1, <3>2, <3>3
  <2>2. \A d \in Client : at'[d] = "published" => ~para'[Mine(d)'].exited
    <3> SUFFICES ASSUME NEW d \in Client \ {c}, at[d] = "published"
                 PROVE  ~para'[Mine(d)'].exited
      BY <1>1 DEF Moves
    <3>1. Leads(d) /\ ~para[Mine(d)].exited
      BY DEF Leads, Own, Starting, Waits, NotExited
    <3>2. QED BY <1>1, <1>2, <3>1
  <2>3. QED BY <2>1, <2>2 DEF NotExited
<1>5. \A d \in Client \ {c} : Leads(d) =>
         Mine(d)' = Mine(d) /\ para'[Mine(d)].pthread_id = para[Mine(d)].pthread_id
  BY <1>1, <1>2
<1>6. \A d \in Client \ {c}, t \in Thread : Runs(d, t) /\ thread'[t].is \in {"running", "asked"} => thread'[t] = thread[t]
  BY <1>3
<1>7. \A d \in Client \ {c} : Leads(d) /\ Sent(Mine(d)) => Sent(Mine(d))'
  BY InCallSent
<1>8. Answered(c)'
  BY InCallAnswered
<1>9. QED BY <1>1, <1>4, <1>5, <1>6, <1>7, <1>8, WaitsFrame DEF ThreadInv

\* A new thread has not exited, and no other one plays with the parameters of its player.
LEMMA StartNotExited ==
    ASSUME ThreadInv, Threads, Waits, NEW c \in Client, Start(c) \/ Exit(c)
    PROVE  NotExited'
<1>1. \A d \in Client : Leads(d) => Mine(d) \in Address /\ para[Mine(d)].live
  BY LeadsTo DEF ThreadInv, PidInv, Parameters
<1>2. \A a \in Address : para[a].live => para'[a].exited = para[a].exited
  <2> SUFFICES ASSUME NEW a \in Address, para[a].live PROVE para'[a].exited = para[a].exited
    OBVIOUS
  <2>1. para \in [Address -> Para]
    BY DEF ThreadInv, PidInv, TypeOK
  <2>2. CASE Allocate(c)
    BY <2>1, <2>2 DEF Allocate
  <2>3. CASE Create(c) \/ Started(c)
    BY <2>1, <2>3 DEF Create, Started, Para
  <2>4. CASE StartFailed(c) \/ Exit(c)
    BY <2>1, <2>4 DEF StartFailed, Exit, Para
  <2>5. CASE Request(c) \/ OutOfMemory(c) \/ Release(c)
    BY <2>5 DEF Request, OutOfMemory, Release
  <2>6. QED BY <2>2, <2>3, <2>4, <2>5 DEF Start
<1>3. ASSUME NEW t \in Thread, thread'[t].is \in {"running", "asked"}
      PROVE  ~para'[thread'[t].para].exited
  <2>1. CASE thread'[t] = thread[t]
    <3>1. PICK d \in Client : Runs(d, t) /\ Mine(d) = thread[t].para
      BY <1>3, <2>1 DEF Threads
    <3>2. ~para[Mine(d)].exited /\ Leads(d)
      BY <1>3, <2>1, <3>1, RunsOnce DEF Waits, NotExited
    <3>3. QED BY <1>1, <1>2, <2>1, <3>1, <3>2
  <2>2. CASE thread'[t] # thread[t]
    <3>1. Create(c)
      BY <2>2 DEF Start, Request, OutOfMemory, Allocate, Started, StartFailed, Release, Exit
    <3>2. at[c] = "published" /\ Leads(c)
      BY <3>1 DEF Create, Leads, Own, Starting
    <3>3. call[c].para = Mine(c) /\ ~para[Mine(c)].exited
      BY <3>2, OwnInHand DEF ThreadInv, Waits, NotExited
    <3>4. thread'[t].para = call[c].para
      BY <2>2, <3>1 DEF Create, ThreadInv, PidInv, TypeOK
    <3>5. QED BY <1>1, <1>2, <3>2, <3>3, <3>4
  <2>3. QED BY <2>1, <2>2
<1>4. ASSUME NEW d \in Client, at'[d] = "published"
      PROVE  ~para'[Mine(d)'].exited
  <2>1. CASE d = c
    <3>1. Allocate(c)
      BY <1>4, <2>1 DEF Start, Request, OutOfMemory, Allocate, Create, Started, StartFailed, Release,
                        Exit, Goto, ThreadInv, PidInv, TypeOK
    <3>2. PICK a \in Address :
              /\ para' = [para EXCEPT ![a] = NewPara]
              /\ data' = [data EXCEPT ![call[c].pid] = a]
              /\ call' = [call EXCEPT ![c].para = a]
      BY <3>1 DEF Allocate
    <3>3. Mine(c)' = a /\ para'[a].exited = FALSE
      BY <3>2 DEF Mine, NewPara, ThreadInv, PidInv, TypeOK, Call
    <3>4. QED BY <2>1, <3>3
  <2>2. CASE d # c
    <3>1. at[d] = "published" /\ Leads(d)
      BY <1>4, <2>2, Others DEF Moves, Leads, Own, Starting, ThreadInv
    <3>2. Mine(d)' = Mine(d) /\ ~para[Mine(d)].exited
      BY <2>2, <3>1, Others DEF ThreadInv, Waits, NotExited
    <3>3. QED BY <1>1, <1>2, <3>1, <3>2
  <2>3. QED BY <2>1, <2>2
<1>5. QED BY <1>3, <1>4 DEF NotExited

LEMMA StartWaits ==
    ASSUME ThreadInv, Threads, Alone, Waits, NEW c \in Client, Start(c) \/ Exit(c)
    PROVE  Waits'
<1>1. at[c] # "send" /\ at'[c] \notin {"send", "join", "joining", "lastjoin", "lastjoining"}
  BY DEF Start, Request, OutOfMemory, Allocate, Create, Started, StartFailed, Release, Exit, Goto,
         ThreadInv, PidInv, TypeOK
<1>2. Answered(c)'
  BY <1>1 DEF Answered
<1>3. \A d \in Client \ {c} : Leads(d) /\ Sent(Mine(d)) => Sent(Mine(d))'
  <2> SUFFICES ASSUME NEW d \in Client \ {c}, Leads(d), Sent(Mine(d)) PROVE Sent(Mine(d))'
    OBVIOUS
  <2>1. Mine(d)' = Mine(d) /\ para'[Mine(d)].stop = para[Mine(d)].stop
    BY Others DEF ThreadInv
  <2>2. \A e \in Client \ {c} : at'[e] = at[e] /\ call'[e] = call[e]
    BY Others DEF ThreadInv, Moves
  <2>3. QED BY <1>1, <2>1, <2>2 DEF Sent
<1>4. \A d \in Client \ {c}, t \in Thread : Runs(d, t) => thread'[t] = thread[t]
  <2> SUFFICES ASSUME NEW d \in Client \ {c}, NEW t \in Thread, Runs(d, t)
               PROVE  thread'[t] = thread[t]
    OBVIOUS
  <2>1. CASE Create(c)
    <3>1. Leads(d) /\ at[d] \notin {"published", "failed"}
      BY RunsOnce DEF Runs
    <3>2. thread[t].is # "none"
      BY <3>1, RunsOnce DEF Threads
    <3>3. QED BY <2>1, <3>2 DEF Create, NewId, Alone, ThreadInv, PidInv, TypeOK
  <2>2. CASE ~Create(c)
    BY <2>2 DEF Start, Request, OutOfMemory, Allocate, Started, StartFailed, Release, Exit
  <2>3. QED BY <2>1, <2>2
<1>5. QED BY <1>2, <1>3, <1>4, Others, StartNotExited, WaitsFrame DEF ThreadInv

\* A player that takes its stop was asked to end, and one that ends is waited for no longer;
\* what other players are asked stays.
LEMMA ThreadWaits ==
    ASSUME ThreadInv, Threads, Waits, NEW u \in Thread, TakeStop(u) \/ Ending(u) \/ Ended(u)
    PROVE  Waits'
<1>1. UNCHANGED <<pool, data, at, call>>
  BY DEF TakeStop, Ending, Ended
<1>2. \A c \in Client : Mine(c)' = Mine(c) /\ (Leads(c)' <=> Leads(c))
  BY <1>1 DEF Mine, Leads, Own
<1>3. \A t \in Thread : thread'[t].is \in {"running", "asked"} =>
         /\ thread[t].is \in {"running", "asked"} /\ thread'[t].para = thread[t].para
         /\ \/ t # u /\ thread'[t] = thread[t]
            \/ t = u /\ TakeStop(u) /\ thread'[u].is = "asked"
  BY DEF TakeStop, Playing, Ending, Ended, ThreadInv, PidInv, TypeOK
<1>4. PICK o \in Client : Runs(o, u) /\ Leads(o) /\ Mine(o) = thread[u].para /\ Mine(o) \in Address
  <2>1. thread[u].is \in {"running", "asked", "leaving"}
    BY DEF TakeStop, Playing, Ending, Ended
  <2>2. QED BY <2>1, RunsOnce, LeadsTo DEF Threads, ThreadInv
<1>5. \A a \in Address : /\ para'[a].pthread_id = para[a].pthread_id
                         /\ TakeStop(u) => para'[a].exited = para[a].exited
                         /\ a # Mine(o) => para'[a] = para[a]
  BY <1>4 DEF TakeStop, Ending, Ended, ThreadInv, PidInv, TypeOK, Para
<1>6. \A c \in Client : Leads(c) /\ c # o => Mine(c) \in Address /\ Mine(c) # Mine(o)
  BY <1>4, LeadsTo DEF ThreadInv, PidInv, Parameters
<1>7. \A c \in Client, t \in Thread : Runs(c, t)' => Runs(c, t) /\ Leads(c)
  <2>1. \A c \in Client, t \in Thread : Runs(c, t)' <=> Runs(c, t)
    BY <1>1, <1>2, <1>5, LeadsTo DEF Runs, ThreadInv
  <2>2. QED BY <2>1, RunsOnce
<1>8. \A c \in Client : Answered(c)'
  <2> SUFFICES ASSUME NEW c \in Client, NEW t \in Thread, Runs(c, t)', thread'[t].is \in {"running", "asked"}
               PROVE  /\ at'[c] \in {"join", "joining"} => thread'[t].is = "asked" \/ Sent(Mine(c))'
                      /\ at'[c] \notin {"lastjoin", "lastjoining"}
    BY DEF Answered
  <2>1. Runs(c, t) /\ Leads(c) /\ thread[t].is \in {"running", "asked"}
    BY <1>3, <1>7
  <2>2. /\ at[c] \in {"join", "joining"} => thread[t].is = "asked" \/ Sent(Mine(c))
        /\ at[c] \notin {"lastjoin", "lastjoining"}
    BY <2>1 DEF Waits, Answered
  <2>3. CASE thread'[t].is = "asked"
    BY <1>1, <2>2, <2>3
  <2>4. CASE t # u /\ thread'[t] = thread[t]
    <3>1. c # o
      BY <1>4, <2>1, <2>4, RunsOnce
    <3>2. para'[Mine(c)] = para[Mine(c)]
      BY <1>5, <1>6, <2>1, <3>1
    <3>3. Sent(Mine(c)) => Sent(Mine(c))'
      BY <1>1, <1>2, <3>2 DEF Sent
    <3>4. QED BY <1>1, <2>2, <2>4, <3>3
  <2>5. QED BY <1>3, <2>3, <2>4
<1>9. NotExited'
  <2>1. ASSUME NEW t \in Thread, thread'[t].is \in {"running", "asked"} PROVE ~para'[thread'[t].para].exited
    <3>1. PICK c \in Client : Runs(c, t) /\ Mine(c) = thread[t].para
      BY <1>3, <2>1 DEF Threads
    <3>2. ~para[Mine(c)].exited /\ Leads(c) /\ Mine(c) \in Address
      BY <1>3, <2>1, <3>1, RunsOnce, LeadsTo DEF Waits, NotExited, ThreadInv
    <3>3. TakeStop(u) \/ c # o
      BY <1>3, <1>4, <2>1, <3>1, RunsOnce
    <3>4. QED BY <1>3, <1>5, <1>6, <2>1, <3>1, <3>2, <3>3
  <2>2. ASSUME NEW c \in Client, at'[c] = "published" PROVE ~para'[Mine(c)'].exited
    <3>1. at[c] = "published" /\ Leads(c) /\ c # o
      BY <1>1, <1>4, <2>2 DEF Runs, Leads, Own, Starting
    <3>2. QED BY <1>2, <1>5, <1>6, <3>1 DEF Waits, NotExited
  <2>3. QED BY <2>1, <2>2 DEF NotExited
<1>10. QED BY <1>8, <1>9 DEF Waits

LEMMA WaitStep == WaitInv /\ [Next]_vars => WaitInv'
<1> SUFFICES ASSUME WaitInv, [Next]_vars PROVE WaitInv'
  OBVIOUS
<1>1. ThreadInv'
  BY ThreadStep DEF WaitInv
<1>2. ASSUME Alone PROVE Waits'
  <2>1. ThreadInv /\ Threads /\ Waits
    BY <1>2 DEF WaitInv, ThreadInv
  <2>2. CASE \E c \in Client : Start(c) \/ Exit(c)
    BY <1>2, <2>1, <2>2, StartWaits
  <2>3. CASE \/ \E c \in Client : Stop(c) /\ ~Exit(c)
             \/ \E c \in Client, op \in {"async", "stop", "exit"}, p \in Pid : Enter(c, op, p)
    <3>1. PICK c \in Client : InCall(c)
      BY <2>3 DEF Stop, InCall
    <3>2. QED BY <1>2, <2>1, <3>1, InCallWaits
  <2>4. CASE \E t \in Thread : TakeStop(t) \/ Ending(t) \/ Ended(t)
    BY <2>1, <2>4, ThreadWaits
  <2>5. CASE UNCHANGED vars \/ \E t \in Thread : MateWindow(t)
    BY <2>1, <2>5 DEF vars, MateWindow, Waits, Answered, NotExited, Sent, Runs, Leads, Own, Mine
  <2>6. QED BY <2>2, <2>3, <2>4, <2>5 DEF Next, PlayerStep
<1>3. Alone' <=> Alone
  BY DEF Alone
<1>4. QED BY <1>1, <1>2, <1>3 DEF WaitInv

LEMMA InitWaits == Init => WaitInv
<1> SUFFICES ASSUME Init PROVE WaitInv
  OBVIOUS
<1>1. Waits
  BY DEF Init, Waits, Answered, NotExited
<1>2. QED BY <1>1, InitThreads DEF WaitInv

\* When only its owner waits for a player and no thread id comes back, a call that waits for
\* a player that plays on has asked it to end: however its player_stop meets the calls of
\* other clients, and whenever the player takes the stop, no stop is lost between them.
THEOREM JoinsAnswered == ASSUME ~StopOthers, ~ReuseIds
                         PROVE  Spec => []JoinAnswered
<1>1. WaitInv => JoinAnswered
  <2> SUFFICES ASSUME WaitInv, NEW c \in Client, NEW t \in Thread, Awaits(c, t)
               PROVE  Asked(t) \/ \E d \in Client : at[d] = "send" /\ call[d].para = call[c].para
    BY DEF JoinAnswered
  <2>1. ThreadInv /\ PidInv /\ Threads /\ Waits
    BY DEF WaitInv, ThreadInv, Alone
  <2>2. CASE at[c] = "send"
    BY <2>2
  <2>3. CASE at[c] # "send"
    <3>1. at[c] \in {"join", "joining", "lastjoin", "lastjoining"} /\ thread[t].is \in {"running", "asked"}
      BY <2>3 DEF Awaits, Playing
    <3>2. Leads(c) /\ at[c] \notin {"published", "created", "failed", "playing"}
      BY <2>1, <3>1 DEF Threads, Leads, Own, Stopping, Exiting
    <3>3. call[c].para = Mine(c)
      BY <2>1, <3>2, OwnInHand
    <3>4. Runs(c, t)
      BY <3>2, <3>3 DEF Runs, Awaits
    <3>5. thread[t].para = Mine(c)
      BY <2>1, <3>1, <3>4, RunsOnMine
    <3>6. thread[t].is = "asked" \/ Sent(Mine(c))
      BY <2>1, <3>1, <3>4 DEF Waits, Answered
    <3>7. QED BY <3>3, <3>5, <3>6 DEF Asked, Sent
  <2>4. QED BY <2>2, <2>3
<1>2. Spec => []WaitInv
  BY InitWaits, WaitStep, PTL DEF Spec
<1>3. QED BY <1>1, <1>2, PTL

\* Under the same conditions no client takes back the interrupt of a player that plays on
\* and whose end a call waits for: what a call takes off the list when it is done is
\* the thread it has joined, and the ids of other players' threads stay.
THEOREM InterruptsKept == ASSUME ~StopOthers, ~ReuseIds
                          PROVE  Spec => InterruptKept
<1>1. ThreadInv /\ [Next]_vars =>
         \A c \in Client, t \in Thread : Awaits(c, t) /\ t \in kill /\ at' # at => t \in kill'
  <2> SUFFICES ASSUME ThreadInv, Next, NEW c \in Client, NEW t \in Thread,
                      Awaits(c, t), t \in kill, at' # at
               PROVE  t \in kill'
    BY DEF vars
  <2>1. PidInv /\ Threads /\ thread[t].is # "joined"
    BY DEF ThreadInv, Alone, Awaits, Playing
  <2>2. CASE \E d \in Client : Uninterrupt(d) \/ Exit(d)
    <3>1. PICK d \in Client : Uninterrupt(d) \/ Exit(d)
      BY <2>2
    <3>2. at[d] \in {"uninterrupt", "lastuninterrupt"} /\ Leads(d)
      BY <2>1, <3>1 DEF Uninterrupt, Exit, Threads, Leads, Own, Stopping, Exiting
    <3>3. call[d].para = Mine(d)
      BY <2>1, <3>2, OwnInHand
    <3>4. para[Mine(d)].pthread_id # t
      BY <2>1, <3>2 DEF Runs, Threads
    <3>5. QED BY <3>1, <3>3, <3>4 DEF Uninterrupt, Exit
  <2>3. CASE \E d \in Client : Start(d)
    BY <2>3 DEF Start, Request, OutOfMemory, Allocate, Create, Started, StartFailed, Release
  <2>4. CASE \/ \E d \in Client : NoStop(d) \/ Stops(d) \/ Interrupt(d) \/ Send(d) \/ Join(d) \/ Joined(d)
             \/ \E d \in Client, op \in {"async", "stop", "exit"}, p \in Pid : Enter(d, op, p)
    BY <2>4 DEF NoStop, Stops, Interrupt, Send, Join, Joined, Enter
  <2>5. CASE \E u \in Thread : PlayerStep(u)
    BY <2>5 DEF PlayerStep, TakeStop, MateWindow, Ending, Ended
  <2>6. QED BY <2>2, <2>3, <2>4, <2>5 DEF Next, Stop
<1>2. Spec => []ThreadInv
  BY InitThreads, ThreadStep, PTL DEF Spec
<1>3. QED BY <1>1, <1>2, PTL DEF Spec, InterruptKept
=============================================================================
