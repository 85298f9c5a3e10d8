------------------------------ MODULE TcpServer ------------------------------
(***************************************************************************)
(* TcpServer over its loops: the acceptor and the base loop, the pool's    *)
(* loops, the connections each loop serves, the threads the program hands  *)
(* connections to, and the peers.                                          *)
(*                                                                         *)
(* A handler runs on one loop's thread and is one step: what it shares     *)
(* with other threads is state_, read and written once, and the queues.    *)
(* newConnetion is not: it runs on the base thread but works on a channel  *)
(* another thread serves as soon as it is in the epoll set, so the writes  *)
(* of connectionEstablish are steps of their own.                          *)
(*                                                                         *)
(* Module EventLoop shows that a loop does not stay in epoll_wait while a  *)
(* functor is queued; here a loop polls when it has events or functors.    *)
(***************************************************************************)
EXTENDS TcpConnection, FiniteSets

CONSTANTS
  Loops,      \* loops_, the pool's loops in order; empty: the base loop serves
  MaxConns,   \* Bound: connections accepted
  MaxInputs,  \* Bound: times a peer sends
  MaxCalls,   \* Bound: calls of a thread that holds a connection
  Messages,   \* what the program sends, in units of the kernel's memory
  Faults,     \* what else may happen: "reset", "shutdown", "accept"
  Acceptor    \* the acceptor's channel

ASSUME LoopsAssumption ==
  /\ Loops \in Seq(STRING)
  /\ \A i \in 1..Len(Loops) : Loops[i] # Base
  /\ \A i, j \in 1..Len(Loops) : Loops[i] = Loops[j] => i = j
ASSUME MessagesAssumption ==
  \A m \in Messages : m \in Seq({"m"}) /\ Len(m) \in 1..(SendRoom + 1)
ASSUME BoundsAssumption ==
  MaxConns \in Nat /\ MaxInputs \in Nat /\ MaxCalls \in Nat

Conns == 0..(MaxConns - 1)

ASSUME AcceptorAssumption == Acceptor \notin Conns

PoolLoops == {Loops[i] : i \in 1..Len(Loops)}
AllLoops == {Base} \cup PoolLoops

VARIABLES
  conn, sock, connections_, pendingFunctors_, failed,  \* see TcpConnection
  nextConnectionId_,
  next_,            \* EventLoopThreadPool's round robin
  backlog,          \* connections the kernel holds for accept
  quit_,            \* of each loop: it was told to stop
  where,            \* where each loop's thread is
  activeChannels,   \* of each loop: what is left to handle
  toRun,            \* of each loop: doPendingFunctors's vector
  at,               \* of each loop: the index it has reached
  holder,           \* the thread that holds a connection: what it is doing
  calls             \* how often it called send or closeConnection

state == [conn |-> conn, sock |-> sock, connections_ |-> connections_,
          pendingFunctors_ |-> pendingFunctors_, failed |-> failed]
serverVars == <<conn, sock, connections_, pendingFunctors_, failed>>
acceptVars == <<nextConnectionId_, next_, backlog>>
loopVars == <<quit_, where, activeChannels, toRun, at>>
holderVars == <<holder, calls>>
vars == <<serverVars, acceptVars, loopVars, holderVars>>

Becomes(w) ==
  /\ conn' = w.conn
  /\ sock' = w.sock
  /\ connections_' = w.connections_
  /\ pendingFunctors_' = w.pendingFunctors_
  /\ failed' = w.failed

(* The stages of newConnetion, each the name of what comes next.           *)
Establishing == {"enableReading", "set_index", "kConnected", "connectionCallback_"}

(* start: TcpServer::start is to be called, or the pool's thread started.  *)
(* ended: loop() has returned.  joining: ~TcpServer waits for the pool's   *)
(* threads.  destroyed: the loop is.                                       *)
LoopPC == {"start", "poll", "dispatch", "functors", "ended", "joining", "destroyed"}
            \cup Establishing

TypeOK ==
  /\ state \in Servers(Conns, AllLoops, {"m"})
  /\ \A c \in Conns : sock[c].inputs <= MaxInputs
  /\ nextConnectionId_ \in 0..MaxConns
  /\ next_ \in 0..Len(Loops)
  /\ backlog \in 0..MaxConns
  /\ quit_ \in [AllLoops -> BOOLEAN]
  /\ where \in [AllLoops -> LoopPC]
  /\ activeChannels \in [AllLoops -> SUBSET (Conns \cup {Acceptor})]
  /\ toRun \in [AllLoops -> Seq(Functors(Conns))]
  /\ at \in [AllLoops -> Nat]
  /\ \A l \in AllLoops : at[l] \in 1..(Len(toRun[l]) + 1)
  /\ holder \in [Conns -> {"none", "idle", "send", "closeConnection"}]
  /\ calls \in [Conns -> 0..MaxCalls]

Init ==
  /\ conn = [c \in Conns |-> [NewConnection(Base, TRUE) EXCEPT !.state_ = "none"]]
  /\ sock = [c \in Conns |-> NewSocket]
  /\ connections_ = {}
  /\ pendingFunctors_ = [l \in AllLoops |-> <<>>]
  /\ failed = FALSE
  /\ nextConnectionId_ = 0
  /\ next_ = 0
  /\ backlog = 0
  /\ quit_ = [l \in AllLoops |-> FALSE]
  /\ where = [l \in AllLoops |-> "start"]
  /\ activeChannels = [l \in AllLoops |-> {}]
  /\ toRun = [l \in AllLoops |-> <<>>]
  /\ at = [l \in AllLoops |-> 1]
  /\ holder = [c \in Conns |-> "none"]
  /\ calls = [c \in Conns |-> 0]

Created(c) == c < nextConnectionId_

(* The functors a loop holds; the vector doPendingFunctors runs keeps all  *)
(* of them until its end.                                                  *)
FunctorsOf(l) ==
  {pendingFunctors_[l][i] : i \in 1..Len(pendingFunctors_[l])}
    \cup {toRun[l][i] : i \in 1..Len(toRun[l])}

(* The connection newConnetion works on.                                   *)
Newest == nextConnectionId_ - 1

(* Who holds a ConnectionPtr between steps: the map, a functor, a thread   *)
(* of the program, newConnetion itself.  (Inside a handler, the guard.)    *)
Held(c) ==
  \/ c \in connections_
  \/ \E l \in AllLoops : \E f \in FunctorsOf(l) : f.conn = c
  \/ holder[c] # "none"
  \/ where[Base] \in Establishing /\ c = Newest

Destroyed(c) == Created(c) /\ ~Held(c)
-----------------------------------------------------------------------------
(* A loop's thread. *)

(* What epoll_wait reports of a connection; a hang-up whether or not it is *)
(* asked for.  Closing the descriptor took a destroyed one out of the set. *)
Ready(c) ==
  IF ~conn[c].added \/ Destroyed(c) THEN {}
  ELSE LET s == sock[c]
       IN  {e \in conn[c].interest :
              \/ e = "in" /\ (s.unread \/ s.fin \/ s.rst)
              \/ e = "out" /\ (s.rst \/ Room(state, c) > 0)}
             \cup {e \in {"hup"} : s.rst}

Active(l) ==
  {c \in Conns : conn[c].loop = l /\ Created(c) /\ Ready(c) # {}}
    \cup {a \in {Acceptor} : l = Base /\ backlog > 0}

(* QueueInLoop and stop wrote the eventfd.  Seeded fault: stop does not.   *)
FaultStopSilently(l) == pendingFunctors_[l] # <<>>
Woken(l) == pendingFunctors_[l] # <<>> \/ quit_[l]

Poll(l) ==
  /\ where[l] = "poll"
  /\ Active(l) # {} \/ Woken(l)
  /\ activeChannels' = [activeChannels EXCEPT ![l] = Active(l)]
  /\ conn' = [c \in Conns |-> IF c \in Active(l)
                              THEN [conn[c] EXCEPT !.revents_ = Ready(c)]
                              ELSE conn[c]]
  /\ where' = [where EXCEPT ![l] = "dispatch"]
  /\ UNCHANGED <<sock, connections_, pendingFunctors_, failed, acceptVars,
                 quit_, toRun, at, holderVars>>

(* Channel::handleEvent: runs the handlers if tie_ can be locked.          *)
HandleEvent(l, c) ==
  /\ where[l] = "dispatch"
  /\ c \in activeChannels[l]
  /\ activeChannels' = [activeChannels EXCEPT ![l] = @ \ {c}]
  /\ IF Held(c)
     THEN \E data \in Messages \cup {<<>>}, close \in BOOLEAN :
            Becomes(HandleEventWithGuard(state, c, data, close))
     ELSE UNCHANGED serverVars
  /\ UNCHANGED <<acceptVars, quit_, where, toRun, at, holderVars>>

(* doPendingFunctors. *)
DoPendingFunctors(l) ==
  /\ where[l] = "dispatch"
  /\ activeChannels[l] = {}
  /\ toRun' = [toRun EXCEPT ![l] = pendingFunctors_[l]]
  /\ pendingFunctors_' = [pendingFunctors_ EXCEPT ![l] = <<>>]
  /\ where' = [where EXCEPT ![l] = "functors"]
  /\ UNCHANGED <<conn, sock, connections_, failed, acceptVars, quit_,
                 activeChannels, at, holderVars>>

RunNext(l) ==
  /\ where[l] = "functors"
  /\ at[l] <= Len(toRun[l])
  /\ LET f == toRun[l][at[l]]
     IN  \E data \in Messages : Becomes(RunFunctor(state, f, data))
  /\ at' = [at EXCEPT ![l] = @ + 1]
  /\ UNCHANGED <<acceptVars, quit_, where, activeChannels, toRun, holderVars>>

(* Seeded fault: the next batch started where this one ended.              *)
FaultStaleIndex(l) ==
  /\ where[l] = "functors"
  /\ at[l] > Len(toRun[l])
  /\ toRun' = [toRun EXCEPT ![l] = <<>>]
  /\ where' = [where EXCEPT ![l] = IF quit_[l] THEN "ended" ELSE "poll"]
  /\ UNCHANGED <<serverVars, acceptVars, quit_, activeChannels, at, holderVars>>

FinishFunctors(l) ==
  /\ where[l] = "functors"
  /\ at[l] > Len(toRun[l])
  /\ toRun' = [toRun EXCEPT ![l] = <<>>]
  /\ at' = [at EXCEPT ![l] = 1]
  /\ where' = [where EXCEPT ![l] = IF quit_[l] THEN "ended" ELSE "poll"]
  /\ UNCHANGED <<serverVars, acceptVars, quit_, activeChannels, holderVars>>

-----------------------------------------------------------------------------
(* The base loop's thread: accepting. *)

(* EventLoopThreadPool::getNextLoop.  Seeded fault: the last loop skipped.  *)
NextLoop == IF Loops = <<>> THEN Base ELSE Loops[next_ + 1]
FaultSkipsLast == IF next_ + 2 >= Len(Loops) THEN 0 ELSE next_ + 1
AdvanceNext == IF next_ + 1 >= Len(Loops) THEN 0 ELSE next_ + 1

(* Socket::acceptConnection: what accept returns, and what is left of the  *)
(* backlog.  It fails when the process has no descriptor to spare, and the *)
(* peer keeps its place, or when the peer has given up.                    *)
AcceptConnection(open, left) ==
  \/ open /\ left = backlog - 1
  \/ /\ "accept" \in Faults
     /\ ~open
     /\ left \in {backlog - 1, backlog}
     /\ nextConnectionId_ + left < MaxConns    \* Bound

(* Acceptor::handleRead, which does not look at what accept returned, and  *)
(* newConnetion up to connectionEstablish's call of enableReading: nobody  *)
(* else can see the connection before.                                     *)
NewConnetion ==
  /\ where[Base] = "dispatch"
  /\ Acceptor \in activeChannels[Base]
  /\ activeChannels' = [activeChannels EXCEPT ![Base] = @ \ {Acceptor}]
  /\ \E open \in BOOLEAN :
       /\ AcceptConnection(open, backlog')
       /\ conn' = [conn EXCEPT ![nextConnectionId_] = NewConnection(NextLoop, open)]
  /\ connections_' = connections_ \cup {nextConnectionId_}
  /\ nextConnectionId_' = nextConnectionId_ + 1
  /\ next_' = AdvanceNext
  /\ where' = [where EXCEPT ![Base] = "enableReading"]
  /\ UNCHANGED <<sock, pendingFunctors_, failed, quit_, toRun, at, holderVars>>

(* connectionEstablish: each step writes one thing and goes on to the next. *)
Establish(stage, next, k) ==
  /\ where[Base] = stage
  /\ conn' = [conn EXCEPT ![Newest] = k]
  /\ where' = [where EXCEPT ![Base] = next]
  /\ UNCHANGED <<sock, connections_, pendingFunctors_, failed, acceptVars,
                 quit_, activeChannels, toRun, at, calls>>

EnableReading ==
  /\ Establish("enableReading", "set_index",
               EpollAdd([conn[Newest] EXCEPT !.events_ = @ \cup {"in"}]))
  /\ UNCHANGED holder

SetIndex ==
  /\ Establish("set_index", "kConnected",
               [conn[Newest] EXCEPT !.index_ = "kAdded"])
  /\ UNCHANGED holder

SetConnected ==
  /\ Establish("kConnected", "connectionCallback_",
               [conn[Newest] EXCEPT !.state_ = "kConnected"])
  /\ UNCHANGED holder

(* The program's connection callback gives an established connection its   *)
(* context (HttpServer::onConnection), and may hand it to another thread.  *)
ConnectionCallback ==
  /\ Establish("connectionCallback_", "dispatch",
               [conn[Newest] EXCEPT !.context_ = @ \/ conn[Newest].state_ = "kConnected"])
  /\ \/ UNCHANGED holder
     \/ MaxCalls > 0 /\ holder' = [holder EXCEPT ![Newest] = "idle"]

-----------------------------------------------------------------------------
(* The beginning and the end. *)

(* TcpServer::start on the base loop's thread, before loop(): the acceptor *)
(* listens, and each thread of the pool is started and its loop waited for *)
(* (module EventLoopThread shows that startLoop returns a live loop).      *)
Start ==
  /\ where[Base] = "start"
  /\ where' = [l \in AllLoops |-> "poll"]
  /\ UNCHANGED <<serverVars, acceptVars, quit_, activeChannels, toRun, at,
                 holderVars>>

Listening == where[Base] \notin {"start", "destroyed"}

StopLoop(l) ==
  /\ ~quit_[l]
  /\ quit_' = [quit_ EXCEPT ![l] = TRUE]
  /\ UNCHANGED <<serverVars, acceptVars, where, activeChannels, toRun, at,
                 holderVars>>

(* The program stops the base loop, from any thread ...                    *)
StopBase ==
  /\ "shutdown" \in Faults
  /\ where[Base] # "start"
  /\ StopLoop(Base)

(* ... and destroys the server once loop() has returned.  Seeded fault:    *)
(* connections_ not dropped.                                               *)
FaultMapKept ==
  /\ where[Base] = "ended"
  /\ where' = [where EXCEPT ![Base] = "joining"]
  /\ UNCHANGED <<serverVars, acceptVars, quit_, activeChannels, toRun, at,
                 holderVars>>

(* ~TcpServer drops connections_ first ...                                 *)
DestroyServer ==
  /\ where[Base] = "ended"
  /\ where' = [where EXCEPT ![Base] = "joining"]
  /\ connections_' = {}
  /\ UNCHANGED <<conn, sock, pendingFunctors_, failed, acceptVars, quit_,
                 activeChannels, toRun, at, holderVars>>

(* ... then the pool, whose threads are stopped and joined one by one.     *)
Joined(i) == \A j \in 1..(i - 1) : where[Loops[j]] = "destroyed"
StopPoolLoop(i) ==
  /\ where[Base] = "joining"
  /\ Joined(i)
  /\ StopLoop(Loops[i])

(* A loop of the pool dies when its thread's loop() has returned, the base *)
(* loop after the server.  The functors still queued go with it.  Seeded   *)
(* fault: the base loop gone before the pool's threads are joined.         *)
FaultNotJoined(l) == where[l] = (IF l = Base THEN "joining" ELSE "ended")
MayDestroy(l) ==
  IF l = Base THEN where[l] = "joining" /\ Joined(Len(Loops) + 1)
              ELSE where[l] = "ended"

DestroyLoop(l) ==
  /\ MayDestroy(l)
  /\ where' = [where EXCEPT ![l] = "destroyed"]
  /\ pendingFunctors_' = [pendingFunctors_ EXCEPT ![l] = <<>>]
  /\ UNCHANGED <<conn, sock, connections_, failed, acceptVars, quit_,
                 activeChannels, toRun, at, holderVars>>

-----------------------------------------------------------------------------
(* A thread of the program that holds a connection.  send and              *)
(* closeConnection read state_ and then queue a functor.                   *)

BeginCall(c, call) ==
  /\ holder[c] = "idle"
  /\ calls[c] < MaxCalls
  /\ conn[c].state_ \in (IF call = "send" THEN {"kConnected"}
                                          ELSE {"kConnected", "kConnecting"})
  /\ holder' = [holder EXCEPT ![c] = call]
  /\ calls' = [calls EXCEPT ![c] = @ + 1]
  /\ UNCHANGED <<serverVars, acceptVars, loopVars>>

EndCall(c) ==
  /\ holder[c] \in {"send", "closeConnection"}
  /\ Becomes(QueueInLoop(state, conn[c].loop,
               IF holder[c] = "send" THEN "sendInLoop" ELSE "closeConnectionInLoop",
               c))
  /\ holder' = [holder EXCEPT ![c] = "idle"]
  /\ UNCHANGED <<acceptVars, loopVars, calls>>

Drop(c) ==
  /\ holder[c] = "idle"
  /\ holder' = [holder EXCEPT ![c] = "none"]
  /\ UNCHANGED <<serverVars, acceptVars, loopVars, calls>>

-----------------------------------------------------------------------------
(* The peers. *)

PeerConnects ==
  /\ Listening
  /\ nextConnectionId_ + backlog < MaxConns
  /\ backlog' = backlog + 1
  /\ UNCHANGED <<serverVars, nextConnectionId_, next_, loopVars, holderVars>>

(* Bytes, a FIN or a reset arrive, or the peer makes room by reading.      *)
PeerActs(c, s) ==
  /\ Created(c) /\ ~Destroyed(c)
  /\ Writable(state, c)
  /\ sock' = [sock EXCEPT ![c] = s]
  /\ UNCHANGED <<conn, connections_, pendingFunctors_, failed, acceptVars,
                 loopVars, holderVars>>

PeerSends(c) ==
  /\ ~sock[c].fin
  /\ sock[c].inputs < MaxInputs
  /\ PeerActs(c, [sock[c] EXCEPT !.unread = TRUE, !.inputs = @ + 1])

PeerCloses(c) == ~sock[c].fin /\ PeerActs(c, [sock[c] EXCEPT !.fin = TRUE])

PeerResets(c) == "reset" \in Faults /\ PeerActs(c, [sock[c] EXCEPT !.rst = TRUE])

PeerReads(c) ==
  sock[c].sending # <<>> /\ PeerActs(c, [sock[c] EXCEPT !.sending = <<>>])

-----------------------------------------------------------------------------
LoopStep(l) ==
  \/ Poll(l)
  \/ \E c \in Conns : HandleEvent(l, c)
  \/ DoPendingFunctors(l)
  \/ RunNext(l)
  \/ FinishFunctors(l)
  \/ DestroyLoop(l)

BaseStep ==
  \/ Start
  \/ NewConnetion
  \/ EnableReading
  \/ SetIndex
  \/ SetConnected
  \/ ConnectionCallback
  \/ DestroyServer
  \/ \E i \in 1..Len(Loops) : StopPoolLoop(i)

HolderStep(c) ==
  \/ \E call \in {"send", "closeConnection"} : BeginCall(c, call)
  \/ EndCall(c)
  \/ Drop(c)

PeerStep(c) ==
  \/ PeerSends(c)
  \/ PeerCloses(c)
  \/ PeerResets(c)
  \/ PeerReads(c)

(* A failed assertion ends the process. *)
Next ==
  /\ ~failed
  /\ \/ \E l \in AllLoops : LoopStep(l)
     \/ BaseStep
     \/ StopBase
     \/ PeerConnects
     \/ \E c \in Conns : HolderStep(c) \/ PeerStep(c)

(* Every loop's thread runs; the peers read what they are sent, and the    *)
(* threads that hold connections finish their calls and let go of them.    *)
Fairness ==
  /\ \A l \in PoolLoops : WF_vars(~failed /\ LoopStep(l))
  /\ WF_vars(~failed /\ (LoopStep(Base) \/ BaseStep))
  /\ WF_vars(~failed /\ \E c \in Conns : PeerReads(c))
  /\ WF_vars(~failed /\ \E c \in Conns : EndCall(c) \/ Drop(c))

Spec == Init /\ [][Next]_vars /\ Fairness

-----------------------------------------------------------------------------
(* Properties. *)

(* The functors of a connection that are still to run.                     *)
Due(queue, from, c, ops) ==
  {i \in from..Len(queue) : queue[i].conn = c /\ queue[i].op \in ops}

Places(c, ops) ==
  UNION {{<<l, "pending", i>> : i \in Due(pendingFunctors_[l], 1, c, ops)}
           \cup {<<l, "toRun", i>> : i \in Due(toRun[l], at[l], c, ops)} : l \in AllLoops}

Waiting(c, ops) == Cardinality(Places(c, ops))

(* The assertions of removeConnectionInLoop and                            *)
(* removeConnectionFromMapInLoop: what a loop removes is in the map.       *)
AssertionsHold == ~failed

(* Channel.h: "channel's owner is tied to it, ensure the owner not die     *)
(* when run EventHandle".  handleEvent is called on a channel, and reads   *)
(* its tie_, only while the connection that owns it exists.                *)
OwnerOutlivesEvents ==
  \A l \in AllLoops : \A c \in activeChannels[l] \cap Conns : ~Destroyed(c)

(* A connection is removed from the map once, and its channel destroyed    *)
(* once, whichever of its loop and the base loop runs ahead of the other.  *)
TeardownOnce ==
  \A c \in Conns : Created(c) =>
    LET removals == Waiting(c, Removals)
        destroys == Waiting(c, {"connectionDestroyed"})
    IN  /\ c \in connections_ =>
             /\ destroys = 0
             /\ removals = (IF conn[c].state_ = "kDisconnected" THEN 1 ELSE 0)
        /\ c \notin connections_ =>
             /\ conn[c].state_ = "kDisconnected"
             /\ removals = 0
             /\ destroys = (IF conn[c].index_ = "kAdded" THEN 1 ELSE 0)

(* Output waiting in outBuffer_ will be written: EPOLLOUT is in the        *)
(* kernel's interest, whatever the base thread did to the channel.  And a  *)
(* close put off until the output is gone is put off only while there is   *)
(* some (sendInLoop, handleWrite, closeConnectionInLoop).                  *)
OutputArmed ==
  \A c \in Conns :
    LET k == conn[c]
    IN  /\ k.state_ \in {"kConnected", "kDisconnecting"} /\ Readable(k.outBuffer_) > 0 =>
             k.writing_ /\ k.added /\ "out" \in k.interest
        /\ k.state_ = "kDisconnecting" => Readable(k.outBuffer_) > 0

(* A connection that is open is watched for input, whatever its loop did   *)
(* to the channel while the base thread was still registering it and       *)
(* however often writing was switched on and off; and once newConnetion    *)
(* returned it has its context.  (One that accept gave no descriptor is    *)
(* not watched: it stays in the map until the server goes, unless the      *)
(* program closes it.)                                                     *)
OpenIsServed ==
  \A c \in connections_ :
    /\ conn[c].open /\ conn[c].state_ \in {"kConnected", "kDisconnecting"} =>
         conn[c].added /\ "in" \in conn[c].interest /\ conn[c].index_ = "kAdded"
    /\ conn[c].state_ = "kConnected" /\ ~(where[Base] \in Establishing /\ c = Newest) =>
         conn[c].context_

(* The pool's loops are dealt connections in turn: no two of them differ   *)
(* by more than one (getNextLoop).                                         *)
LoadBalanced ==
  \A l, m \in PoolLoops :
    Cardinality({c \in Conns : Created(c) /\ conn[c].loop = l})
      <= Cardinality({c \in Conns : Created(c) /\ conn[c].loop = m}) + 1

Taken(c) == sock[c].unread /\ ~sock'[c].unread

(* No input is handed to the program after the connection was closed.      *)
NoInputAfterClose ==
  [][\A c \in Conns : Taken(c) => conn[c].state_ # "kDisconnected"]_vars

(* What a connection is to the program.                                    *)
Life(c) == IF ~Created(c) THEN "none"
           ELSE IF Destroyed(c) THEN "gone"
           ELSE IF conn[c].state_ = "kDisconnected" THEN "closed" ELSE "open"

Connection == INSTANCE ConnectionLife WITH
  life <- [c \in Conns |-> Life(c)],
  unread <- {c \in Conns : sock[c].unread}

(* Whatever the base loop, the connection's loop and the peer do to it, a  *)
(* connection lives the life of ConnectionLife: open, closed once, freed   *)
(* after that; and it does move on: input is handed over or the connection *)
(* closed, a closed connection is freed.                                   *)
ImplementsLife == Connection!Spec

(* A peer that closes gets its connection closed and destroyed.            *)
FinEndsConnection == \A c \in Conns : sock[c].fin ~> Destroyed(c)

(* closeConnection ends the connection, after its output is written.  (One *)
(* whose functor runs while state_ is still kConnecting does nothing:      *)
(* handleClose ignores that state.)                                        *)
CloseEndsConnection ==
  \A c \in Conns :
    (conn[c].state_ = "kConnected" /\ Waiting(c, {"closeConnectionInLoop"}) > 0)
      ~> Destroyed(c)

(* When the base loop is gone no connection is left: those of the map,     *)
(* those of functors that were never run and those accept gave no          *)
(* descriptor are all freed (~TcpServer, ~EventLoop).                      *)
NothingLeaks == where[Base] = "destroyed" => \A c \in Conns : ~Held(c)

(* The loops die in an order in which no loop hands work to a dead one.    *)
NoWorkForDeadLoops ==
  [][\A l \in AllLoops :
       Len(pendingFunctors_'[l]) > Len(pendingFunctors_[l]) =>
         where[l] # "destroyed"]_vars

(* Stopping the base loop ends the program: the pool's threads, busy or    *)
(* idle, are joined (loop, stop, ~EventLoopThread).  (Unless an assertion  *)
(* ends it first.)                                                         *)
ShutdownEnds == quit_[Base] ~> (where[Base] = "destroyed" \/ failed)
=============================================================================
