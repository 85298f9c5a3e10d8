---------------------------- MODULE TcpConnection ----------------------------
(***************************************************************************)
(* The handlers and functors of TcpConnection, with the removal functions  *)
(* of TcpServer they call back.  Each runs on the thread of the            *)
(* connection's loop unless it says otherwise, and is a function from a    *)
(* state of the server to the next.  A state w holds                       *)
(*   conn              the connections, each with the fields of its channel*)
(*   sock              the kernel's side of each connection                *)
(*   connections_      TcpServer's map                                     *)
(*   pendingFunctors_  what is queued in each loop                         *)
(*   failed            an assertion failed                                 *)
(***************************************************************************)
EXTENDS Channel, OutputBuffer

CONSTANTS
  Base,       \* the loop of the acceptor and of connections_
  SendRoom    \* Bound: what the kernel holds of a connection's output

ASSUME SendRoomAssumption == SendRoom \in Nat \ {0}

(* open: accept gave a descriptor, not -1.                                 *)
NewConnection(loop, open) ==
  [state_ |-> "kConnecting", loop |-> loop, outBuffer_ |-> EmptyQueue,
   context_ |-> FALSE, open |-> open,
   events_ |-> {}, revents_ |-> {}, index_ |-> "kNew", writing_ |-> FALSE,
   added |-> FALSE, interest |-> {}]

(* The kernel's side: whether bytes, the end of the input or a reset have  *)
(* arrived, how often bytes have, and the output the peer has not read.    *)
NewSocket ==
  [unread |-> FALSE, fin |-> FALSE, rst |-> FALSE, inputs |-> 0,
   sending |-> <<>>]

State == {"none", "kConnecting", "kConnected", "kDisconnecting", "kDisconnected"}

(* The states of a server: its connections are conns, its loops loops, and *)
(* what it sends are sequences over byte.                                  *)
Connections(loops, byte) ==
  [state_ : State, loop : loops, outBuffer_ : Queues(byte), context_ : BOOLEAN,
   open : BOOLEAN, events_ : SUBSET Event, revents_ : SUBSET (Event \cup {"hup"}),
   index_ : {"kNew", "kAdded"}, writing_ : BOOLEAN, added : BOOLEAN,
   interest : SUBSET Event]

Sockets(byte) ==
  [unread : BOOLEAN, fin : BOOLEAN, rst : BOOLEAN, inputs : Nat,
   sending : {s \in Seq(OrNul(byte)) : Len(s) <= SendRoom}]

Removals == {"removeConnectionInLoop", "removeConnectionFromMapInLoop"}
Ops == {"connectionDestroyed", "closeConnectionInLoop", "sendInLoop"} \cup Removals

Functors(conns) == [op : Ops, conn : conns]

Servers(conns, loops, byte) ==
  [conn : [conns -> Connections(loops, byte)],
   sock : [conns -> Sockets(byte)],
   connections_ : SUBSET conns,
   pendingFunctors_ : [loops -> Seq(Functors(conns))],
   failed : BOOLEAN]

QueueInLoop(w, loop, op, c) ==
  [w EXCEPT !.pendingFunctors_[loop] = Append(@, [op |-> op, conn |-> c])]

-----------------------------------------------------------------------------
(* TcpServer, on the base loop's thread. *)

(* Seeded fault: erased from the map and connectionDestroyed not queued.   *)
FaultEraseOnly(w, c) == [w EXCEPT !.connections_ = @ \ {c}]

RemoveConnectionInLoop(w, c) ==
  IF c \notin w.connections_ THEN [w EXCEPT !.failed = TRUE]
  ELSE QueueInLoop([w EXCEPT !.connections_ = @ \ {c}],
                   w.conn[c].loop, "connectionDestroyed", c)

RemoveConnectionFromMapInLoop(w, c) ==
  IF c \notin w.connections_ THEN [w EXCEPT !.failed = TRUE]
  ELSE [w EXCEPT !.connections_ = @ \ {c}]

(* RunInLoop calls the functor on the spot when the base loop is the       *)
(* connection's own.                                                       *)
RemoveConnection(w, c) ==
  IF w.conn[c].loop = Base
  THEN RemoveConnectionInLoop(w, c)
  ELSE QueueInLoop(w, Base, "removeConnectionInLoop", c)

RemoveConnectionFromMap(w, c) ==
  IF w.conn[c].loop = Base
  THEN RemoveConnectionFromMapInLoop(w, c)
  ELSE QueueInLoop(w, Base, "removeConnectionFromMapInLoop", c)

-----------------------------------------------------------------------------
(* Closing. *)

(* Seeded faults: no guard on state_, and state_ left as it was.           *)
FaultCloseUnguarded(w, c) ==
  RemoveConnection(
    [w EXCEPT !.conn[c] = DisableAll([@ EXCEPT !.state_ = "kDisconnected"])], c)

FaultStateLeft(w, c) ==
  IF w.conn[c].state_ \in {"kDisconnecting", "kConnected"}
  THEN RemoveConnection([w EXCEPT !.conn[c] = DisableAll(@)], c)
  ELSE w

HandleClose(w, c) ==
  IF w.conn[c].state_ \in {"kDisconnecting", "kConnected"}
  THEN RemoveConnection(
         [w EXCEPT !.conn[c] = DisableAll([@ EXCEPT !.state_ = "kDisconnected"])],
         c)
  ELSE w

ConnectionDestroyed(w, c) ==
  LET closed == IF w.conn[c].state_ \in {"kConnected", "kDisconnecting"}
                THEN DisableAll([w.conn[c] EXCEPT !.state_ = "kDisconnected"])
                ELSE w.conn[c]
  IN  [w EXCEPT !.conn[c] = Remove(closed)]

HandleHup(w, c) == RemoveConnectionFromMap(ConnectionDestroyed(w, c), c)

(* Any thread may call closeConnection.                                    *)
CloseConnection(w, c) ==
  IF w.conn[c].state_ \in {"kConnected", "kConnecting"}
  THEN QueueInLoop(w, w.conn[c].loop, "closeConnectionInLoop", c)
  ELSE w

CloseConnectionInLoop(w, c) ==
  IF w.conn[c].state_ \notin {"kConnected", "kConnecting"} THEN w
  ELSE IF w.conn[c].writing_
       THEN [w EXCEPT !.conn[c].state_ = "kDisconnecting"]
       ELSE HandleClose(w, c)

-----------------------------------------------------------------------------
(* Reading and writing.  The descriptor does not block: write takes what   *)
(* there is room for.  On a connection that was reset, or has no           *)
(* descriptor, it fails.                                                   *)

Writable(w, c) == w.conn[c].open /\ ~w.sock[c].rst
Room(w, c) == SendRoom - Len(w.sock[c].sending)
Fits(w, c, data) == IF Len(data) <= Room(w, c) THEN Len(data) ELSE Room(w, c)
Written(w, c, data, n) == [w EXCEPT !.sock[c].sending = @ \o SubSeq(data, 1, n)]
Rest(data, n) == SubSeq(data, n + 1, Len(data))

(* outBuffer_.append(data+wroted, len-wroted).  Seeded fault: the whole    *)
(* message kept when part of it was written.                               *)
FaultKeepWhole(k, data, n) == [k EXCEPT !.outBuffer_ = Put(@, data)]
KeepRest(k, data, n) == [k EXCEPT !.outBuffer_ = Put(@, Rest(data, n))]

SendInLoop(w, c, data) ==
  LET k      == w.conn[c]
      direct == ~k.writing_ /\ Readable(k.outBuffer_) = 0 /\ Writable(w, c)
      n      == IF direct THEN Fits(w, c, data) ELSE 0
      kept   == KeepRest(k, data, n)
  IN  IF n = Len(data) THEN Written(w, c, data, n)
      ELSE [Written(w, c, data, n) EXCEPT
              !.conn[c] = IF k.writing_ THEN kept ELSE EnableWriting(kept)]

(* Seeded fault: the close that waited for the output forgotten.           *)
FaultForgetClose(w, c) == [w EXCEPT !.conn[c] = DisableWriting(@)]

Drained(w, c) ==
  LET done == [w EXCEPT !.conn[c] = DisableWriting(@)]
  IN  IF done.conn[c].state_ = "kDisconnecting" THEN HandleClose(done, c) ELSE done

HandleWrite(w, c) ==
  LET out   == w.conn[c].outBuffer_.bytes
      n     == Fits(w, c, out)
      after == [Written(w, c, out, n) EXCEPT !.conn[c].outBuffer_ = Take(@, n)]
  IN  IF ~w.conn[c].writing_ \/ ~Writable(w, c) \/ n = 0 THEN w
      ELSE IF n < Len(out) THEN after ELSE Drained(after, c)

(* On the loop's thread send is sendInLoop, on an open connection.         *)
Send(w, c, data) ==
  IF w.conn[c].state_ = "kConnected" THEN SendInLoop(w, c, data) ELSE w

(* What a message callback does with the connection: send data, if there   *)
(* is any, and perhaps close.                                              *)
Reply(w, c, data, close) ==
  LET sent == IF data = <<>> THEN w ELSE Send(w, c, data)
  IN  IF close THEN CloseConnection(sent, c) ELSE sent

(* The program's message callback takes the input, and may reply.          *)
MessageCallback(w, c, data, close) ==
  Reply([w EXCEPT !.sock[c].unread = FALSE], c, data, close)

(* Seeded fault: the end of the input ignored.                             *)
FaultIgnoreFin(w, c, data, close) ==
  IF w.sock[c].unread /\ ~w.sock[c].rst THEN MessageCallback(w, c, data, close)
                                        ELSE w

HandleRead(w, c, data, close) ==
  IF w.sock[c].rst THEN w
  ELSE IF w.sock[c].unread THEN MessageCallback(w, c, data, close)
  ELSE IF w.sock[c].fin THEN HandleClose(w, c)
  ELSE w

(* Channel::handleEventWithGuard, on the events epoll_wait reported.       *)
HandleEventWithGuard(w, c, data, close) ==
  LET revents == w.conn[c].revents_
      input == IF "hup" \in revents THEN HandleHup(w, c)
               ELSE IF "in" \in revents THEN HandleRead(w, c, data, close)
               ELSE w
  IN  IF "out" \in revents THEN HandleWrite(input, c) ELSE input

(* A functor taken from a loop's queue.  sendInLoop finds in its caller's  *)
(* memory, of which it has a pointer, the data.                            *)
RunFunctor(w, f, data) ==
  CASE f.op = "connectionDestroyed" -> ConnectionDestroyed(w, f.conn)
    [] f.op = "closeConnectionInLoop" -> CloseConnectionInLoop(w, f.conn)
    [] f.op = "sendInLoop" -> SendInLoop(w, f.conn, data)
    [] f.op = "removeConnectionInLoop" -> RemoveConnectionInLoop(w, f.conn)
    [] f.op = "removeConnectionFromMapInLoop" ->
         RemoveConnectionFromMapInLoop(w, f.conn)
=============================================================================
