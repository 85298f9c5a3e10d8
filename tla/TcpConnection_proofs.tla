-------------------------- MODULE TcpConnection_proofs --------------------------
(***************************************************************************)
(* What the handlers and functors of a connection do to a server, whatever *)
(* its connections, loops and messages are: its state stays well typed,    *)
(* and no other connection is touched.                                     *)
(***************************************************************************)
EXTENDS TcpConnection, TLAPS

(* A channel's operations keep a connection well typed.                    *)
LEMMA ChannelTyped ==
  ASSUME NEW L, NEW B, NEW k \in Connections(L, B)
  PROVE  /\ EnableWriting(k) \in Connections(L, B)
         /\ DisableWriting(k) \in Connections(L, B)
         /\ DisableAll(k) \in Connections(L, B)
         /\ Remove(k) \in Connections(L, B)
<1>1. ASSUME NEW j \in Connections(L, B)
      PROVE  UpDateChannel(j) \in Connections(L, B)
  BY DEF Connections, UpDateChannel, EpollAdd, EpollMod
<1>2. ASSUME NEW j \in Connections(L, B), NEW events \in SUBSET Event, NEW writing \in BOOLEAN
      PROVE  /\ [j EXCEPT !.events_ = events] \in Connections(L, B)
             /\ [j EXCEPT !.writing_ = writing] \in Connections(L, B)
             /\ [j EXCEPT !.writing_ = writing, !.events_ = events] \in Connections(L, B)
  BY DEF Connections
<1>3. \A j \in Connections(L, B) : j.events_ \in SUBSET Event /\ j.events_ \cup {"out"} \in SUBSET Event
  BY DEF Connections, Event
<1>4. ASSUME NEW j \in Connections(L, B)
      PROVE  DisableAll(j) \in Connections(L, B)
  BY <1>1, <1>2 DEF DisableAll
<1>5. ASSUME NEW j \in Connections(L, B)
      PROVE  RemoveChannel(j) \in Connections(L, B)
  BY DEF Connections, RemoveChannel, EpollDel
<1>6. EnableWriting(k) \in Connections(L, B) /\ DisableWriting(k) \in Connections(L, B)
  BY <1>1, <1>2, <1>3 DEF EnableWriting, DisableWriting
<1> QED
  BY <1>4, <1>5, <1>6 DEF Remove

(* What nobody changes once a connection is made.                          *)
Alike(j, k) == j.loop = k.loop /\ j.open = k.open /\ j.context_ = k.context_

LEMMA ChannelAlike ==
  ASSUME NEW L, NEW B, NEW k \in Connections(L, B)
  PROVE  /\ Alike(EnableWriting(k), k)
         /\ Alike(DisableWriting(k), k)
         /\ Alike(DisableAll(k), k)
         /\ Alike(Remove(k), k)
BY DEF Connections, EnableWriting, DisableAll, DisableWriting, Remove,
       RemoveChannel, EpollDel, UpDateChannel, EpollAdd, EpollMod, Event, Alike

LEMMA StateTyped ==
  ASSUME NEW L, NEW B, NEW k \in Connections(L, B), NEW s \in State
  PROVE  /\ [k EXCEPT !.state_ = s] \in Connections(L, B)
         /\ Alike([k EXCEPT !.state_ = s], k)
BY DEF Connections, Alike

LEMMA NewTyped ==
  ASSUME NEW L, NEW B, NEW loop \in L, NEW open \in BOOLEAN
  PROVE  /\ NewConnection(loop, open) \in Connections(L, B)
         /\ NewSocket \in Sockets(B)
<1>1. <<>> \in Seq(OrNul(B)) /\ Len(<<>>) = 0
  OBVIOUS
<1>2. EmptyQueue \in Queues(B)
  BY <1>1, InitSizeAssumption DEF EmptyQueue, Queues
<1> QED
  BY <1>1, <1>2, SendRoomAssumption
  DEF NewConnection, NewSocket, Connections, Sockets, State, Event

-----------------------------------------------------------------------------
(* q is the queue p of loop l with functors of c behind, each in the loop  *)
(* that is to run it.                                                      *)
Extends(p, q, l, own, c) ==
  /\ Len(q) >= Len(p)
  /\ \A i \in 1..Len(p) : q[i] = p[i]
  /\ \A i \in 1..Len(q) : i > Len(p) =>
       /\ q[i].conn = c
       /\ l = (IF q[i].op \in Removals THEN Base ELSE own)

(* From w to v only connection c was worked on.                            *)
Touches(C, L, w, v, c) ==
  /\ \A d \in C \ {c} : v.conn[d] = w.conn[d] /\ v.sock[d] = w.sock[d]
  /\ Alike(v.conn[c], w.conn[c])
  /\ v.sock[c].fin = w.sock[c].fin
  /\ v.sock[c].rst = w.sock[c].rst
  /\ v.sock[c].inputs = w.sock[c].inputs
  /\ v.connections_ \in {w.connections_, w.connections_ \ {c}}
  /\ \A l \in L :
       Extends(w.pendingFunctors_[l], v.pendingFunctors_[l], l, w.conn[c].loop, c)
  /\ w.failed => v.failed

Works(C, L, B, w, v, c) == v \in Servers(C, L, B) /\ Touches(C, L, w, v, c)

(* A handler may be one after another.                                     *)
LEMMA WorksTransitive ==
  ASSUME NEW C, NEW L, NEW B, NEW u \in Servers(C, L, B), NEW v, NEW w, NEW c \in C,
         Works(C, L, B, u, v, c), Works(C, L, B, v, w, c)
  PROVE  Works(C, L, B, u, w, c)
<1>1. \A l \in L : /\ u.pendingFunctors_[l] \in Seq(Functors(C))
                   /\ v.pendingFunctors_[l] \in Seq(Functors(C))
                   /\ w.pendingFunctors_[l] \in Seq(Functors(C))
  BY DEF Works, Servers
<1>2. v.conn[c].loop = u.conn[c].loop
  BY DEF Works, Touches, Alike
<1>3. ASSUME NEW l \in L
      PROVE  Extends(u.pendingFunctors_[l], w.pendingFunctors_[l], l, u.conn[c].loop, c)
  <2> DEFINE p == u.pendingFunctors_[l]
             q == v.pendingFunctors_[l]
             r == w.pendingFunctors_[l]
             own == u.conn[c].loop
  <2>1. Extends(p, q, l, own, c) /\ Extends(q, r, l, own, c)
    BY <1>2 DEF Works, Touches
  <2>2. Len(p) \in Nat /\ Len(q) \in Nat /\ Len(r) \in Nat
    BY <1>1
  <2> HIDE DEF p, q, r, own
  <2>3. Extends(p, r, l, own, c)
    BY <2>1, <2>2 DEF Extends
  <2> QED
    BY <2>3 DEF p, r, own
<1> QED
  BY <1>3 DEF Works, Touches, Alike

LEMMA WorksReflexive ==
  ASSUME NEW C, NEW L, NEW B, NEW w \in Servers(C, L, B), NEW c \in C
  PROVE  Works(C, L, B, w, w, c)
<1>1. ASSUME NEW l \in L
      PROVE  Extends(w.pendingFunctors_[l], w.pendingFunctors_[l], l, w.conn[c].loop, c)
  <2>1. Len(w.pendingFunctors_[l]) \in Nat
    BY DEF Servers
  <2> QED
    BY <2>1 DEF Extends
<1> QED
  BY <1>1 DEF Works, Touches, Alike

-----------------------------------------------------------------------------
(* The changes handlers are made of. *)

(* A connection's members.                                                 *)
LEMMA PutConnection ==
  ASSUME NEW C, NEW L, NEW B, NEW w \in Servers(C, L, B), NEW c \in C,
         NEW k \in Connections(L, B), Alike(k, w.conn[c])
  PROVE  LET v == [w EXCEPT !.conn[c] = k]
         IN  /\ Works(C, L, B, w, v, c)
             /\ v.conn = [w.conn EXCEPT ![c] = k] /\ v.conn[c] = k
             /\ v.sock = w.sock
             /\ v.connections_ = w.connections_
             /\ v.pendingFunctors_ = w.pendingFunctors_
             /\ v.failed = w.failed
<1> DEFINE f == [w.conn EXCEPT ![c] = k]
           v == [w EXCEPT !.conn = f]
<1>1. f \in [C -> Connections(L, B)] /\ f[c] = k /\ \A d \in C \ {c} : f[d] = w.conn[d]
  BY DEF Servers
<1> HIDE DEF f
<1>2. /\ v \in Servers(C, L, B)
      /\ v.conn = f
      /\ v.sock = w.sock
      /\ v.connections_ = w.connections_
      /\ v.pendingFunctors_ = w.pendingFunctors_
      /\ v.failed = w.failed
  BY <1>1 DEF Servers
<1>3. Works(C, L, B, w, w, c)
  BY WorksReflexive
<1>4. Works(C, L, B, w, v, c)
  BY <1>1, <1>2, <1>3 DEF Works, Touches, Alike
<1> QED
  BY <1>1, <1>2, <1>4 DEF f

(* The kernel's side of it.                                                *)
LEMMA PutSocket ==
  ASSUME NEW C, NEW L, NEW B, NEW w \in Servers(C, L, B), NEW c \in C,
         NEW s \in Sockets(B), s.fin = w.sock[c].fin, s.rst = w.sock[c].rst,
         s.inputs = w.sock[c].inputs
  PROVE  LET v == [w EXCEPT !.sock[c] = s]
         IN  /\ Works(C, L, B, w, v, c)
             /\ v.conn = w.conn
             /\ v.sock = [w.sock EXCEPT ![c] = s] /\ v.sock[c] = s
             /\ v.connections_ = w.connections_
             /\ v.pendingFunctors_ = w.pendingFunctors_
             /\ v.failed = w.failed
<1> DEFINE f == [w.sock EXCEPT ![c] = s]
           v == [w EXCEPT !.sock = f]
<1>1. f \in [C -> Sockets(B)] /\ f[c] = s /\ \A d \in C \ {c} : f[d] = w.sock[d]
  BY DEF Servers
<1> HIDE DEF f
<1>2. /\ v \in Servers(C, L, B)
      /\ v.conn = w.conn
      /\ v.sock = f
      /\ v.connections_ = w.connections_
      /\ v.pendingFunctors_ = w.pendingFunctors_
      /\ v.failed = w.failed
  BY <1>1 DEF Servers
<1>3. Works(C, L, B, w, w, c)
  BY WorksReflexive
<1>4. Works(C, L, B, w, v, c)
  BY <1>1, <1>2, <1>3 DEF Works, Touches, Alike
<1> QED
  BY <1>1, <1>2, <1>4 DEF f

(* A functor for the connection, queued in the loop that runs its kind.    *)
LEMMA QueueWorks ==
  ASSUME NEW C, NEW L, NEW B, NEW w \in Servers(C, L, B), NEW c \in C,
         NEW op \in Ops, NEW l \in L,
         l = (IF op \in Removals THEN Base ELSE w.conn[c].loop)
  PROVE  LET v == QueueInLoop(w, l, op, c)
         IN  /\ Works(C, L, B, w, v, c)
             /\ v.conn = w.conn
             /\ v.sock = w.sock
             /\ v.connections_ = w.connections_
             /\ v.pendingFunctors_ =
                  [w.pendingFunctors_ EXCEPT ![l] = Append(@, [op |-> op, conn |-> c])]
             /\ v.failed = w.failed
<1> DEFINE F == Functors(C)
           f == [op |-> op, conn |-> c]
           p == w.pendingFunctors_[l]
           q == Append(p, f)
           pf == [w.pendingFunctors_ EXCEPT ![l] = q]
           v == [w EXCEPT !.pendingFunctors_ = pf]
<1>1. f \in F /\ f.op = op /\ f.conn = c
  BY DEF Functors
<1>2. w.pendingFunctors_ \in [L -> Seq(F)] /\ p \in Seq(F)
  BY DEF Servers
<1> HIDE DEF F, f
<1>3. /\ q \in Seq(F)
      /\ Len(q) = Len(p) + 1 /\ Len(p) \in Nat
      /\ \A i \in 1..Len(p) : q[i] = p[i]
      /\ q[Len(p) + 1] = f
  BY <1>1, <1>2
<1> HIDE DEF p, q
<1>4. Extends(p, q, l, w.conn[c].loop, c)
  <2>1. \A i \in 1..Len(q) : i > Len(p) => i = Len(p) + 1
    BY <1>3
  <2> QED
    BY <1>1, <1>3, <2>1 DEF Extends
<1>5. pf \in [L -> Seq(F)] /\ pf[l] = q /\ \A m \in L \ {l} : pf[m] = w.pendingFunctors_[m]
  BY <1>2, <1>3
<1> HIDE DEF pf
<1>6. /\ v \in Servers(C, L, B)
      /\ v.conn = w.conn
      /\ v.sock = w.sock
      /\ v.connections_ = w.connections_
      /\ v.pendingFunctors_ = pf
      /\ v.failed = w.failed
  BY <1>5 DEF Servers, F
<1>7. Works(C, L, B, w, w, c)
  BY WorksReflexive
<1>8. ASSUME NEW m \in L
      PROVE  Extends(w.pendingFunctors_[m], pf[m], m, w.conn[c].loop, c)
  BY <1>4, <1>5, <1>7 DEF Works, Touches, p
<1>9. Works(C, L, B, w, v, c)
  BY <1>6, <1>7, <1>8 DEF Works, Touches
<1>10. v = QueueInLoop(w, l, op, c)
  BY DEF QueueInLoop, pf, q, p, f
<1> QED
  BY <1>6, <1>9, <1>10 DEF pf, q, p, f

(* An entry of the map.                                                    *)
LEMMA EraseWorks ==
  ASSUME NEW C, NEW L, NEW B, NEW w \in Servers(C, L, B), NEW c \in C
  PROVE  LET v == [w EXCEPT !.connections_ = @ \ {c}]
         IN  /\ Works(C, L, B, w, v, c)
             /\ v.conn = w.conn
             /\ v.sock = w.sock
             /\ v.connections_ = w.connections_ \ {c}
             /\ v.pendingFunctors_ = w.pendingFunctors_
             /\ v.failed = w.failed
<1> DEFINE v == [w EXCEPT !.connections_ = @ \ {c}]
<1>1. /\ v \in Servers(C, L, B)
      /\ v.conn = w.conn
      /\ v.sock = w.sock
      /\ v.connections_ = w.connections_ \ {c}
      /\ v.pendingFunctors_ = w.pendingFunctors_
      /\ v.failed = w.failed
  BY DEF Servers
<1>2. Works(C, L, B, w, w, c)
  BY WorksReflexive
<1> QED
  BY <1>1, <1>2 DEF Works, Touches, Alike

LEMMA FailWorks ==
  ASSUME NEW C, NEW L, NEW B, NEW w \in Servers(C, L, B), NEW c \in C
  PROVE  Works(C, L, B, w, [w EXCEPT !.failed = TRUE], c)
<1> DEFINE v == [w EXCEPT !.failed = TRUE]
<1>1. /\ v \in Servers(C, L, B)
      /\ v.conn = w.conn
      /\ v.sock = w.sock
      /\ v.connections_ = w.connections_
      /\ v.pendingFunctors_ = w.pendingFunctors_
      /\ v.failed
  BY DEF Servers
<1>2. Works(C, L, B, w, w, c)
  BY WorksReflexive
<1> QED
  BY <1>1, <1>2 DEF Works, Touches, Alike

-----------------------------------------------------------------------------
(* TcpServer's removal functions and the handlers that close. *)

LEMMA RemovalWorks ==
  ASSUME NEW C, NEW L, NEW B, NEW w \in Servers(C, L, B), NEW c \in C, Base \in L
  PROVE  /\ Works(C, L, B, w, RemoveConnectionInLoop(w, c), c)
         /\ Works(C, L, B, w, RemoveConnectionFromMapInLoop(w, c), c)
         /\ Works(C, L, B, w, RemoveConnection(w, c), c)
         /\ Works(C, L, B, w, RemoveConnectionFromMap(w, c), c)
<1>1. w.conn[c].loop \in L
  BY DEF Servers, Connections
<1>2. Works(C, L, B, w, RemoveConnectionInLoop(w, c), c)
  <2> DEFINE erased == [w EXCEPT !.connections_ = @ \ {c}]
             v == QueueInLoop(erased, w.conn[c].loop, "connectionDestroyed", c)
  <2>1. Works(C, L, B, w, erased, c) /\ erased.conn = w.conn
    BY EraseWorks
  <2>2. erased \in Servers(C, L, B) /\ erased.conn[c].loop = w.conn[c].loop
    BY <2>1 DEF Works
  <2> HIDE DEF erased
  <2>3. Works(C, L, B, erased, v, c)
    BY <1>1, <2>2, QueueWorks DEF Ops, Removals
  <2>4. Works(C, L, B, w, v, c)
    BY <2>1, <2>3, WorksTransitive
  <2> QED
    BY <2>4, FailWorks DEF RemoveConnectionInLoop, erased
<1>3. Works(C, L, B, w, RemoveConnectionFromMapInLoop(w, c), c)
  BY EraseWorks, FailWorks DEF RemoveConnectionFromMapInLoop
<1>4. /\ Works(C, L, B, w, QueueInLoop(w, Base, "removeConnectionInLoop", c), c)
      /\ Works(C, L, B, w, QueueInLoop(w, Base, "removeConnectionFromMapInLoop", c), c)
  BY QueueWorks DEF Ops, Removals
<1> QED
  BY <1>2, <1>3, <1>4 DEF RemoveConnection, RemoveConnectionFromMap

LEMMA HandleCloseWorks ==
  ASSUME NEW C, NEW L, NEW B, NEW w \in Servers(C, L, B), NEW c \in C, Base \in L
  PROVE  Works(C, L, B, w, HandleClose(w, c), c)
<1> DEFINE j == [w.conn[c] EXCEPT !.state_ = "kDisconnected"]
           k == DisableAll(j)
           closed == [w EXCEPT !.conn[c] = k]
<1>1. j \in Connections(L, B) /\ Alike(j, w.conn[c])
  BY StateTyped DEF Servers, State
<1> HIDE DEF j
<1>2. k \in Connections(L, B) /\ Alike(k, w.conn[c])
  BY <1>1, ChannelTyped, ChannelAlike DEF Alike
<1> HIDE DEF k
<1>3. Works(C, L, B, w, closed, c)
  BY <1>2, PutConnection
<1>4. Works(C, L, B, closed, RemoveConnection(closed, c), c)
  BY <1>3, RemovalWorks DEF Works
<1>5. Works(C, L, B, w, RemoveConnection(closed, c), c)
  BY <1>3, <1>4, WorksTransitive
<1> QED
  BY <1>5, WorksReflexive DEF HandleClose, k, j

LEMMA ConnectionDestroyedWorks ==
  ASSUME NEW C, NEW L, NEW B, NEW w \in Servers(C, L, B), NEW c \in C
  PROVE  Works(C, L, B, w, ConnectionDestroyed(w, c), c)
<1> DEFINE j == [w.conn[c] EXCEPT !.state_ = "kDisconnected"]
           closed == IF w.conn[c].state_ \in {"kConnected", "kDisconnecting"}
                     THEN DisableAll(j) ELSE w.conn[c]
           k == Remove(closed)
<1>1. j \in Connections(L, B) /\ Alike(j, w.conn[c])
  BY StateTyped DEF Servers, State
<1>2. w.conn[c] \in Connections(L, B)
  BY DEF Servers
<1> HIDE DEF j
<1>3. closed \in Connections(L, B) /\ Alike(closed, w.conn[c])
  <2>1. /\ DisableAll(j) \in Connections(L, B)
        /\ Alike(DisableAll(j), w.conn[c])
        /\ Alike(w.conn[c], w.conn[c])
    BY <1>1, ChannelTyped, ChannelAlike DEF Alike
  <2> QED
    BY <1>2, <2>1
<1> HIDE DEF closed
<1>4. k \in Connections(L, B) /\ Alike(k, w.conn[c])
  BY <1>3, ChannelTyped, ChannelAlike DEF Alike
<1> HIDE DEF k
<1>5. Works(C, L, B, w, [w EXCEPT !.conn[c] = k], c)
  BY <1>4, PutConnection
<1> QED
  BY <1>5 DEF ConnectionDestroyed, k, closed, j

LEMMA HandleHupWorks ==
  ASSUME NEW C, NEW L, NEW B, NEW w \in Servers(C, L, B), NEW c \in C, Base \in L
  PROVE  Works(C, L, B, w, HandleHup(w, c), c)
<1> DEFINE v == ConnectionDestroyed(w, c)
<1>1. Works(C, L, B, w, v, c)
  BY ConnectionDestroyedWorks
<1> HIDE DEF v
<1>2. Works(C, L, B, v, RemoveConnectionFromMap(v, c), c)
  BY <1>1, RemovalWorks DEF Works
<1> QED
  BY <1>1, <1>2, WorksTransitive DEF HandleHup, v

LEMMA CloseConnectionWorks ==
  ASSUME NEW C, NEW L, NEW B, NEW w \in Servers(C, L, B), NEW c \in C, Base \in L
  PROVE  /\ Works(C, L, B, w, CloseConnection(w, c), c)
         /\ Works(C, L, B, w, CloseConnectionInLoop(w, c), c)
<1>1. w.conn[c].loop \in L
  BY DEF Servers, Connections
<1>2. Works(C, L, B, w, QueueInLoop(w, w.conn[c].loop, "closeConnectionInLoop", c), c)
  BY <1>1, QueueWorks DEF Ops, Removals
<1> DEFINE k == [w.conn[c] EXCEPT !.state_ = "kDisconnecting"]
<1>3. k \in Connections(L, B) /\ Alike(k, w.conn[c])
  BY StateTyped DEF Servers, State
<1> HIDE DEF k
<1>4. Works(C, L, B, w, [w EXCEPT !.conn[c] = k], c)
  BY <1>3, PutConnection
<1> QED
  BY <1>2, <1>4, WorksReflexive, HandleCloseWorks
  DEF CloseConnection, CloseConnectionInLoop, k

-----------------------------------------------------------------------------
(* The output buffer. *)

LEMMA SeqOrNul ==
  ASSUME NEW B, NEW s \in Seq(B)
  PROVE  s \in Seq(OrNul(B))
BY DEF OrNul

(* A vector that grows keeps the number of its bytes.                      *)
LEMMA MovedTyped ==
  ASSUME NEW B, NEW q \in Queues(B)
  PROVE  Moved(q) \in Seq(OrNul(B)) /\ Len(Moved(q)) = Readable(q)
<1> DEFINE b == q.bytes
<1>1. b \in Seq(OrNul(B)) /\ Nul \in OrNul(B)
  BY DEF Queues, OrNul
<1>2. Len(b) \in Nat /\ DOMAIN b = 1..Len(b) /\ \A i \in DOMAIN b : b[i] \in OrNul(B)
  BY <1>1
<1> HIDE DEF b
<1>3. Moved(q) = [i \in 1..Len(b) |-> IF q.readIndex_ + i <= q.size THEN b[i] ELSE Nul]
  BY <1>2 DEF Moved, b
<1>4. \A i \in 1..Len(b) :
        (IF q.readIndex_ + i <= q.size THEN b[i] ELSE Nul) \in OrNul(B)
  BY <1>1, <1>2
<1> QED
  BY <1>2, <1>3, <1>4 DEF Readable, b

(* append adds its bytes behind as many as there were.                     *)
LEMMA PutTyped ==
  ASSUME NEW B, NEW q \in Queues(B), NEW s \in Seq(OrNul(B))
  PROVE  /\ Put(q, s) \in Queues(B)
         /\ Readable(Put(q, s)) = Readable(q) + Len(s)
<1> DEFINE r == MakeRoom(q, Len(s))
<1>1. /\ q.bytes \in Seq(OrNul(B)) /\ Readable(q) \in Nat /\ Used(q) \in Nat
      /\ Len(s) \in Nat /\ q.readIndex_ \in Nat /\ q.size \in Nat /\ q.capacity \in Nat
  BY DEF Queues, Used, Readable
<1>2. GrownCapacity(q.size, Used(q) + Len(s)) \in Nat /\ Used(q) + Len(s) \in Nat
  BY <1>1 DEF GrownCapacity
<1>3. r \in Queues(B) /\ Readable(r) = Readable(q)
  <2> DEFINE m == Moved(q)
             cap == GrownCapacity(q.size, Used(q) + Len(s))
             n == Used(q) + Len(s)
  <2>1. m \in Seq(OrNul(B)) /\ Len(m) = Readable(q)
    BY MovedTyped
  <2>2. cap \in Nat /\ n \in Nat
    BY <1>2
  <2> HIDE DEF m, cap
  <2>3. [q EXCEPT !.readIndex_ = 0] \in Queues(B)
        /\ Readable([q EXCEPT !.readIndex_ = 0]) = Readable(q)
    BY DEF Queues, Readable
  <2>4. [q EXCEPT !.bytes = m, !.size = n, !.capacity = cap] \in Queues(B)
        /\ Readable([q EXCEPT !.bytes = m, !.size = n, !.capacity = cap]) = Readable(q)
    BY <2>1, <2>2 DEF Queues, Readable
  <2> QED
    BY <2>3, <2>4 DEF MakeRoom, m, cap
<1> HIDE DEF r
<1>4. /\ r.bytes \in Seq(OrNul(B)) /\ r.bytes \o s \in Seq(OrNul(B))
      /\ Len(r.bytes \o s) = Len(r.bytes) + Len(s)
  BY <1>3 DEF Queues
<1> DEFINE b == r.bytes \o s
<1>5. Put(q, s) = [r EXCEPT !.bytes = b]
  BY DEF Put, r
<1> HIDE DEF b
<1>6. [r EXCEPT !.bytes = b] \in Queues(B) /\ [r EXCEPT !.bytes = b].bytes = b
  BY <1>3, <1>4 DEF Queues, b
<1> QED
  BY <1>3, <1>4, <1>5, <1>6 DEF Readable, b

(* retrieve leaves the bytes behind those it took.                         *)
LEMMA TakeTyped ==
  ASSUME NEW B, NEW q \in Queues(B), NEW n \in 0..Readable(q)
  PROVE  /\ Take(q, n) \in Queues(B)
         /\ Take(q, n).bytes = Rest(q.bytes, n)
         /\ Readable(Take(q, n)) = Readable(q) - n
<1> DEFINE b == q.bytes
           rest == Rest(b, n)
<1>1. b \in Seq(OrNul(B)) /\ Len(b) \in Nat /\ n \in 0..Len(b) /\ n \in Nat
  BY DEF Queues, Readable
<1>2. rest \in Seq(OrNul(B)) /\ Len(rest) = Len(b) - n
  <2> HIDE DEF b
  <2> QED
    BY <1>1 DEF Rest
<1>3. rest = SubSeq(b, n + 1, Readable(q))
  BY DEF Rest, Readable
<1>4. n = Readable(q) => rest = <<>>
  <2> HIDE DEF rest
  <2> QED
    BY <1>1, <1>2 DEF Readable
<1> HIDE DEF rest, b
<1>5. q.readIndex_ + n \in Nat
  BY <1>1 DEF Queues
<1>6. /\ [q EXCEPT !.bytes = rest, !.readIndex_ = @ + n] \in Queues(B)
      /\ [q EXCEPT !.bytes = rest, !.readIndex_ = @ + n].bytes = rest
      /\ [q EXCEPT !.bytes = rest, !.readIndex_ = 0] \in Queues(B)
      /\ [q EXCEPT !.bytes = rest, !.readIndex_ = 0].bytes = rest
  BY <1>2, <1>5 DEF Queues
<1>7. Take(q, n) = IF n = Readable(q) THEN [q EXCEPT !.bytes = rest, !.readIndex_ = 0]
                   ELSE [q EXCEPT !.bytes = rest, !.readIndex_ = @ + n]
  BY <1>3, <1>4 DEF Take, b
<1>8. Take(q, n) \in Queues(B) /\ Take(q, n).bytes = rest
  BY <1>6, <1>7
<1> QED
  BY <1>2, <1>8 DEF Readable, rest, b

-----------------------------------------------------------------------------
(* Reading and writing. *)

LEMMA WrittenWorks ==
  ASSUME NEW C, NEW L, NEW B, NEW w \in Servers(C, L, B), NEW c \in C,
         NEW data \in Seq(OrNul(B)), NEW n \in 0..Fits(w, c, data)
  PROVE  LET v == Written(w, c, data, n)
         IN  /\ Works(C, L, B, w, v, c)
             /\ v.conn = w.conn
             /\ v.connections_ = w.connections_
             /\ v.pendingFunctors_ = w.pendingFunctors_
             /\ v.failed = w.failed
             /\ v.sock[c].unread = w.sock[c].unread
<1> DEFINE s == w.sock[c]
           t == s.sending \o SubSeq(data, 1, n)
           r == [s EXCEPT !.sending = t]
<1>1. s \in Sockets(B) /\ s.sending \in Seq(OrNul(B)) /\ Len(s.sending) <= SendRoom
  BY DEF Servers, Sockets
<1>2. Len(data) \in Nat /\ Len(s.sending) \in Nat
  BY <1>1
<1>3. n \in Nat /\ n <= Len(data) /\ n <= SendRoom - Len(s.sending)
  BY <1>1, <1>2, SendRoomAssumption DEF Fits, Room
<1> HIDE DEF s
<1>4. SubSeq(data, 1, n) \in Seq(OrNul(B)) /\ Len(SubSeq(data, 1, n)) = n
  BY <1>2, <1>3
<1>5. t \in Seq(OrNul(B)) /\ Len(t) <= SendRoom
  <2> DEFINE u == SubSeq(data, 1, n)
  <2>1. u \in Seq(OrNul(B)) /\ Len(u) = n
    BY <1>4
  <2> HIDE DEF u
  <2>2. s.sending \o u \in Seq(OrNul(B)) /\ Len(s.sending \o u) = Len(s.sending) + n
    BY <1>1, <2>1
  <2>3. Len(s.sending) + n <= SendRoom
    BY <1>2, <1>3, SendRoomAssumption
  <2> QED
    BY <2>2, <2>3 DEF u
<1> HIDE DEF t
<1>6. /\ r \in Sockets(B)
      /\ r.fin = s.fin /\ r.rst = s.rst /\ r.inputs = s.inputs /\ r.unread = s.unread
  BY <1>1, <1>5 DEF Sockets
<1> HIDE DEF r
<1>7. Written(w, c, data, n) = [w EXCEPT !.sock[c] = r]
  BY DEF Written, r, t, s
<1>8. Works(C, L, B, w, [w EXCEPT !.sock[c] = r], c)
  BY <1>6, PutSocket DEF s
<1> QED
  BY <1>6, <1>7, <1>8, PutSocket DEF s

LEMMA RestTyped ==
  ASSUME NEW B, NEW data \in Seq(B), NEW n \in 0..Len(data)
  PROVE  /\ Rest(data, n) \in Seq(B)
         /\ Len(Rest(data, n)) = Len(data) - n
         /\ Rest(data, n) = <<>> <=> n = Len(data)
<1>1. /\ Rest(data, n) \in Seq(B)
      /\ Len(Rest(data, n)) = Len(data) - n
  BY DEF Rest
<1>2. ASSUME NEW q \in Seq(B) PROVE q = <<>> <=> Len(q) = 0
  BY <1>2
<1> HIDE DEF Rest
<1> QED
  BY <1>1, <1>2

(* write takes no more than it is given.                                   *)
LEMMA FitsInRange ==
  ASSUME NEW C, NEW L, NEW B, NEW w \in Servers(C, L, B), NEW c \in C,
         NEW data \in Seq(OrNul(B))
  PROVE  /\ Fits(w, c, data) \in 0..Len(data)
         /\ Fits(w, c, data) \in 0..Fits(w, c, data)
         /\ 0 \in 0..Fits(w, c, data)
<1>1. w.sock[c].sending \in Seq(OrNul(B)) /\ Len(w.sock[c].sending) <= SendRoom
  BY DEF Servers, Sockets
<1>2. Len(data) \in Nat /\ Len(w.sock[c].sending) \in Nat
  BY <1>1
<1> QED
  BY <1>1, <1>2, SendRoomAssumption DEF Fits, Room

LEMMA SendInLoopWorks ==
  ASSUME NEW C, NEW L, NEW B, NEW w \in Servers(C, L, B), NEW c \in C,
         NEW data \in Seq(B)
  PROVE  Works(C, L, B, w, SendInLoop(w, c, data), c)
<1> DEFINE k == w.conn[c]
           direct == ~k.writing_ /\ Readable(k.outBuffer_) = 0 /\ Writable(w, c)
           n == IF direct THEN Fits(w, c, data) ELSE 0
           kept == KeepRest(k, data, n)
           j == IF k.writing_ THEN kept ELSE EnableWriting(kept)
           v == Written(w, c, data, n)
<1>1. k \in Connections(L, B) /\ data \in Seq(OrNul(B))
  BY SeqOrNul DEF Servers
<1>2. Fits(w, c, data) \in 0..Len(data) /\ 0 \in 0..Fits(w, c, data)
  BY <1>1, FitsInRange
<1>3. n \in 0..Len(data) /\ n \in 0..Fits(w, c, data)
  BY <1>2
<1>4. SendInLoop(w, c, data) = IF n = Len(data) THEN v ELSE [v EXCEPT !.conn[c] = j]
  BY DEF SendInLoop
<1> HIDE DEF n, k
<1>5. kept \in Connections(L, B) /\ Alike(kept, k)
  <2> DEFINE out == Put(k.outBuffer_, Rest(data, n))
  <2>1. out \in Queues(B)
    BY <1>1, <1>3, RestTyped, PutTyped DEF Connections
  <2> HIDE DEF out
  <2>2. [k EXCEPT !.outBuffer_ = out] \in Connections(L, B)
        /\ Alike([k EXCEPT !.outBuffer_ = out], k)
    BY <1>1, <2>1 DEF Connections, Alike
  <2> QED
    BY <2>2 DEF KeepRest, out
<1> HIDE DEF kept
<1>6. j \in Connections(L, B) /\ Alike(j, k)
  <2>1. EnableWriting(kept) \in Connections(L, B) /\ Alike(EnableWriting(kept), k)
    BY <1>5, ChannelTyped, ChannelAlike DEF Alike
  <2> QED
    BY <1>5, <2>1
<1> HIDE DEF j
<1>7. Works(C, L, B, w, v, c) /\ v.conn = w.conn
  BY <1>1, <1>3, WrittenWorks
<1> HIDE DEF v
<1>8. Works(C, L, B, v, [v EXCEPT !.conn[c] = j], c)
  BY <1>6, <1>7, PutConnection DEF Works, k
<1> QED
  BY <1>4, <1>7, <1>8, WorksTransitive

LEMMA DrainedWorks ==
  ASSUME NEW C, NEW L, NEW B, NEW w \in Servers(C, L, B), NEW c \in C, Base \in L
  PROVE  Works(C, L, B, w, Drained(w, c), c)
<1> DEFINE k == DisableWriting(w.conn[c])
           done == [w EXCEPT !.conn[c] = k]
<1>1. w.conn[c] \in Connections(L, B)
  BY DEF Servers
<1>2. k \in Connections(L, B) /\ Alike(k, w.conn[c])
  BY <1>1, ChannelTyped, ChannelAlike
<1> HIDE DEF k
<1>3. Works(C, L, B, w, done, c)
  BY <1>2, PutConnection
<1> HIDE DEF done
<1>4. Works(C, L, B, done, HandleClose(done, c), c)
  BY <1>3, HandleCloseWorks DEF Works
<1>5. Works(C, L, B, w, HandleClose(done, c), c)
  BY <1>3, <1>4, WorksTransitive
<1> QED
  BY <1>3, <1>5 DEF Drained, done, k

LEMMA HandleWriteWorks ==
  ASSUME NEW C, NEW L, NEW B, NEW w \in Servers(C, L, B), NEW c \in C, Base \in L
  PROVE  Works(C, L, B, w, HandleWrite(w, c), c)
<1> DEFINE q == w.conn[c].outBuffer_
           out == q.bytes
           n == Fits(w, c, out)
           v == Written(w, c, out, n)
           k == [w.conn[c] EXCEPT !.outBuffer_ = Take(q, n)]
           after == [v EXCEPT !.conn[c] = k]
<1>1. w.conn[c] \in Connections(L, B) /\ q \in Queues(B) /\ out \in Seq(OrNul(B))
  BY DEF Servers, Connections, Queues
<1>2. n \in 0..Len(out) /\ n \in 0..Fits(w, c, out)
  BY <1>1, FitsInRange
<1>3. Take(q, n) \in Queues(B)
  BY <1>1, <1>2, TakeTyped DEF Readable
<1> HIDE DEF n, out, q
<1>4. k \in Connections(L, B) /\ Alike(k, w.conn[c])
  BY <1>1, <1>3 DEF Connections, Alike, q
<1>5. Works(C, L, B, w, v, c) /\ v.conn = w.conn
  BY <1>1, <1>2, WrittenWorks
<1>6. HandleWrite(w, c) = IF ~w.conn[c].writing_ \/ ~Writable(w, c) \/ n = 0 THEN w
                          ELSE IF n < Len(out) THEN after ELSE Drained(after, c)
  <2>1. after = [v EXCEPT !.conn[c].outBuffer_ = Take(@, n)]
    BY <1>5 DEF q
  <2> QED
    BY <2>1 DEF HandleWrite, n, out, q
<1> HIDE DEF v, k
<1>7. Works(C, L, B, v, after, c)
  BY <1>4, <1>5, PutConnection DEF Works
<1>8. Works(C, L, B, w, after, c)
  BY <1>5, <1>7, WorksTransitive
<1> HIDE DEF after
<1>9. Works(C, L, B, after, Drained(after, c), c)
  BY <1>8, DrainedWorks DEF Works
<1>10. Works(C, L, B, w, Drained(after, c), c)
  BY <1>8, <1>9, WorksTransitive
<1> QED
  BY <1>6, <1>8, <1>10, WorksReflexive

LEMMA ReplyWorks ==
  ASSUME NEW C, NEW L, NEW B, NEW w \in Servers(C, L, B), NEW c \in C, Base \in L,
         NEW data \in Seq(B), NEW close
  PROVE  Works(C, L, B, w, Reply(w, c, data, close), c)
<1> DEFINE sent == IF data = <<>> THEN w ELSE Send(w, c, data)
<1>1. Works(C, L, B, w, sent, c)
  BY SendInLoopWorks, WorksReflexive DEF Send
<1> HIDE DEF sent
<1>2. Works(C, L, B, sent, CloseConnection(sent, c), c)
  BY <1>1, CloseConnectionWorks DEF Works
<1>3. Works(C, L, B, w, CloseConnection(sent, c), c)
  BY <1>1, <1>2, WorksTransitive
<1> QED
  BY <1>1, <1>3 DEF Reply, sent

LEMMA HandleReadWorks ==
  ASSUME NEW C, NEW L, NEW B, NEW w \in Servers(C, L, B), NEW c \in C, Base \in L,
         NEW data \in Seq(B), NEW close
  PROVE  Works(C, L, B, w, HandleRead(w, c, data, close), c)
<1> DEFINE s == [w.sock[c] EXCEPT !.unread = FALSE]
           taken == [w EXCEPT !.sock[c] = s]
<1>1. /\ s \in Sockets(B)
      /\ s.fin = w.sock[c].fin /\ s.rst = w.sock[c].rst /\ s.inputs = w.sock[c].inputs
  BY DEF Servers, Sockets
<1> HIDE DEF s
<1>2. Works(C, L, B, w, taken, c)
  BY <1>1, PutSocket
<1> HIDE DEF taken
<1>3. Works(C, L, B, taken, Reply(taken, c, data, close), c)
  BY <1>2, ReplyWorks DEF Works
<1>4. Works(C, L, B, w, Reply(taken, c, data, close), c)
  BY <1>2, <1>3, WorksTransitive
<1>5. MessageCallback(w, c, data, close) = Reply(taken, c, data, close)
  BY DEF MessageCallback, taken, s
<1> QED
  BY <1>4, <1>5, WorksReflexive, HandleCloseWorks DEF HandleRead

(* The whole of a channel's event.                                         *)
LEMMA HandleEventWorks ==
  ASSUME NEW C, NEW L, NEW B, NEW w \in Servers(C, L, B), NEW c \in C, Base \in L,
         NEW data \in Seq(B), NEW close
  PROVE  Works(C, L, B, w, HandleEventWithGuard(w, c, data, close), c)
<1> DEFINE revents == w.conn[c].revents_
           input == IF "hup" \in revents THEN HandleHup(w, c)
                    ELSE IF "in" \in revents THEN HandleRead(w, c, data, close)
                    ELSE w
<1>1. Works(C, L, B, w, input, c)
  BY HandleHupWorks, HandleReadWorks, WorksReflexive
<1> HIDE DEF input
<1>2. Works(C, L, B, input, HandleWrite(input, c), c)
  BY <1>1, HandleWriteWorks DEF Works
<1>3. Works(C, L, B, w, HandleWrite(input, c), c)
  BY <1>1, <1>2, WorksTransitive
<1> QED
  BY <1>1, <1>3 DEF HandleEventWithGuard, input

(* A functor's run.                                                        *)
LEMMA RunFunctorWorks ==
  ASSUME NEW C, NEW L, NEW B, NEW w \in Servers(C, L, B), NEW f \in Functors(C),
         Base \in L, NEW data \in Seq(B)
  PROVE  Works(C, L, B, w, RunFunctor(w, f, data), f.conn)
<1>1. f.conn \in C /\ f.op \in Ops
  BY DEF Functors
<1>2. /\ Works(C, L, B, w, ConnectionDestroyed(w, f.conn), f.conn)
      /\ Works(C, L, B, w, CloseConnectionInLoop(w, f.conn), f.conn)
      /\ Works(C, L, B, w, SendInLoop(w, f.conn, data), f.conn)
      /\ Works(C, L, B, w, RemoveConnectionInLoop(w, f.conn), f.conn)
      /\ Works(C, L, B, w, RemoveConnectionFromMapInLoop(w, f.conn), f.conn)
  BY <1>1, ConnectionDestroyedWorks, CloseConnectionWorks, SendInLoopWorks, RemovalWorks
<1> QED
  BY <1>1, <1>2 DEF RunFunctor, Ops, Removals
=============================================================================
