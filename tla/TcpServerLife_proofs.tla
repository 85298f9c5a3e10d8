-------------------------- MODULE TcpServerLife_proofs --------------------------
(***************************************************************************)
(* The life of a connection on a server whose peers do not reset: what its *)
(* channel asks for in each state, which of its functors wait where, and   *)
(* so the assertions of the removal functions and a teardown done once.    *)
(***************************************************************************)
EXTENDS TcpServer_proofs

(* Registered, and the kernel asked for what the channel wants: input, and *)
(* output just when there is some.                                         *)
Armed(k) ==
  /\ k.index_ = "kAdded"
  /\ k.added = k.open
  /\ k.interest = (IF k.open THEN k.events_ ELSE {})
  /\ "in" \in k.events_
  /\ k.writing_ <=> "out" \in k.events_
  /\ k.writing_ <=> Readable(k.outBuffer_) > 0

ChannelInv(k) ==
  /\ k.state_ # "none"
  /\ "hup" \notin k.revents_
  /\ k.state_ = "kConnecting" => Readable(k.outBuffer_) = 0 /\ ~k.writing_
  /\ k.state_ \in {"kConnected", "kDisconnecting"} => Armed(k)
  /\ k.state_ = "kDisconnecting" => k.writing_
  /\ k.state_ = "kDisconnected" => "in" \notin k.events_ /\ "in" \notin k.interest

(* In state w, with the vectors t being run from index a[l] on: none of    *)
(* ops waits for c; of loop l's functors at most one does.                 *)
NoneDue(w, t, a, c, ops) ==
  \A l \in AllLoops : /\ Due(w.pendingFunctors_[l], 1, c, ops) = {}
                      /\ Due(t[l], a[l], c, ops) = {}

OneDue(w, t, a, l, c, ops) ==
  LET P == Due(w.pendingFunctors_[l], 1, c, ops)
      Q == Due(t[l], a[l], c, ops)
  IN  /\ \A i, j \in P : i = j
      /\ \A i, j \in Q : i = j
      /\ P = {} \/ Q = {}

(* gone: the server has dropped its map.                                   *)
QueueInv(w, t, a, gone, c) ==
  LET k == w.conn[c]
      mapped == c \in w.connections_ \/ gone
  IN  /\ ~w.failed
      /\ ~w.sock[c].rst
      /\ NoneDue(w, t, a, c, {"removeConnectionFromMapInLoop"})
      /\ OneDue(w, t, a, Base, c, Removals)
      /\ k.state_ # "kDisconnected" =>
           mapped /\ NoneDue(w, t, a, c, Removals \cup {"connectionDestroyed"})
      /\ mapped \/ NoneDue(w, t, a, c, Removals)
      /\ c \in w.connections_ => NoneDue(w, t, a, c, {"connectionDestroyed"})
      /\ k.state_ = "kConnecting" => NoneDue(w, t, a, c, {"sendInLoop"})

Good(w, t, a, gone, c) == ChannelInv(w.conn[c]) /\ QueueInv(w, t, a, gone, c)

(* While newConnetion is at work on k, which h is the holder of.           *)
Early == {"enableReading", "set_index", "kConnected"}

StageAt(k, h, stage) ==
  LET registered == /\ k.added = k.open
                    /\ k.events_ = {"in"}
                    /\ k.interest = (IF k.open THEN {"in"} ELSE {})
  IN  /\ stage \in Early => k.state_ = "kConnecting" /\ h = "none"
      /\ stage = "enableReading" =>
           k.events_ = {} /\ k.index_ = "kNew" /\ ~k.added /\ k.interest = {}
      /\ stage = "set_index" => registered
      /\ stage = "kConnected" => registered /\ k.index_ = "kAdded"

StageInv == StageAt(conn[Newest], holder[Newest], where[Base])

(* Only newConnetion's connection is connecting, or without its context.   *)
NewestInv ==
  \A c \in Conns : Created(c) =>
    /\ conn[c].state_ = "kConnecting" => c = Newest /\ where[Base] \in Early
    /\ conn[c].state_ = "kConnected" =>
         conn[c].context_ \/ (c = Newest /\ where[Base] \in Establishing)

(* Input that was reported is of a connection not closed.                  *)
ReportInv ==
  \A l \in AllLoops : \A c \in activeChannels[l] \cap Conns :
    "in" \in conn[c].revents_ => conn[c].state_ # "kDisconnected"

LifeInv ==
  /\ \A c \in Conns : Created(c) => Good(state, toRun, at, Gone, c)
  /\ \A c \in Conns : ~sock[c].rst
  /\ StageInv
  /\ NewestInv
  /\ ReportInv
  /\ ~failed

(* The teardown of c: one functor at a time, in the loop whose turn it is. *)
(* (Without threads that hold connections, and as long as the server is    *)
(* there.)                                                                 *)
Torn(w, t, a, c) ==
  LET k == w.conn[c]
      gone == {"connectionDestroyed"}
  IN  /\ NoneDue(w, t, a, c, {"sendInLoop"})
      /\ OneDue(w, t, a, k.loop, c, gone)
      /\ k.state_ = "kDisconnected" => ~k.writing_
      /\ k.state_ = "kDisconnected" /\ c \in w.connections_ =>
           k.index_ = "kAdded" /\ ~NoneDue(w, t, a, c, Removals)
      /\ c \notin w.connections_ =>
           (k.index_ = "kAdded" <=> ~NoneDue(w, t, a, c, gone))

TornInv == \A c \in Conns : Created(c) => Torn(state, toRun, at, c)

-----------------------------------------------------------------------------
(* What waits in a queue. *)

LEMMA DueEmpty ==
  ASSUME NEW n, NEW c, NEW ops, n \in Nat, n >= 1
  PROVE  Due(<<>>, n, c, ops) = {}
<1>1. Len(<<>>) = 0
  OBVIOUS
<1> QED
  BY <1>1 DEF Due

LEMMA DueAppend ==
  ASSUME NEW F, NEW s \in Seq(F), NEW f \in F, NEW c, NEW ops
  PROVE  /\ Due(Append(s, f), 1, c, ops) =
              Due(s, 1, c, ops) \cup (IF f.conn = c /\ f.op \in ops THEN {Len(s) + 1} ELSE {})
         /\ Len(s) + 1 \notin Due(s, 1, c, ops)
<1> DEFINE q == Append(s, f)
           n == Len(s)
<1>1. /\ n \in Nat /\ Len(q) = n + 1
      /\ \A i \in 1..n : q[i] = s[i]
      /\ q[n + 1] = f
  OBVIOUS
<1> HIDE DEF q, n
<1>2. 1..Len(q) = (1..n) \cup {n + 1}
  BY <1>1
<1>3. Due(q, 1, c, ops) = {i \in 1..n : s[i].conn = c /\ s[i].op \in ops}
                            \cup {i \in {n + 1} : f.conn = c /\ f.op \in ops}
  BY <1>1, <1>2 DEF Due
<1>4. Due(s, 1, c, ops) = {i \in 1..n : s[i].conn = c /\ s[i].op \in ops}
  BY DEF Due, n
<1>5. n + 1 \notin 1..n
  BY <1>1
<1> QED
  BY <1>3, <1>4, <1>5 DEF q, n

LEMMA DueNext ==
  ASSUME NEW s, Len(s) \in Nat, NEW n \in 1..Len(s), NEW c, NEW ops
  PROVE  /\ Due(s, n + 1, c, ops) \subseteq Due(s, n, c, ops)
         /\ s[n].conn # c \/ s[n].op \notin ops => Due(s, n + 1, c, ops) = Due(s, n, c, ops)
         /\ n \notin Due(s, n + 1, c, ops)
<1>1. n..Len(s) = {n} \cup ((n + 1)..Len(s)) /\ n \notin (n + 1)..Len(s)
  OBVIOUS
<1> QED
  BY <1>1 DEF Due

LEMMA DueUnion ==
  ASSUME NEW s, NEW n, NEW c, NEW ops, NEW more
  PROVE  Due(s, n, c, ops \cup more) = Due(s, n, c, ops) \cup Due(s, n, c, more)
BY DEF Due

(* What is queued for c is nothing to d.                                   *)
LEMMA DueElsewhere ==
  ASSUME NEW F, NEW p \in Seq(F), NEW q \in Seq(F), NEW l, NEW own, NEW c,
         Extends(p, q, l, own, c), NEW d, d # c, NEW ops
  PROVE  Due(q, 1, d, ops) = Due(p, 1, d, ops)
<1>1. Len(p) \in Nat /\ Len(q) \in Nat
  OBVIOUS
<1>2. \A i : i \in 1..Len(p) => i \in 1..Len(q) /\ q[i] = p[i]
  BY <1>1 DEF Extends
<1>3. \A i \in 1..Len(q) : i \notin 1..Len(p) => q[i].conn # d
  BY <1>1 DEF Extends
<1> QED
  BY <1>2, <1>3 DEF Due

(* QueueInLoop adds a place to what it queues, and none to anything else.  *)
LEMMA QueueDue ==
  ASSUME NEW w \in Servers(Conns, AllLoops, {"m"}), NEW c \in Conns, NEW op \in Ops,
         NEW l \in AllLoops, NEW v, v = QueueInLoop(w, l, op, c), NEW ops
  PROVE  /\ \A m \in AllLoops : m # l \/ op \notin ops =>
              Due(v.pendingFunctors_[m], 1, c, ops) = Due(w.pendingFunctors_[m], 1, c, ops)
         /\ op \in ops =>
              Due(v.pendingFunctors_[l], 1, c, ops) =
                Due(w.pendingFunctors_[l], 1, c, ops) \cup {Len(w.pendingFunctors_[l]) + 1}
<1> DEFINE p == w.pendingFunctors_[l]
           f == [op |-> op, conn |-> c]
           q == Append(p, f)
<1>1. /\ w.pendingFunctors_ \in [AllLoops -> Seq(Functors(Conns))]
      /\ f \in Functors(Conns) /\ f.op = op /\ f.conn = c
  BY DEF Servers, Functors
<1>2. p \in Seq(Functors(Conns))
  BY <1>1
<1> HIDE DEF f
<1>3. Due(q, 1, c, ops) = Due(p, 1, c, ops) \cup (IF op \in ops THEN {Len(p) + 1} ELSE {})
  BY <1>1, <1>2, DueAppend
<1>4. v.pendingFunctors_ = [w.pendingFunctors_ EXCEPT ![l] = q]
  BY DEF QueueInLoop, f, Servers
<1> HIDE DEF q
<1>5. /\ v.pendingFunctors_[l] = q
      /\ \A m \in AllLoops : m # l => v.pendingFunctors_[m] = w.pendingFunctors_[m]
  BY <1>1, <1>4
<1> QED
  BY <1>3, <1>5

LEMMA QueueKeeps ==
  ASSUME NEW w \in Servers(Conns, AllLoops, {"m"}), NEW c, NEW op, NEW l \in AllLoops
  PROVE  \E m \in AllLoops : \E i \in 1..Len(QueueInLoop(w, l, op, c).pendingFunctors_[m]) :
            QueueInLoop(w, l, op, c).pendingFunctors_[m][i].conn = c
<1> DEFINE p == w.pendingFunctors_[l]
           f == [op |-> op, conn |-> c]
           q == Append(p, f)
           n == Len(p) + 1
<1>1. w.pendingFunctors_ \in [AllLoops -> Seq(Functors(Conns))]
  BY DEF Servers
<1>2. p \in Seq(Functors(Conns)) /\ Len(p) \in Nat
  BY <1>1
<1>3. Len(q) = n /\ q[n] = f /\ f.conn = c /\ n \in 1..n
  <2> HIDE DEF f
  <2>1. Len(q) = n /\ q[n] = f /\ n \in 1..n
    BY <1>2
  <2> QED
    BY <2>1 DEF f
<1>4. QueueInLoop(w, l, op, c).pendingFunctors_[l] = q
  BY <1>1 DEF QueueInLoop, Servers
<1> HIDE DEF q, n
<1> QED
  BY <1>3, <1>4

-----------------------------------------------------------------------------
(* What the operations of a channel do to what it asks for. *)

LEMMA KeepChannel ==
  ASSUME NEW L, NEW B, NEW k \in Connections(L, B), ChannelInv(k), k.state_ # "kConnecting",
         NEW out, Readable(out) > 0
  PROVE  LET j == [k EXCEPT !.outBuffer_ = out]
             e == EnableWriting(j)
         IN  /\ k.writing_ => ChannelInv(j)
             /\ ~k.writing_ => ChannelInv(e)
             /\ j.state_ = k.state_ /\ j.revents_ = k.revents_
             /\ e.state_ = k.state_ /\ e.revents_ = k.revents_
BY DEF ChannelInv, Armed, Connections, EnableWriting, UpDateChannel, EpollAdd, EpollMod,
       State, Event

(* In the epoll set as far as the channel knows, and idle if it is not.    *)
Registered(k) ==
  /\ k.index_ = "kAdded"
  /\ ~k.added => k.interest = {}
  /\ "hup" \notin k.revents_

LEMMA DrainChannel ==
  ASSUME NEW L, NEW B, NEW k \in Connections(L, B), ChannelInv(k), k.writing_,
         NEW out, Readable(out) = 0
  PROVE  LET d == DisableWriting([k EXCEPT !.outBuffer_ = out])
         IN  /\ d.state_ = k.state_ /\ d.revents_ = k.revents_ /\ d.loop = k.loop
             /\ k.state_ # "kDisconnecting" => ChannelInv(d)
             /\ k.state_ = "kDisconnecting" => Registered(d)
<1> DEFINE j == [k EXCEPT !.outBuffer_ = out]
<1>1. /\ j.state_ = k.state_ /\ j.revents_ = k.revents_ /\ j.loop = k.loop
      /\ j.events_ = k.events_ /\ j.index_ = k.index_ /\ j.added = k.added
      /\ j.open = k.open /\ j.interest = k.interest /\ j.outBuffer_ = out
      /\ j.writing_ = k.writing_
      /\ DOMAIN j = DOMAIN k
      /\ j = [f \in DOMAIN k |-> IF f = "outBuffer_" THEN out ELSE k[f]]
  BY DEF Connections
<1> HIDE DEF j
<1> DEFINE d == DisableWriting(j)
<1>2. ~(Readable(out) > 0)
  OBVIOUS
<1>3. ~(k.state_ = "kConnecting")
  BY DEF ChannelInv
<1>4. /\ d.state_ = k.state_ /\ d.revents_ = k.revents_ /\ d.loop = k.loop
      /\ d.open = k.open /\ d.outBuffer_ = out /\ d.writing_ = FALSE
      /\ d.events_ = k.events_ \ {"out"}
      /\ d.interest = k.interest \/ d.interest = k.events_ \ {"out"}
      /\ k.index_ = "kAdded" =>
           /\ d.index_ = "kAdded" /\ d.added = k.added
           /\ d.interest = IF k.added THEN k.events_ \ {"out"} ELSE k.interest
  BY <1>1 DEF Connections, DisableWriting, UpDateChannel, EpollAdd, EpollMod
<1> HIDE DEF d
<1>7. k.index_ \in {"kNew", "kAdded"} /\ k.state_ \in State
  BY DEF Connections
<1>5. ASSUME k.state_ # "kDisconnecting"
      PROVE  ChannelInv(d)
  <2>1. CASE k.state_ = "kConnected"
    <3>1. Armed(d)
      BY <1>2, <1>4, <2>1 DEF ChannelInv, Armed
    <3> QED
      BY <1>4, <2>1, <3>1 DEF ChannelInv
  <2>2. CASE k.state_ = "kDisconnected"
    <3>1. "in" \notin d.events_ /\ "in" \notin d.interest
      BY <1>1, <1>4, <1>7, <2>2 DEF ChannelInv
    <3> QED
      BY <1>4, <2>2, <3>1 DEF ChannelInv
  <2> QED
    BY <1>3, <1>5, <1>7, <2>1, <2>2 DEF ChannelInv, State
<1>6. k.state_ = "kDisconnecting" => Registered(d)
  BY <1>4 DEF ChannelInv, Armed, Registered, Connections
<1> QED
  BY <1>1, <1>4, <1>5, <1>6 DEF d, j

LEMMA CloseChannel ==
  ASSUME NEW L, NEW B, NEW k \in Connections(L, B), Registered(k)
  PROVE  LET d == DisableAll([k EXCEPT !.state_ = "kDisconnected"])
         IN  /\ ChannelInv(d)
             /\ d.state_ = "kDisconnected" /\ d.revents_ = k.revents_ /\ d.loop = k.loop
             /\ d.index_ = "kAdded" /\ ~d.writing_
BY DEF ChannelInv, Registered, Connections, DisableAll, UpDateChannel, EpollAdd, EpollMod, Event

LEMMA DestroyChannel ==
  ASSUME NEW L, NEW B, NEW k \in Connections(L, B), ChannelInv(k), k.state_ = "kDisconnected"
  PROVE  /\ ChannelInv(Remove(k))
         /\ Remove(k).state_ = "kDisconnected" /\ Remove(k).revents_ = k.revents_
         /\ Remove(k).loop = k.loop
         /\ Remove(k).index_ = "kNew" /\ ~Remove(k).writing_
BY DEF ChannelInv, Connections, Remove, RemoveChannel, DisableAll, UpDateChannel, EpollAdd,
       EpollMod, EpollDel, Event

LEMMA ArmedRegistered ==
  ASSUME NEW L, NEW B, NEW k \in Connections(L, B), ChannelInv(k),
         k.state_ \in {"kConnected", "kDisconnecting"}
  PROVE  Registered(k)
BY DEF ChannelInv, Armed, Registered

-----------------------------------------------------------------------------
(* What a handler of c does to c. *)

(* The map or a queued functor holds c.                                    *)
Kept(map, queues, c) ==
  c \in map \/ \E l \in AllLoops : \E i \in 1..Len(queues[l]) : queues[l][i].conn = c

Forward(w, v, c) ==
  LET j == w.conn[c]
      k == v.conn[c]
  IN  /\ Kept(w.connections_, w.pendingFunctors_, c) => Kept(v.connections_, v.pendingFunctors_, c)
      /\ j.state_ = "kDisconnected" => k.state_ = "kDisconnected"
      /\ j.state_ = "kConnecting" => k = j
      /\ k.state_ = "kConnecting" => j.state_ = "kConnecting"
      /\ k.state_ = "kConnected" => j.state_ = "kConnected"
      /\ k.revents_ = j.revents_
      /\ v.sock[c].unread => w.sock[c].unread
      /\ w.sock[c].unread /\ ~v.sock[c].unread => j.state_ # "kDisconnected"

Fine(w, v, t, a, gone, c) == Good(v, t, a, gone, c) /\ Forward(w, v, c)

LEMMA FineTransitive ==
  ASSUME NEW u, NEW v, NEW w, NEW t, NEW a, NEW gone, NEW c,
         Fine(u, v, t, a, gone, c), Fine(v, w, t, a, gone, c)
  PROVE  Fine(u, w, t, a, gone, c)
BY DEF Fine, Forward

LEMMA FineReflexive ==
  ASSUME NEW w, NEW t, NEW a, NEW gone, NEW c, Good(w, t, a, gone, c)
  PROVE  Fine(w, w, t, a, gone, c)
BY DEF Fine, Forward

(* The teardown of c is kept in order as well.                             *)
Tidy(w, v, t, a, gone, c) == ~gone /\ Torn(w, t, a, c) => Torn(v, t, a, c)

Clean(w, v, t, a, gone, c) == Fine(w, v, t, a, gone, c) /\ Tidy(w, v, t, a, gone, c)

LEMMA CleanTransitive ==
  ASSUME NEW u, NEW v, NEW w, NEW t, NEW a, NEW gone, NEW c,
         Clean(u, v, t, a, gone, c), Clean(v, w, t, a, gone, c)
  PROVE  Clean(u, w, t, a, gone, c)
BY FineTransitive DEF Clean, Tidy

LEMMA CleanReflexive ==
  ASSUME NEW w, NEW t, NEW a, NEW gone, NEW c, Good(w, t, a, gone, c)
  PROVE  Clean(w, w, t, a, gone, c)
BY FineReflexive DEF Clean, Tidy

(* There is none of a connection that is not closed.                       *)
LEMMA TornOpen ==
  ASSUME NEW v, NEW t, NEW a, NEW gone, NEW c, QueueInv(v, t, a, gone, c), ~gone,
         v.conn[c].loop \in AllLoops, v.conn[c].state_ # "kDisconnected",
         NoneDue(v, t, a, c, {"sendInLoop"})
  PROVE  Torn(v, t, a, c)
<1>1. c \in v.connections_ /\ NoneDue(v, t, a, c, {"connectionDestroyed"})
  BY DEF QueueInv
<1>2. OneDue(v, t, a, v.conn[c].loop, c, {"connectionDestroyed"})
  BY <1>1 DEF NoneDue, OneDue
<1> QED
  BY <1>1, <1>2 DEF Torn

(* A change of the connection's record alone.                              *)
LEMMA QueueKept ==
  ASSUME NEW v, NEW w, NEW t, NEW a, NEW gone, NEW c, QueueInv(w, t, a, gone, c),
         v.pendingFunctors_ = w.pendingFunctors_, v.connections_ = w.connections_,
         v.failed = w.failed, v.sock[c].rst = w.sock[c].rst,
         v.conn[c].state_ # "kDisconnected" => w.conn[c].state_ # "kDisconnected",
         v.conn[c].state_ = "kConnecting" => w.conn[c].state_ = "kConnecting"
  PROVE  QueueInv(v, t, a, gone, c)
BY DEF QueueInv, NoneDue, OneDue

(* handleClose on a registered channel, whatever output is left.           *)
LEMMA CloseGood ==
  ASSUME NEW w \in Servers(Conns, AllLoops, {"m"}), NEW c \in Conns, NEW t, NEW a, NEW gone,
         QueueInv(w, t, a, gone, c), Registered(w.conn[c]),
         w.conn[c].loop = Base => ~gone
  PROVE  LET v == HandleClose(w, c)
         IN  /\ w.conn[c].state_ \in {"kConnected", "kDisconnecting"} =>
                  Good(v, t, a, gone, c)
             /\ w.conn[c].state_ \notin {"kConnected", "kDisconnecting"} => v = w
             /\ Forward(w, v, c)
             /\ /\ w.conn[c].state_ \in {"kConnected", "kDisconnecting"}
                /\ ~gone /\ NoneDue(w, t, a, c, {"sendInLoop"})
                => Torn(v, t, a, c)
<1>1. CASE w.conn[c].state_ \notin {"kConnected", "kDisconnecting"}
  BY <1>1 DEF HandleClose, Forward
<1>2. CASE w.conn[c].state_ \in {"kConnected", "kDisconnecting"}
  <2> DEFINE k == DisableAll([w.conn[c] EXCEPT !.state_ = "kDisconnected"])
             u == [w EXCEPT !.conn[c] = k]
             v == RemoveConnection(u, c)
  <2>1. w.conn[c] \in Connections(AllLoops, {"m"})
    BY DEF Servers
  <2>2. /\ ChannelInv(k) /\ k.state_ = "kDisconnected" /\ k.loop = w.conn[c].loop
        /\ k.revents_ = w.conn[c].revents_ /\ k.index_ = "kAdded" /\ ~k.writing_
    BY <2>1, CloseChannel
  <2>3. k \in Connections(AllLoops, {"m"}) /\ Alike(k, w.conn[c])
    <3> DEFINE j == [w.conn[c] EXCEPT !.state_ = "kDisconnected"]
    <3>1. j \in Connections(AllLoops, {"m"}) /\ Alike(j, w.conn[c])
      BY <2>1, StateTyped DEF State
    <3> HIDE DEF j
    <3>2. DisableAll(j) \in Connections(AllLoops, {"m"}) /\ Alike(DisableAll(j), w.conn[c])
      BY <3>1, ChannelTyped, ChannelAlike DEF Alike
    <3> QED
      BY <3>2 DEF j
  <2>4. HandleClose(w, c) = v
    BY <1>2 DEF HandleClose
  <2> HIDE DEF k
  <2>5. /\ u \in Servers(Conns, AllLoops, {"m"})
        /\ u.conn[c] = k /\ u.sock = w.sock /\ u.connections_ = w.connections_
        /\ u.pendingFunctors_ = w.pendingFunctors_ /\ u.failed = w.failed
    BY <2>3, PutConnection DEF Works
  <2> HIDE DEF u
  <2>6. /\ c \in w.connections_ \/ gone
        /\ NoneDue(w, t, a, c, Removals \cup {"connectionDestroyed"})
        /\ NoneDue(w, t, a, c, {"removeConnectionFromMapInLoop"})
        /\ ~w.failed /\ ~w.sock[c].rst
    BY <1>2 DEF QueueInv
  <2>7. /\ NoneDue(w, t, a, c, Removals)
        /\ NoneDue(w, t, a, c, {"connectionDestroyed"})
    BY <2>6, DueUnion DEF NoneDue
  <2>8. CASE k.loop = Base
    <3> DEFINE x == [u EXCEPT !.connections_ = @ \ {c}]
               y == QueueInLoop(x, k.loop, "connectionDestroyed", c)
               n == Len(x.pendingFunctors_[k.loop]) + 1
    <3>1. ~gone /\ c \in u.connections_
      BY <2>2, <2>5, <2>6, <2>8
    <3>2. v = y
      BY <2>5, <2>8, <3>1 DEF RemoveConnection, RemoveConnectionInLoop
    <3>3. /\ x \in Servers(Conns, AllLoops, {"m"})
          /\ x.conn = u.conn /\ x.sock = u.sock /\ x.connections_ = u.connections_ \ {c}
          /\ x.pendingFunctors_ = u.pendingFunctors_ /\ x.failed = u.failed
      BY <2>5, EraseWorks DEF Works
    <3> HIDE DEF x
    <3>4. k.loop \in AllLoops
      BY <2>3 DEF Connections
    <3>5. /\ y.conn = x.conn /\ y.sock = x.sock /\ y.connections_ = x.connections_
          /\ y.failed = x.failed
      BY <3>3 DEF QueueInLoop, Servers
    <3>6. \A ops : "connectionDestroyed" \notin ops =>
            \A m \in AllLoops : Due(y.pendingFunctors_[m], 1, c, ops) = Due(w.pendingFunctors_[m], 1, c, ops)
      BY <2>5, <3>3, <3>4, QueueDue DEF Ops
    <3>13. \E m \in AllLoops : \E i \in 1..Len(y.pendingFunctors_[m]) :
             y.pendingFunctors_[m][i].conn = c
      BY <3>3, <3>4, QueueKeeps
    <3>18. PICK op \in Ops : op = "connectionDestroyed"
      BY DEF Ops
    <3>19. y = QueueInLoop(x, k.loop, op, c)
      BY <3>18
    <3> HIDE DEF y
    <3>15. ASSUME NEW ops, op \in ops
           PROVE  Due(y.pendingFunctors_[k.loop], 1, c, ops) =
                    Due(w.pendingFunctors_[k.loop], 1, c, ops) \cup {n}
      <4>1. Due(y.pendingFunctors_[k.loop], 1, c, ops) =
              Due(x.pendingFunctors_[k.loop], 1, c, ops) \cup {Len(x.pendingFunctors_[k.loop]) + 1}
        BY <3>3, <3>4, <3>15, <3>19, QueueDue
      <4> QED
        BY <2>5, <3>3, <4>1
    <3>7. /\ NoneDue(y, t, a, c, {"removeConnectionFromMapInLoop"})
          /\ NoneDue(y, t, a, c, Removals)
      <4>1. "connectionDestroyed" \notin Removals
        BY DEF Removals
      <4>2. \A m \in AllLoops :
              /\ Due(y.pendingFunctors_[m], 1, c, Removals) = Due(w.pendingFunctors_[m], 1, c, Removals)
              /\ Due(y.pendingFunctors_[m], 1, c, {"removeConnectionFromMapInLoop"})
                   = Due(w.pendingFunctors_[m], 1, c, {"removeConnectionFromMapInLoop"})
        BY <3>6, <4>1
      <4> QED
        BY <2>6, <2>7, <4>2 DEF NoneDue
    <3>10. OneDue(y, t, a, Base, c, Removals)
      BY <3>7, LoopFacts DEF NoneDue, OneDue
    <3>11. /\ y.conn[c].state_ = "kDisconnected" /\ c \notin y.connections_
           /\ ~y.failed /\ ~y.sock[c].rst
      BY <2>2, <2>5, <2>6, <3>3, <3>5
    <3>12. QueueInv(y, t, a, gone, c)
      BY <3>7, <3>10, <3>11 DEF QueueInv
    <3>8. Good(y, t, a, gone, c)
      BY <2>2, <2>5, <3>3, <3>5, <3>12 DEF Good
    <3>14. Kept(y.connections_, y.pendingFunctors_, c)
      BY <3>13 DEF Kept
    <3>9. Forward(w, y, c)
      BY <1>2, <2>2, <2>5, <3>3, <3>5, <3>14 DEF Forward
    <3>17. ASSUME NoneDue(w, t, a, c, {"sendInLoop"})
           PROVE  Torn(y, t, a, c)
      <4> HIDE DEF n
      <4>1. NoneDue(y, t, a, c, {"sendInLoop"})
        BY <3>6, <3>17 DEF NoneDue
      <4>2. /\ Due(y.pendingFunctors_[k.loop], 1, c, {"connectionDestroyed"}) = {n}
            /\ Due(t[k.loop], a[k.loop], c, {"connectionDestroyed"}) = {}
        BY <2>7, <3>4, <3>15, <3>18 DEF NoneDue
      <4>3. /\ OneDue(y, t, a, k.loop, c, {"connectionDestroyed"})
            /\ ~NoneDue(y, t, a, c, {"connectionDestroyed"})
        BY <3>4, <4>2 DEF OneDue, NoneDue
      <4>4. y.conn[c] = k
        BY <2>5, <3>3, <3>5
      <4> QED
        BY <2>2, <3>11, <4>1, <4>3, <4>4 DEF Torn
    <3> QED
      BY <1>2, <2>4, <3>2, <3>8, <3>9, <3>17
  <2>9. CASE k.loop # Base
    <3> DEFINE y == QueueInLoop(u, Base, "removeConnectionInLoop", c)
               n == Len(u.pendingFunctors_[Base]) + 1
    <3>1. v = y
      BY <2>5, <2>9 DEF RemoveConnection
    <3>2. /\ y.conn = u.conn /\ y.sock = u.sock /\ y.connections_ = u.connections_
          /\ y.failed = u.failed
      BY <2>5 DEF QueueInLoop, Servers
    <3>0. PICK op \in Ops : op = "removeConnectionInLoop" /\ op \in Removals
      BY DEF Ops, Removals
    <3>1a. y = QueueInLoop(u, Base, op, c)
      BY <3>0
    <3>1b. Base \in AllLoops
      BY LoopFacts
    <3> HIDE DEF y
    <3>11. \E m \in AllLoops : \E i \in 1..Len(y.pendingFunctors_[m]) :
             y.pendingFunctors_[m][i].conn = c
      BY <2>5, <3>1a, <3>1b, QueueKeeps
    <3>3. \A ops : \A m \in AllLoops : m # Base \/ op \notin ops =>
            Due(y.pendingFunctors_[m], 1, c, ops) = Due(w.pendingFunctors_[m], 1, c, ops)
      BY <2>5, <3>0, <3>1a, <3>1b, QueueDue
    <3>4. Due(y.pendingFunctors_[Base], 1, c, Removals) =
            Due(w.pendingFunctors_[Base], 1, c, Removals) \cup {n}
      BY <2>5, <3>0, <3>1a, <3>1b, QueueDue
    <3> HIDE DEF n
    <3>5. Due(y.pendingFunctors_[Base], 1, c, Removals) = {n}
          /\ Due(t[Base], a[Base], c, Removals) = {}
      BY <2>7, <3>4, LoopFacts DEF NoneDue
    <3>6. OneDue(y, t, a, Base, c, Removals)
      BY <3>5 DEF OneDue
    <3>7. NoneDue(y, t, a, c, {"removeConnectionFromMapInLoop"})
          /\ NoneDue(y, t, a, c, {"connectionDestroyed"})
      <4>1. /\ op \notin {"removeConnectionFromMapInLoop"} /\ op \notin {"connectionDestroyed"}
        BY <3>0
      <4> QED
        BY <2>6, <2>7, <3>3, <4>1 DEF NoneDue
    <3>8. QueueInv(y, t, a, gone, c)
      BY <2>2, <2>5, <2>6, <3>2, <3>6, <3>7 DEF QueueInv
    <3>9. Good(y, t, a, gone, c)
      BY <2>2, <2>5, <3>2, <3>8 DEF Good
    <3>12. Kept(y.connections_, y.pendingFunctors_, c)
      BY <3>11 DEF Kept
    <3>10. Forward(w, y, c)
      BY <1>2, <2>2, <2>5, <3>2, <3>12 DEF Forward
    <3>13. ASSUME ~gone, NoneDue(w, t, a, c, {"sendInLoop"})
           PROVE  Torn(y, t, a, c)
      <4>1. NoneDue(y, t, a, c, {"sendInLoop"})
        <5>1. op \notin {"sendInLoop"}
          BY <3>0
        <5> QED
          BY <3>3, <3>13, <5>1 DEF NoneDue
      <4>2. ~NoneDue(y, t, a, c, Removals)
        BY <3>1b, <3>5 DEF NoneDue
      <4>3. OneDue(y, t, a, k.loop, c, {"connectionDestroyed"})
        BY <2>3, <3>7 DEF OneDue, NoneDue, Connections
      <4>4. y.conn[c] = k /\ c \in y.connections_
        BY <2>5, <2>6, <3>2, <3>13
      <4> QED
        BY <2>2, <4>1, <4>2, <4>3, <4>4 DEF Torn
    <3> QED
      BY <1>2, <2>4, <3>1, <3>9, <3>10, <3>13
  <2> QED
    BY <2>8, <2>9
<1> QED
  BY <1>1, <1>2

(* A call from outside waits in no way that the rest counts on.            *)
LEMMA CallGood ==
  ASSUME NEW w \in Servers(Conns, AllLoops, {"m"}), NEW c \in Conns, NEW t, NEW a, NEW gone,
         Good(w, t, a, gone, c), NEW l \in AllLoops,
         NEW op \in {"closeConnectionInLoop", "sendInLoop"},
         op = "sendInLoop" => w.conn[c].state_ # "kConnecting"
  PROVE  /\ Fine(w, QueueInLoop(w, l, op, c), t, a, gone, c)
         /\ op # "sendInLoop" => Clean(w, QueueInLoop(w, l, op, c), t, a, gone, c)
<1> DEFINE v == QueueInLoop(w, l, op, c)
<1>1. op \in Ops
  BY DEF Ops
<1>2. v = QueueInLoop(w, l, op, c)
  OBVIOUS
<1>3. /\ v.conn = w.conn /\ v.sock = w.sock /\ v.connections_ = w.connections_
      /\ v.failed = w.failed
  BY DEF QueueInLoop, Servers
<1>9. \E m \in AllLoops : \E i \in 1..Len(v.pendingFunctors_[m]) : v.pendingFunctors_[m][i].conn = c
  BY QueueKeeps
<1> HIDE DEF v
<1>10. Kept(v.connections_, v.pendingFunctors_, c)
  BY <1>9 DEF Kept
<1>4. \A ops : \A m \in AllLoops : op \notin ops =>
        Due(v.pendingFunctors_[m], 1, c, ops) = Due(w.pendingFunctors_[m], 1, c, ops)
  BY <1>1, <1>2, QueueDue
<1>5. \A ops : op \notin ops /\ NoneDue(w, t, a, c, ops) => NoneDue(v, t, a, c, ops)
  BY <1>4 DEF NoneDue
<1>6. /\ op \notin {"removeConnectionFromMapInLoop"} /\ op \notin Removals
      /\ op \notin {"connectionDestroyed"} /\ op \notin Removals \cup {"connectionDestroyed"}
      /\ w.conn[c].state_ = "kConnecting" => op \notin {"sendInLoop"}
  BY DEF Removals
<1>7. OneDue(w, t, a, Base, c, Removals) => OneDue(v, t, a, Base, c, Removals)
  <2>1. Base \in AllLoops
    BY LoopFacts
  <2>2. Due(v.pendingFunctors_[Base], 1, c, Removals) = Due(w.pendingFunctors_[Base], 1, c, Removals)
    BY <1>4, <1>6, <2>1
  <2> QED
    BY <2>2 DEF OneDue
<1>8. QueueInv(v, t, a, gone, c)
  BY <1>3, <1>5, <1>6, <1>7 DEF Good, QueueInv
<1>11. Fine(w, v, t, a, gone, c)
  BY <1>3, <1>8, <1>10 DEF Fine, Forward, Good
<1>12. ASSUME op # "sendInLoop", Torn(w, t, a, c)
       PROVE  Torn(v, t, a, c)
  <2>1. /\ \A ops : op \notin ops => (NoneDue(v, t, a, c, ops) <=> NoneDue(w, t, a, c, ops))
        /\ \A ops, m : /\ op \notin ops /\ m \in AllLoops
                       => (OneDue(v, t, a, m, c, ops) <=> OneDue(w, t, a, m, c, ops))
    BY <1>4 DEF NoneDue, OneDue
  <2>2. op \notin {"sendInLoop"} /\ op \notin {"connectionDestroyed"} /\ op \notin Removals
    BY <1>6, <1>12
  <2>3. w.conn[c].loop \in AllLoops
    BY DEF Servers, Connections
  <2> QED
    BY <1>3, <1>12, <2>1, <2>2, <2>3 DEF Torn
<1> QED
  BY <1>11, <1>12 DEF Clean, Tidy, v

LEMMA HandleCloseGood ==
  ASSUME NEW w \in Servers(Conns, AllLoops, {"m"}), NEW c \in Conns, NEW t, NEW a, NEW gone,
         Good(w, t, a, gone, c), w.conn[c].loop = Base => ~gone
  PROVE  Clean(w, HandleClose(w, c), t, a, gone, c)
<1>1. CASE w.conn[c].state_ \in {"kConnected", "kDisconnecting"}
  <2>1. w.conn[c] \in Connections(AllLoops, {"m"})
    BY DEF Servers
  <2>2. Registered(w.conn[c])
    BY <1>1, <2>1, ArmedRegistered DEF Good
  <2> QED
    BY <1>1, <2>2, CloseGood DEF Fine, Good, Clean, Tidy, Torn
<1>2. CASE w.conn[c].state_ \notin {"kConnected", "kDisconnecting"}
  BY <1>2, CleanReflexive DEF HandleClose
<1> QED
  BY <1>1, <1>2

LEMMA CloseConnectionGood ==
  ASSUME NEW w \in Servers(Conns, AllLoops, {"m"}), NEW c \in Conns, NEW t, NEW a, NEW gone,
         Good(w, t, a, gone, c), w.conn[c].loop = Base => ~gone
  PROVE  /\ Clean(w, CloseConnection(w, c), t, a, gone, c)
         /\ Clean(w, CloseConnectionInLoop(w, c), t, a, gone, c)
<1>1. w.conn[c] \in Connections(AllLoops, {"m"}) /\ w.conn[c].loop \in AllLoops
  BY DEF Servers, Connections
<1>2. Clean(w, w, t, a, gone, c)
  BY CleanReflexive
<1>3. Clean(w, QueueInLoop(w, w.conn[c].loop, "closeConnectionInLoop", c), t, a, gone, c)
  BY <1>1, CallGood
<1>4. Clean(w, CloseConnection(w, c), t, a, gone, c)
  BY <1>2, <1>3 DEF CloseConnection
<1>5. ASSUME w.conn[c].state_ \in {"kConnected", "kConnecting"}, w.conn[c].writing_
      PROVE  Clean(w, [w EXCEPT !.conn[c].state_ = "kDisconnecting"], t, a, gone, c)
  <2> DEFINE k == [w.conn[c] EXCEPT !.state_ = "kDisconnecting"]
             v == [w EXCEPT !.conn[c] = k]
  <2>1. w.conn[c].state_ = "kConnected"
    BY <1>5 DEF Good, ChannelInv
  <2>2. /\ ChannelInv(k) /\ k.state_ = "kDisconnecting" /\ k.revents_ = w.conn[c].revents_
        /\ k \in Connections(AllLoops, {"m"}) /\ Alike(k, w.conn[c])
    BY <1>1, <1>5, <2>1 DEF Connections, State, Good, ChannelInv, Armed, Alike
  <2> HIDE DEF k
  <2>3. /\ v \in Servers(Conns, AllLoops, {"m"})
        /\ v.conn[c] = k /\ v.sock = w.sock /\ v.connections_ = w.connections_
        /\ v.pendingFunctors_ = w.pendingFunctors_ /\ v.failed = w.failed
    BY <2>2, PutConnection DEF Works
  <2> HIDE DEF v
  <2>4. QueueInv(v, t, a, gone, c)
    BY <2>1, <2>2, <2>3, QueueKept DEF Good
  <2>6. Fine(w, v, t, a, gone, c)
    BY <2>1, <2>2, <2>3, <2>4 DEF Fine, Forward, Good
  <2>7. ASSUME ~gone, Torn(w, t, a, c)
        PROVE  Torn(v, t, a, c)
    <3>1. v.conn[c].loop \in AllLoops
      BY <1>1, <2>2, <2>3 DEF Alike
    <3>2. NoneDue(v, t, a, c, {"sendInLoop"})
      BY <2>3, <2>7 DEF Torn, NoneDue
    <3> QED
      BY <2>2, <2>3, <2>4, <2>7, <3>1, <3>2, TornOpen
  <2>5. Clean(w, v, t, a, gone, c)
    BY <2>6, <2>7 DEF Clean, Tidy
  <2> QED
    BY <2>5 DEF v, k
<1>6. Clean(w, HandleClose(w, c), t, a, gone, c)
  BY HandleCloseGood
<1>7. Clean(w, CloseConnectionInLoop(w, c), t, a, gone, c)
  BY <1>2, <1>5, <1>6 DEF CloseConnectionInLoop
<1> QED
  BY <1>4, <1>7

LEMMA WrittenGood ==
  ASSUME NEW w \in Servers(Conns, AllLoops, {"m"}), NEW c \in Conns, NEW t, NEW a, NEW gone,
         QueueInv(w, t, a, gone, c), NEW data \in Seq(OrNul({"m"})),
         NEW n \in 0..Fits(w, c, data)
  PROVE  QueueInv(Written(w, c, data, n), t, a, gone, c)
<1> DEFINE v == Written(w, c, data, n)
<1>1. /\ v.conn = w.conn /\ v.connections_ = w.connections_ /\ v.failed = w.failed
      /\ v.pendingFunctors_ = w.pendingFunctors_
      /\ v.sock[c].rst = w.sock[c].rst
  BY WrittenWorks DEF Works, Touches
<1> HIDE DEF v
<1>2. QueueInv(v, t, a, gone, c)
  BY <1>1, QueueKept
<1> QED
  BY <1>2 DEF v

LEMMA SendInLoopGood ==
  ASSUME NEW w \in Servers(Conns, AllLoops, {"m"}), NEW c \in Conns, NEW t, NEW a, NEW gone,
         Good(w, t, a, gone, c), w.conn[c].state_ # "kConnecting",
         NEW data \in Seq({"m"})
  PROVE  /\ Fine(w, SendInLoop(w, c, data), t, a, gone, c)
         /\ w.conn[c].state_ # "kDisconnected" =>
              Clean(w, SendInLoop(w, c, data), t, a, gone, c)
<1> DEFINE k == w.conn[c]
           direct == ~k.writing_ /\ Readable(k.outBuffer_) = 0 /\ Writable(w, c)
           n == IF direct THEN Fits(w, c, data) ELSE 0
           out == Put(k.outBuffer_, Rest(data, n))
           kept == [k EXCEPT !.outBuffer_ = out]
           j == IF k.writing_ THEN kept ELSE EnableWriting(kept)
           v == Written(w, c, data, n)
           x == [v EXCEPT !.conn[c] = j]
<1>1. /\ k \in Connections(AllLoops, {"m"}) /\ k.outBuffer_ \in Queues({"m"})
      /\ data \in Seq(OrNul({"m"}))
  BY SeqOrNul DEF Servers, Connections
<1>2. Fits(w, c, data) \in 0..Len(data) /\ 0 \in 0..Fits(w, c, data)
  BY <1>1, FitsInRange
<1>3. n \in 0..Len(data) /\ n \in 0..Fits(w, c, data)
  BY <1>1, <1>2, FitsInRange
<1>4. SendInLoop(w, c, data) = IF n = Len(data) THEN v ELSE x
  BY DEF SendInLoop, KeepRest
<1> HIDE DEF n, k
<1>5. /\ v \in Servers(Conns, AllLoops, {"m"}) /\ v.conn = w.conn
      /\ v.sock[c].unread = w.sock[c].unread
      /\ v.connections_ = w.connections_ /\ v.pendingFunctors_ = w.pendingFunctors_
      /\ QueueInv(v, t, a, gone, c)
  BY <1>1, <1>3, WrittenWorks, WrittenGood DEF Works, Good
<1>6. Fine(w, v, t, a, gone, c)
  BY <1>5 DEF Fine, Forward, Good
<1>8. v \in Servers(Conns, AllLoops, {"m"}) /\ v.conn[c] = k
  BY <1>5 DEF k
<1>9. k.loop \in AllLoops
  BY <1>1 DEF Connections
<1>10. ASSUME ~gone, Torn(w, t, a, c), k.state_ # "kDisconnected"
       PROVE  Torn(v, t, a, c)
  <2>1. NoneDue(v, t, a, c, {"sendInLoop"})
    BY <1>5, <1>10 DEF Torn, NoneDue
  <2> QED
    BY <1>5, <1>8, <1>9, <1>10, <2>1, TornOpen
<1>7. ASSUME n # Len(data)
      PROVE  /\ Fine(w, x, t, a, gone, c)
             /\ ~gone /\ Torn(w, t, a, c) /\ k.state_ # "kDisconnected" => Torn(x, t, a, c)
  <2>1. out \in Queues({"m"}) /\ Readable(out) > 0
    <3> DEFINE r == Rest(data, n)
    <3>1. r \in Seq(OrNul({"m"})) /\ Len(r) \in Nat /\ Len(r) > 0
      BY <1>1, <1>3, <1>7, RestTyped
    <3> HIDE DEF r
    <3>2. /\ Put(k.outBuffer_, r) \in Queues({"m"})
          /\ Readable(Put(k.outBuffer_, r)) = Readable(k.outBuffer_) + Len(r)
      BY <1>1, <3>1, PutTyped
    <3>3. Readable(k.outBuffer_) \in Nat
      BY <1>1 DEF Queues, Readable
    <3> QED
      BY <3>1, <3>2, <3>3 DEF r
  <2> HIDE DEF out
  <2>2. /\ k.writing_ => ChannelInv(kept)
        /\ ~k.writing_ => ChannelInv(EnableWriting(kept))
        /\ kept.state_ = k.state_ /\ kept.revents_ = k.revents_
        /\ EnableWriting(kept).state_ = k.state_ /\ EnableWriting(kept).revents_ = k.revents_
    <3>1. ChannelInv(k) /\ k.state_ # "kConnecting"
      BY DEF Good, k
    <3> QED
      BY <1>1, <2>1, <3>1, KeepChannel
  <2>3. kept \in Connections(AllLoops, {"m"}) /\ Alike(kept, k)
    BY <1>1, <2>1 DEF Connections, Alike
  <2> HIDE DEF kept
  <2>4. /\ EnableWriting(kept) \in Connections(AllLoops, {"m"})
        /\ Alike(EnableWriting(kept), k)
    BY <2>3, ChannelTyped, ChannelAlike DEF Alike
  <2>5. /\ j \in Connections(AllLoops, {"m"}) /\ Alike(j, k)
        /\ ChannelInv(j) /\ j.state_ = k.state_ /\ j.revents_ = k.revents_
    BY <2>2, <2>3, <2>4
  <2> HIDE DEF j, v
  <2>6. /\ x \in Servers(Conns, AllLoops, {"m"})
        /\ x.conn[c] = j /\ x.sock = v.sock /\ x.connections_ = v.connections_
        /\ x.pendingFunctors_ = v.pendingFunctors_ /\ x.failed = v.failed
    BY <1>8, <2>5, PutConnection DEF Works
  <2> HIDE DEF x
  <2>7. QueueInv(x, t, a, gone, c)
    BY <1>5, <2>5, <2>6, QueueKept DEF k
  <2>8. ASSUME ~gone, Torn(w, t, a, c), k.state_ # "kDisconnected"
        PROVE  Torn(x, t, a, c)
    <3>1. NoneDue(x, t, a, c, {"sendInLoop"})
      BY <1>5, <2>6, <2>8 DEF Torn, NoneDue
    <3>2. x.conn[c].loop \in AllLoops /\ x.conn[c].state_ # "kDisconnected"
      BY <1>9, <2>5, <2>6, <2>8 DEF Alike
    <3> QED
      BY <2>7, <2>8, <3>1, <3>2, TornOpen
  <2>9. Fine(w, x, t, a, gone, c)
    BY <1>5, <2>5, <2>6, <2>7 DEF Fine, Forward, Good, k
  <2> QED
    BY <2>8, <2>9
<1> HIDE DEF v, x
<1> QED
  BY <1>4, <1>6, <1>7, <1>10 DEF Clean, Tidy, k

LEMMA HandleWriteGood ==
  ASSUME NEW w \in Servers(Conns, AllLoops, {"m"}), NEW c \in Conns, NEW t, NEW a, NEW gone,
         Good(w, t, a, gone, c), w.conn[c].loop = Base => ~gone
  PROVE  Clean(w, HandleWrite(w, c), t, a, gone, c)
<1> DEFINE q == w.conn[c].outBuffer_
           out == q.bytes
           n == Fits(w, c, out)
           v == Written(w, c, out, n)
           rest == Take(q, n)
           k == [w.conn[c] EXCEPT !.outBuffer_ = rest]
           after == [v EXCEPT !.conn[c] = k]
           d == DisableWriting(k)
           done == [after EXCEPT !.conn[c] = d]
<1>0. Clean(w, w, t, a, gone, c)
  BY CleanReflexive
<1> SUFFICES ASSUME w.conn[c].writing_, Writable(w, c), n # 0
             PROVE  Clean(w, HandleWrite(w, c), t, a, gone, c)
  BY <1>0 DEF HandleWrite
<1>1. /\ w.conn[c] \in Connections(AllLoops, {"m"}) /\ q \in Queues({"m"})
      /\ out \in Seq(OrNul({"m"})) /\ Len(out) \in Nat
  BY DEF Servers, Connections, Queues
<1>2. n \in 0..Len(out) /\ n \in 0..Fits(w, c, out)
  BY <1>1, FitsInRange
<1>6. /\ rest \in Queues({"m"}) /\ Readable(rest) \in Nat
      /\ Readable(rest) = 0 <=> n = Len(out)
  <2>1. rest \in Queues({"m"}) /\ Readable(rest) = Len(out) - n
    BY <1>1, <1>2, TakeTyped DEF Readable
  <2> HIDE DEF n, out, rest
  <2> QED
    BY <1>1, <1>2, <2>1
<1>3. w.conn[c].state_ # "kConnecting"
  BY DEF Good, ChannelInv
<1>12. Torn(w, t, a, c) =>
         w.conn[c].state_ # "kDisconnected" /\ NoneDue(w, t, a, c, {"sendInLoop"})
  BY DEF Torn
<1>4. HandleWrite(w, c) = IF n < Len(out) THEN after ELSE Drained(after, c)
  <2>1. v.conn = w.conn
    BY <1>1, <1>2, WrittenWorks
  <2>2. after = [v EXCEPT !.conn[c].outBuffer_ = Take(@, n)]
    BY <2>1
  <2> QED
    BY <2>2 DEF HandleWrite
<1> HIDE DEF n, out, q
<1>5. /\ v \in Servers(Conns, AllLoops, {"m"}) /\ v.conn = w.conn
      /\ v.sock[c].unread = w.sock[c].unread
      /\ v.connections_ = w.connections_ /\ v.pendingFunctors_ = w.pendingFunctors_
      /\ QueueInv(v, t, a, gone, c)
  BY <1>1, <1>2, WrittenWorks, WrittenGood DEF Works, Good
<1> HIDE DEF rest, v
<1>7. k \in Connections(AllLoops, {"m"}) /\ Alike(k, w.conn[c]) /\ k.state_ = w.conn[c].state_
      /\ k.revents_ = w.conn[c].revents_
  BY <1>1, <1>6 DEF Connections, Alike
<1>8. d \in Connections(AllLoops, {"m"}) /\ Alike(d, k)
  BY <1>7, ChannelTyped, ChannelAlike
<1>9. ~(n < Len(out)) => Readable(rest) = 0
  BY <1>1, <1>2, <1>6
<1>10. CASE n < Len(out)
  <2>1. Readable(rest) > 0
    BY <1>2, <1>6, <1>10
  <2>2. ChannelInv(k)
    BY <1>1, <1>3, <2>1, KeepChannel DEF Good
  <2> HIDE DEF k
  <2>3. /\ after.conn[c] = k /\ after.sock = v.sock /\ after.connections_ = v.connections_
        /\ after.pendingFunctors_ = v.pendingFunctors_ /\ after.failed = v.failed
        /\ after \in Servers(Conns, AllLoops, {"m"})
    BY <1>5, <1>7, PutConnection DEF Works
  <2> HIDE DEF after
  <2>4. QueueInv(after, t, a, gone, c)
    BY <1>5, <1>7, <2>3, QueueKept
  <2>5. Fine(w, after, t, a, gone, c)
    BY <1>3, <1>5, <1>7, <2>2, <2>3, <2>4 DEF Fine, Forward, Good
  <2>6. ASSUME ~gone, Torn(w, t, a, c)
        PROVE  Torn(after, t, a, c)
    <3>1. after.conn[c].loop \in AllLoops /\ after.conn[c].state_ # "kDisconnected"
      BY <1>7, <1>12, <2>3, <2>6 DEF Connections
    <3>2. NoneDue(after, t, a, c, {"sendInLoop"})
      BY <1>5, <1>12, <2>3, <2>6 DEF NoneDue
    <3> QED
      BY <2>4, <2>6, <3>1, <3>2, TornOpen
  <2> QED
    BY <1>4, <1>10, <2>5, <2>6 DEF Clean, Tidy
<1>11. CASE ~(n < Len(out))
  <2>1. Readable(rest) = 0
    BY <1>9, <1>11
  <2>2. /\ d.state_ = w.conn[c].state_ /\ d.revents_ = w.conn[c].revents_
        /\ d.loop = w.conn[c].loop
        /\ w.conn[c].state_ # "kDisconnecting" => ChannelInv(d)
        /\ w.conn[c].state_ = "kDisconnecting" => Registered(d)
    BY <1>1, <2>1, DrainChannel DEF Good
  <2> HIDE DEF k, d
  <2>3. /\ after.conn[c] = k /\ after.sock = v.sock /\ after.connections_ = v.connections_
        /\ after.pendingFunctors_ = v.pendingFunctors_ /\ after.failed = v.failed
        /\ after \in Servers(Conns, AllLoops, {"m"})
    BY <1>5, <1>7, PutConnection DEF Works
  <2> HIDE DEF after
  <2>4. Drained(after, c) = IF done.conn[c].state_ = "kDisconnecting" THEN HandleClose(done, c)
                            ELSE done
    <3>1. done = [after EXCEPT !.conn[c] = DisableWriting(@)]
      BY <2>3 DEF d
    <3> QED
      BY <3>1 DEF Drained
  <2>5. /\ done.conn[c] = d /\ done.sock = v.sock /\ done.connections_ = v.connections_
        /\ done.pendingFunctors_ = v.pendingFunctors_ /\ done.failed = v.failed
        /\ done \in Servers(Conns, AllLoops, {"m"})
    BY <1>8, <2>3, PutConnection DEF Works
  <2> HIDE DEF done
  <2>6. QueueInv(done, t, a, gone, c)
    BY <1>5, <2>2, <2>5, QueueKept
  <2>7. Forward(w, done, c)
    BY <1>3, <1>5, <2>2, <2>5 DEF Forward
  <2>10. Torn(w, t, a, c) => NoneDue(done, t, a, c, {"sendInLoop"})
    BY <1>5, <1>12, <2>5 DEF NoneDue
  <2>8. CASE d.state_ # "kDisconnecting"
    <3>1. Fine(w, done, t, a, gone, c)
      BY <2>2, <2>5, <2>6, <2>7, <2>8 DEF Fine, Good
    <3>2. ASSUME ~gone, Torn(w, t, a, c)
          PROVE  Torn(done, t, a, c)
      <4>1. done.conn[c].loop \in AllLoops /\ done.conn[c].state_ # "kDisconnected"
        BY <1>8, <1>12, <2>2, <2>5, <3>2 DEF Connections
      <4> QED
        BY <2>6, <2>10, <3>2, <4>1, TornOpen
    <3> QED
      BY <1>4, <1>11, <2>4, <2>5, <2>8, <3>1, <3>2 DEF Clean, Tidy
  <2>9. CASE d.state_ = "kDisconnecting"
    <3>1. Good(HandleClose(done, c), t, a, gone, c) /\ Forward(done, HandleClose(done, c), c)
      BY <2>2, <2>5, <2>6, <2>9, CloseGood
    <3>2. Forward(w, HandleClose(done, c), c)
      BY <2>7, <3>1 DEF Forward
    <3>3. ~gone /\ Torn(w, t, a, c) => Torn(HandleClose(done, c), t, a, c)
      BY <2>2, <2>5, <2>6, <2>9, <2>10, CloseGood
    <3> QED
      BY <1>4, <1>11, <2>4, <2>5, <2>9, <3>1, <3>2, <3>3 DEF Fine, Clean, Tidy
  <2> QED
    BY <2>8, <2>9
<1> QED
  BY <1>10, <1>11

LEMMA ReplyGood ==
  ASSUME NEW w \in Servers(Conns, AllLoops, {"m"}), NEW c \in Conns, NEW t, NEW a, NEW gone,
         Good(w, t, a, gone, c), w.conn[c].loop = Base => ~gone,
         NEW data \in Seq({"m"}), NEW close
  PROVE  Clean(w, Reply(w, c, data, close), t, a, gone, c)
<1> DEFINE sent == IF data = <<>> THEN w ELSE Send(w, c, data)
<1>1. Clean(w, sent, t, a, gone, c)
  <2>1. Clean(w, w, t, a, gone, c)
    BY CleanReflexive
  <2>2. w.conn[c].state_ = "kConnected" => Clean(w, SendInLoop(w, c, data), t, a, gone, c)
    BY SendInLoopGood
  <2> QED
    BY <2>1, <2>2 DEF Send
<1>2. Works(Conns, AllLoops, {"m"}, w, sent, c)
  BY SendInLoopWorks, WorksReflexive DEF Send
<1> HIDE DEF sent
<1>3. Clean(sent, CloseConnection(sent, c), t, a, gone, c)
  BY <1>1, <1>2, CloseConnectionGood DEF Clean, Fine, Works, Touches, Alike
<1>4. Clean(w, CloseConnection(sent, c), t, a, gone, c)
  BY <1>1, <1>3, CleanTransitive
<1> QED
  BY <1>1, <1>4 DEF Reply, sent

LEMMA HandleReadGood ==
  ASSUME NEW w \in Servers(Conns, AllLoops, {"m"}), NEW c \in Conns, NEW t, NEW a, NEW gone,
         Good(w, t, a, gone, c), w.conn[c].loop = Base => ~gone,
         w.conn[c].state_ # "kDisconnected",
         NEW data \in Seq({"m"}), NEW close
  PROVE  Clean(w, HandleRead(w, c, data, close), t, a, gone, c)
<1> DEFINE s == [w.sock[c] EXCEPT !.unread = FALSE]
           taken == [w EXCEPT !.sock[c] = s]
<1>1. /\ s \in Sockets({"m"}) /\ ~s.unread
      /\ s.fin = w.sock[c].fin /\ s.rst = w.sock[c].rst /\ s.inputs = w.sock[c].inputs
  BY DEF Servers, Sockets
<1>2. HandleRead(w, c, data, close) =
        IF w.sock[c].rst THEN w
        ELSE IF w.sock[c].unread THEN Reply(taken, c, data, close)
        ELSE IF w.sock[c].fin THEN HandleClose(w, c)
        ELSE w
  BY DEF HandleRead, MessageCallback
<1> HIDE DEF s
<1>3. /\ taken \in Servers(Conns, AllLoops, {"m"})
      /\ taken.conn = w.conn /\ taken.connections_ = w.connections_
      /\ taken.pendingFunctors_ = w.pendingFunctors_ /\ taken.failed = w.failed
      /\ taken.sock[c] = s
  BY <1>1, PutSocket DEF Works
<1> HIDE DEF taken
<1>4. QueueInv(taken, t, a, gone, c)
  BY <1>1, <1>3, QueueKept DEF Good
<1>5. Good(taken, t, a, gone, c)
  BY <1>3, <1>4 DEF Good
<1>6. w.sock[c].unread => Clean(w, taken, t, a, gone, c)
  <2>1. Torn(w, t, a, c) => Torn(taken, t, a, c)
    BY <1>3 DEF Torn, NoneDue, OneDue
  <2> QED
    BY <1>1, <1>3, <1>5, <2>1 DEF Fine, Forward, Clean, Tidy
<1>7. Clean(taken, Reply(taken, c, data, close), t, a, gone, c)
  BY <1>3, <1>5, ReplyGood
<1>8. w.sock[c].unread => Clean(w, Reply(taken, c, data, close), t, a, gone, c)
  BY <1>6, <1>7, CleanTransitive
<1> QED
  BY <1>2, <1>8, CleanReflexive, HandleCloseGood

(* The whole of an event.  Without resets there is no hang-up.             *)
LEMMA HandleEventGood ==
  ASSUME NEW w \in Servers(Conns, AllLoops, {"m"}), NEW c \in Conns, NEW t, NEW a, NEW gone,
         Good(w, t, a, gone, c), w.conn[c].loop = Base => ~gone,
         "in" \in w.conn[c].revents_ => w.conn[c].state_ # "kDisconnected",
         NEW data \in Seq({"m"}), NEW close
  PROVE  Clean(w, HandleEventWithGuard(w, c, data, close), t, a, gone, c)
<1> DEFINE revents == w.conn[c].revents_
           input == IF "in" \in revents THEN HandleRead(w, c, data, close) ELSE w
<1>1. HandleEventWithGuard(w, c, data, close) =
        IF "out" \in revents THEN HandleWrite(input, c) ELSE input
  BY DEF HandleEventWithGuard, Good, ChannelInv
<1>2. Clean(w, input, t, a, gone, c)
  BY HandleReadGood, CleanReflexive
<1>3. Works(Conns, AllLoops, {"m"}, w, input, c)
  BY HandleReadWorks, WorksReflexive, LoopFacts
<1> HIDE DEF input
<1>4. Clean(input, HandleWrite(input, c), t, a, gone, c)
  BY <1>2, <1>3, HandleWriteGood DEF Clean, Fine, Works, Touches, Alike
<1>5. Clean(w, HandleWrite(input, c), t, a, gone, c)
  BY <1>2, <1>4, CleanTransitive
<1> QED
  BY <1>1, <1>2, <1>5

-----------------------------------------------------------------------------
(* What a step does to the queues. *)

(* From p, of which q are in the vector being run, to p2 and q2: functors  *)
(* go, or the queue becomes the vector.                                    *)
Shrinks(p, q, p2, q2) ==
  \/ p2 \subseteq p /\ q2 \subseteq q
  \/ p2 = {} /\ q = {} /\ q2 \subseteq p

LEMMA QueueShrinks ==
  ASSUME NEW w, NEW t, NEW a, NEW v, NEW t2, NEW a2, NEW gone, NEW c,
         \A ops : \A m \in AllLoops :
           Shrinks(Due(w.pendingFunctors_[m], 1, c, ops), Due(t[m], a[m], c, ops),
                   Due(v.pendingFunctors_[m], 1, c, ops), Due(t2[m], a2[m], c, ops)),
         v.conn[c].state_ = w.conn[c].state_, v.connections_ = w.connections_,
         v.failed = w.failed, v.sock[c].rst = w.sock[c].rst,
         QueueInv(w, t, a, gone, c)
  PROVE  QueueInv(v, t2, a2, gone, c)
<1>1. \A ops : NoneDue(w, t, a, c, ops) => NoneDue(v, t2, a2, c, ops)
  BY DEF NoneDue, Shrinks
<1>2. \A ops : OneDue(w, t, a, Base, c, ops) => OneDue(v, t2, a2, Base, c, ops)
  <2> SUFFICES ASSUME NEW ops, OneDue(w, t, a, Base, c, ops)
               PROVE  OneDue(v, t2, a2, Base, c, ops)
    OBVIOUS
  <2>1. Base \in AllLoops
    BY LoopFacts
  <2>2. Shrinks(Due(w.pendingFunctors_[Base], 1, c, ops), Due(t[Base], a[Base], c, ops),
                Due(v.pendingFunctors_[Base], 1, c, ops), Due(t2[Base], a2[Base], c, ops))
    BY <2>1
  <2> QED
    BY <2>2 DEF OneDue, Shrinks
<1> QED
  BY <1>1, <1>2 DEF QueueInv

(* The vector's next functor is taken.                                     *)
LEMMA TakenDue ==
  ASSUME NEW t, NEW a \in [AllLoops -> Nat], NEW l \in AllLoops,
         Len(t[l]) \in Nat, a[l] \in 1..Len(t[l]), NEW c, NEW ops
  PROVE  LET b == [a EXCEPT ![l] = @ + 1]
         IN  /\ \A m \in AllLoops : Due(t[m], b[m], c, ops) \subseteq Due(t[m], a[m], c, ops)
             /\ a[l] \notin Due(t[l], b[l], c, ops)
<1> DEFINE b == [a EXCEPT ![l] = @ + 1]
<1>1. b[l] = a[l] + 1 /\ \A m \in AllLoops : m # l => b[m] = a[m]
  OBVIOUS
<1>2. /\ Due(t[l], a[l] + 1, c, ops) \subseteq Due(t[l], a[l], c, ops)
      /\ a[l] \notin Due(t[l], a[l] + 1, c, ops)
  BY DEF Due
<1> HIDE DEF b
<1>3. \A m \in AllLoops : Due(t[m], b[m], c, ops) \subseteq Due(t[m], a[m], c, ops)
  BY <1>1, <1>2
<1>4. a[l] \notin Due(t[l], b[l], c, ops)
  BY <1>1, <1>2
<1> QED
  BY <1>3, <1>4 DEF b

LEMMA TakenGood ==
  ASSUME NEW w, NEW t, NEW a \in [AllLoops -> Nat], NEW gone, NEW c, Good(w, t, a, gone, c),
         NEW l \in AllLoops, Len(t[l]) \in Nat, a[l] \in 1..Len(t[l]),
         NEW b, b = [a EXCEPT ![l] = @ + 1]
  PROVE  Good(w, t, b, gone, c)
<1>1. ASSUME NEW ops, NEW m \in AllLoops
      PROVE  Due(t[m], b[m], c, ops) \subseteq Due(t[m], a[m], c, ops)
  BY TakenDue
<1>2. QueueInv(w, t, b, gone, c)
  <2>1. QueueInv(w, t, a, gone, c)
    BY DEF Good
  <2>2. \A ops : \A m \in AllLoops :
           Shrinks(Due(w.pendingFunctors_[m], 1, c, ops), Due(t[m], a[m], c, ops),
                   Due(w.pendingFunctors_[m], 1, c, ops), Due(t[m], b[m], c, ops))
    BY <1>1 DEF Shrinks
  <2> QED
    BY <2>1, <2>2, QueueShrinks
<1> QED
  BY <1>2 DEF Good

(* A functor of another connection, or one that Torn does not count.        *)
LEMMA TakenTorn ==
  ASSUME NEW w, NEW t, NEW a \in [AllLoops -> Nat], NEW c, Torn(w, t, a, c),
         NEW l \in AllLoops, Len(t[l]) \in Nat, a[l] \in 1..Len(t[l]),
         t[l][a[l]].conn # c \/ t[l][a[l]].op = "closeConnectionInLoop",
         w.conn[c].loop \in AllLoops,
         NEW b, b = [a EXCEPT ![l] = @ + 1]
  PROVE  Torn(w, t, b, c)
<1>1. b[l] = a[l] + 1 /\ \A m \in AllLoops : m # l => b[m] = a[m]
  OBVIOUS
<1>2. \A ops : "closeConnectionInLoop" \notin ops =>
        \A m \in AllLoops : Due(t[m], b[m], c, ops) = Due(t[m], a[m], c, ops)
  <2> SUFFICES ASSUME NEW ops, "closeConnectionInLoop" \notin ops
               PROVE  Due(t[l], a[l] + 1, c, ops) = Due(t[l], a[l], c, ops)
    BY <1>1
  <2> DEFINE s == t[l]
             n == a[l]
  <2>1. Len(s) \in Nat /\ n \in 1..Len(s) /\ (s[n].conn # c \/ s[n].op \notin ops)
    OBVIOUS
  <2> HIDE DEF s, n
  <2>2. Due(s, n + 1, c, ops) = Due(s, n, c, ops)
    BY <2>1, DueNext
  <2> QED
    BY <2>2 DEF s, n
<1>3. /\ "closeConnectionInLoop" \notin {"sendInLoop"}
      /\ "closeConnectionInLoop" \notin {"connectionDestroyed"}
      /\ "closeConnectionInLoop" \notin Removals
  BY DEF Removals
<1>4. \A ops : "closeConnectionInLoop" \notin ops =>
        /\ NoneDue(w, t, b, c, ops) <=> NoneDue(w, t, a, c, ops)
        /\ \A m \in AllLoops : OneDue(w, t, b, m, c, ops) <=> OneDue(w, t, a, m, c, ops)
  BY <1>2 DEF NoneDue, OneDue
<1> QED
  BY <1>3, <1>4 DEF Torn

(* Work on another connection.                                             *)
LEMMA OtherGood ==
  ASSUME NEW w \in Servers(Conns, AllLoops, {"m"}), NEW v, NEW c \in Conns,
         Works(Conns, AllLoops, {"m"}, w, v, c), NEW d \in Conns, d # c,
         NEW t, NEW a, NEW gone, Good(w, t, a, gone, d), ~v.failed
  PROVE  Good(v, t, a, gone, d)
<1>1. /\ v.conn[d] = w.conn[d] /\ v.sock[d] = w.sock[d]
      /\ d \in v.connections_ <=> d \in w.connections_
  BY DEF Works, Touches
<1>2. \A ops : \A m \in AllLoops :
        Due(v.pendingFunctors_[m], 1, d, ops) = Due(w.pendingFunctors_[m], 1, d, ops)
  <2> SUFFICES ASSUME NEW ops, NEW m \in AllLoops
               PROVE  Due(v.pendingFunctors_[m], 1, d, ops) = Due(w.pendingFunctors_[m], 1, d, ops)
    OBVIOUS
  <2> DEFINE p == w.pendingFunctors_[m]
             q == v.pendingFunctors_[m]
  <2>1. /\ p \in Seq(Functors(Conns)) /\ q \in Seq(Functors(Conns))
        /\ Extends(p, q, m, w.conn[c].loop, c)
    BY DEF Works, Touches, Servers
  <2> HIDE DEF p, q
  <2>2. Due(q, 1, d, ops) = Due(p, 1, d, ops)
    BY <2>1, DueElsewhere
  <2> QED
    BY <2>2 DEF p, q
<1>3. \A ops : NoneDue(w, t, a, d, ops) => NoneDue(v, t, a, d, ops)
  BY <1>2 DEF NoneDue
<1>4. \A ops : OneDue(w, t, a, Base, d, ops) => OneDue(v, t, a, Base, d, ops)
  <2>1. Base \in AllLoops
    BY LoopFacts
  <2> QED
    BY <1>2, <2>1 DEF OneDue
<1> QED
  BY <1>1, <1>3, <1>4 DEF Good, QueueInv

(* Closed, its channel still registered.                                   *)
Closed(w, t, a, c) ==
  /\ NoneDue(w, t, a, c, {"sendInLoop"})
  /\ w.conn[c].index_ = "kAdded"
  /\ ~w.conn[c].writing_

Removes(w, v, t, a, gone, c) ==
  Fine(w, v, t, a, gone, c) /\ (Closed(w, t, a, c) => Torn(v, t, a, c))

(* removeConnectionInLoop, queued in the base loop and run there.          *)
LEMMA RemovalGood ==
  ASSUME NEW w \in Servers(Conns, AllLoops, {"m"}), NEW c \in Conns, NEW t, NEW a, NEW gone,
         Good(w, t, a, gone, c), ~gone, c \in w.connections_,
         w.conn[c].state_ = "kDisconnected", NoneDue(w, t, a, c, Removals)
  PROVE  Removes(w, RemoveConnectionInLoop(w, c), t, a, gone, c)
<1> DEFINE l == w.conn[c].loop
           x == [w EXCEPT !.connections_ = @ \ {c}]
           y == QueueInLoop(x, l, "connectionDestroyed", c)
<1>1. RemoveConnectionInLoop(w, c) = y
  BY DEF RemoveConnectionInLoop
<1>2. l \in AllLoops
  BY DEF Servers, Connections
<1>3. /\ x \in Servers(Conns, AllLoops, {"m"})
      /\ x.conn = w.conn /\ x.sock = w.sock /\ x.connections_ = w.connections_ \ {c}
      /\ x.pendingFunctors_ = w.pendingFunctors_ /\ x.failed = w.failed
  BY EraseWorks DEF Works
<1> HIDE DEF x, l
<1>4. /\ y.conn = x.conn /\ y.sock = x.sock /\ y.connections_ = x.connections_
      /\ y.failed = x.failed
  BY <1>3 DEF QueueInLoop, Servers
<1>5. \A ops : "connectionDestroyed" \notin ops =>
        \A m \in AllLoops : Due(y.pendingFunctors_[m], 1, c, ops) = Due(w.pendingFunctors_[m], 1, c, ops)
  BY <1>2, <1>3, QueueDue DEF Ops
<1>13. y = QueueInLoop(x, l, "connectionDestroyed", c)
  OBVIOUS
<1>14. PICK op \in Ops : op = "connectionDestroyed"
  BY DEF Ops
<1>15. y = QueueInLoop(x, l, op, c)
  BY <1>14
<1> HIDE DEF y
<1>11. \E m \in AllLoops : \E i \in 1..Len(y.pendingFunctors_[m]) : y.pendingFunctors_[m][i].conn = c
  BY <1>2, <1>3, <1>13, QueueKeeps
<1>12. Kept(y.connections_, y.pendingFunctors_, c)
  BY <1>11 DEF Kept
<1>6. \A ops : "connectionDestroyed" \notin ops /\ NoneDue(w, t, a, c, ops) => NoneDue(y, t, a, c, ops)
  BY <1>5 DEF NoneDue
<1>7. /\ NoneDue(y, t, a, c, {"removeConnectionFromMapInLoop"})
      /\ NoneDue(y, t, a, c, Removals)
  BY <1>6 DEF Removals, Good, QueueInv
<1>8. OneDue(y, t, a, Base, c, Removals)
  <2>1. Base \in AllLoops
    BY LoopFacts
  <2> QED
    BY <1>7, <2>1 DEF NoneDue, OneDue
<1>9. QueueInv(y, t, a, gone, c)
  BY <1>3, <1>4, <1>7, <1>8 DEF QueueInv, Good
<1>10. Good(y, t, a, gone, c) /\ Forward(w, y, c)
  BY <1>3, <1>4, <1>9, <1>12 DEF Good, Forward
<1>16. ASSUME Closed(w, t, a, c)
       PROVE  Torn(y, t, a, c)
  <2> DEFINE n == Len(x.pendingFunctors_[l]) + 1
             P == Due(y.pendingFunctors_[l], 1, c, {"connectionDestroyed"})
             Q == Due(t[l], a[l], c, {"connectionDestroyed"})
  <2>1. NoneDue(y, t, a, c, {"sendInLoop"})
    BY <1>6, <1>16 DEF Closed
  <2>2. NoneDue(w, t, a, c, {"connectionDestroyed"})
    BY DEF Good, QueueInv
  <2>3. ASSUME NEW ops, op \in ops
        PROVE  Due(y.pendingFunctors_[l], 1, c, ops) =
                 Due(x.pendingFunctors_[l], 1, c, ops) \cup {n}
    BY <1>2, <1>3, <1>15, <2>3, QueueDue
  <2> HIDE DEF n
  <2>4. P = {n} /\ Q = {}
    BY <1>2, <1>3, <1>14, <2>2, <2>3 DEF NoneDue
  <2> HIDE DEF P, Q
  <2>5. (\A i, j \in P : i = j) /\ (\A i, j \in Q : i = j) /\ (P = {} \/ Q = {}) /\ P # {}
    BY <2>4
  <2>6. OneDue(y, t, a, l, c, {"connectionDestroyed"})
    BY <2>5 DEF OneDue, P, Q
  <2>7. ~NoneDue(y, t, a, c, {"connectionDestroyed"})
    BY <1>2, <2>5 DEF NoneDue, P
  <2>8. c \notin y.connections_ /\ y.conn[c] = w.conn[c]
    BY <1>3, <1>4
  <2> QED
    BY <1>16, <2>1, <2>6, <2>7, <2>8 DEF Closed, Torn, l
<1> QED
  BY <1>1, <1>10, <1>16 DEF Fine, Removes

LEMMA ConnectionDestroyedGood ==
  ASSUME NEW w \in Servers(Conns, AllLoops, {"m"}), NEW c \in Conns, NEW t, NEW a, NEW gone,
         Good(w, t, a, gone, c), w.conn[c].state_ = "kDisconnected"
  PROVE  /\ Fine(w, ConnectionDestroyed(w, c), t, a, gone, c)
         /\ /\ c \notin w.connections_
            /\ NoneDue(w, t, a, c, {"sendInLoop"})
            /\ NoneDue(w, t, a, c, {"connectionDestroyed"})
            => Torn(ConnectionDestroyed(w, c), t, a, c)
<1> DEFINE k == Remove(w.conn[c])
           v == [w EXCEPT !.conn[c] = k]
<1>1. ConnectionDestroyed(w, c) = v
  BY DEF ConnectionDestroyed
<1>2. w.conn[c] \in Connections(AllLoops, {"m"})
  BY DEF Servers
<1>3. /\ ChannelInv(k) /\ k.state_ = "kDisconnected" /\ k.revents_ = w.conn[c].revents_
      /\ k \in Connections(AllLoops, {"m"}) /\ Alike(k, w.conn[c])
      /\ k.index_ = "kNew" /\ ~k.writing_
  BY <1>2, DestroyChannel, ChannelTyped, ChannelAlike DEF Good
<1> HIDE DEF k
<1>4. /\ v \in Servers(Conns, AllLoops, {"m"})
      /\ v.conn[c] = k /\ v.sock = w.sock /\ v.connections_ = w.connections_
      /\ v.pendingFunctors_ = w.pendingFunctors_ /\ v.failed = w.failed
  BY <1>3, PutConnection DEF Works
<1> HIDE DEF v
<1>5. QueueInv(v, t, a, gone, c)
  BY <1>3, <1>4, QueueKept DEF Good
<1>6. ASSUME c \notin w.connections_,
             NoneDue(w, t, a, c, {"sendInLoop"}), NoneDue(w, t, a, c, {"connectionDestroyed"})
      PROVE  Torn(v, t, a, c)
  <2>1. NoneDue(v, t, a, c, {"sendInLoop"}) /\ NoneDue(v, t, a, c, {"connectionDestroyed"})
    BY <1>4, <1>6 DEF NoneDue
  <2>2. k.loop \in AllLoops
    BY <1>3 DEF Connections
  <2>3. OneDue(v, t, a, k.loop, c, {"connectionDestroyed"})
    BY <2>1, <2>2 DEF OneDue, NoneDue
  <2> QED
    BY <1>3, <1>4, <1>6, <2>1, <2>3 DEF Torn
<1> QED
  BY <1>1, <1>3, <1>4, <1>5, <1>6 DEF Fine, Forward, Good

(* A functor that runs was due.                                            *)
LEMMA RunWasDue ==
  ASSUME NEW w, NEW t, NEW a, NEW l \in AllLoops, Len(t[l]) \in Nat, a[l] \in 1..Len(t[l]),
         NEW ops, t[l][a[l]].op \in ops
  PROVE  /\ a[l] \in Due(t[l], a[l], t[l][a[l]].conn, ops)
         /\ ~NoneDue(w, t, a, t[l][a[l]].conn, ops)
<1>1. a[l] \in Due(t[l], a[l], t[l][a[l]].conn, ops)
  BY DEF Due
<1> QED
  BY <1>1 DEF NoneDue

(* A functor that was run, the indices a now b.                            *)
Ran(w, v, t, a, b, gone, c) ==
  /\ Fine(w, v, t, b, gone, c)
  /\ ~gone /\ Torn(w, t, a, c) => Torn(v, t, b, c)

LEMMA RunGood ==
  ASSUME NEW w \in Servers(Conns, AllLoops, {"m"}), NEW t, NEW a \in [AllLoops -> Nat], NEW gone,
         NEW l \in AllLoops, Len(t[l]) \in Nat, a[l] \in 1..Len(t[l]),
         NEW f, f = t[l][a[l]], NEW c \in Conns, f.conn = c, f.op \in Ops,
         l = (IF f.op \in Removals THEN Base ELSE w.conn[c].loop),
         l = Base => ~gone,
         \A m \in AllLoops : m # Base =>
           Due(w.pendingFunctors_[m], 1, c, Removals) = {} /\ Due(t[m], a[m], c, Removals) = {},
         \A m \in AllLoops : m # w.conn[c].loop =>
           /\ Due(w.pendingFunctors_[m], 1, c, {"connectionDestroyed"}) = {}
           /\ Due(t[m], a[m], c, {"connectionDestroyed"}) = {},
         Good(w, t, a, gone, c), NEW data \in Seq({"m"}),
         NEW b, b = [a EXCEPT ![l] = @ + 1]
  PROVE  Ran(w, RunFunctor(w, f, data), t, a, b, gone, c)
<1>1. Good(w, t, b, gone, c)
  BY TakenGood
<1>2. \A ops : f.op \in ops => a[l] \in Due(t[l], a[l], c, ops) /\ ~NoneDue(w, t, a, c, ops)
  BY RunWasDue
<1>3. QueueInv(w, t, a, gone, c)
  BY DEF Good
<1>9. b[l] = a[l] + 1 /\ \A m \in AllLoops : m # l => b[m] = a[m]
  OBVIOUS
<1>11. \A ops : /\ Due(t[l], b[l], c, ops) \subseteq Due(t[l], a[l], c, ops)
                /\ a[l] \notin Due(t[l], b[l], c, ops)
  BY <1>9, DueNext
<1>10. \A ops : NoneDue(w, t, a, c, ops) => NoneDue(w, t, b, c, ops)
  BY <1>9, <1>11 DEF NoneDue
<1>4. CASE f.op = "connectionDestroyed"
  <2>1. w.conn[c].state_ = "kDisconnected"
    BY <1>2, <1>3, <1>4 DEF QueueInv
  <2>2. l = w.conn[c].loop
    BY <1>4 DEF Removals
  <2>3. ASSUME Torn(w, t, a, c)
        PROVE  /\ c \notin w.connections_
               /\ NoneDue(w, t, b, c, {"sendInLoop"})
               /\ NoneDue(w, t, b, c, {"connectionDestroyed"})
    <3> DEFINE P == Due(w.pendingFunctors_[l], 1, c, {"connectionDestroyed"})
               Q == Due(t[l], a[l], c, {"connectionDestroyed"})
               R == Due(t[l], b[l], c, {"connectionDestroyed"})
    <3>1. c \notin w.connections_
      BY <1>2, <1>3, <1>4 DEF QueueInv
    <3>2. NoneDue(w, t, b, c, {"sendInLoop"})
      BY <1>10, <2>3 DEF Torn
    <3>3. R \subseteq Q /\ a[l] \notin R /\ a[l] \in Q
      BY <1>2, <1>4, <1>11
    <3>4. (\A i, j \in Q : i = j) /\ (P = {} \/ Q = {})
      BY <2>2, <2>3 DEF Torn, OneDue
    <3> HIDE DEF P, Q, R
    <3>5. P = {} /\ R = {}
      BY <3>3, <3>4
    <3>6. NoneDue(w, t, b, c, {"connectionDestroyed"})
      BY <1>9, <2>2, <3>5 DEF NoneDue, P, R
    <3> QED
      BY <3>1, <3>2, <3>6
  <2> QED
    BY <1>1, <1>4, <2>1, <2>3, ConnectionDestroyedGood DEF RunFunctor, Ran
<1>5. CASE f.op = "closeConnectionInLoop"
  <2>1. w.conn[c].loop = Base => ~gone
    BY <1>5 DEF Removals
  <2>2. w.conn[c].loop \in AllLoops
    BY DEF Servers, Connections
  <2>3. Torn(w, t, a, c) => Torn(w, t, b, c)
    BY <1>5, <2>2, TakenTorn
  <2>4. Clean(w, CloseConnectionInLoop(w, c), t, b, gone, c)
    BY <1>1, <2>1, CloseConnectionGood
  <2> QED
    BY <1>5, <2>3, <2>4 DEF RunFunctor, Ran, Clean, Tidy
<1>6. CASE f.op = "sendInLoop"
  <2>1. w.conn[c].state_ # "kConnecting"
    BY <1>2, <1>3, <1>6 DEF QueueInv
  <2>2. ~Torn(w, t, a, c)
    BY <1>2, <1>6 DEF Torn
  <2> QED
    BY <1>1, <1>6, <2>1, <2>2, SendInLoopGood DEF RunFunctor, Ran
<1>7. CASE f.op = "removeConnectionInLoop"
  <2>1. l = Base /\ f.op \in Removals
    BY <1>7 DEF Removals
  <2>2. a[l] \in Due(t[l], a[l], c, Removals) /\ ~NoneDue(w, t, a, c, Removals)
    BY <1>2, <2>1
  <2>3. ~gone /\ c \in w.connections_ /\ w.conn[c].state_ = "kDisconnected"
    <3>1. f.op \in Removals \cup {"connectionDestroyed"}
      BY <2>1
    <3>2. ~NoneDue(w, t, a, c, Removals \cup {"connectionDestroyed"})
      BY <1>2, <3>1
    <3> QED
      BY <1>3, <2>1, <2>2, <3>2 DEF QueueInv
  <2>4. Due(w.pendingFunctors_[Base], 1, c, Removals) = {} /\ Due(t[Base], b[Base], c, Removals) = {}
    <3>1. OneDue(w, t, a, Base, c, Removals)
      BY <1>3 DEF QueueInv
    <3> DEFINE P == Due(w.pendingFunctors_[Base], 1, c, Removals)
               Q == Due(t[Base], a[Base], c, Removals)
               R == Due(t[Base], b[Base], c, Removals)
    <3>2. R \subseteq Q /\ a[Base] \notin R /\ a[Base] \in Q
      BY <1>11, <2>1, <2>2
    <3>3. (\A i, j \in Q : i = j) /\ (P = {} \/ Q = {})
      BY <3>1 DEF OneDue
    <3> HIDE DEF P, Q, R
    <3>4. P = {} /\ R = {}
      BY <3>2, <3>3
    <3> QED
      BY <3>4 DEF P, R
  <2>5. NoneDue(w, t, b, c, Removals)
    <3>1. \A m \in AllLoops : m # Base => b[m] = a[m]
      BY <2>1
    <3> QED
      BY <2>4, <3>1 DEF NoneDue
  <2>6. Torn(w, t, a, c) => Closed(w, t, b, c)
    BY <1>10, <2>3 DEF Torn, Closed
  <2>8. w.conn[c].state_ = "kDisconnected"
    BY <2>3
  <2>7. /\ Fine(w, RemoveConnectionInLoop(w, c), t, b, gone, c)
        /\ Closed(w, t, b, c) => Torn(RemoveConnectionInLoop(w, c), t, b, c)
    <3>1. Removes(w, RemoveConnectionInLoop(w, c), t, b, gone, c)
      BY <1>1, <2>3, <2>5, <2>8, RemovalGood
    <3> QED
      BY <3>1 DEF Removes
  <2> QED
    BY <1>7, <2>6, <2>7 DEF RunFunctor, Ran
<1>8. CASE f.op = "removeConnectionFromMapInLoop"
  BY <1>2, <1>3, <1>8 DEF QueueInv
<1> QED
  BY <1>4, <1>5, <1>6, <1>7, <1>8 DEF Ops, Removals

-----------------------------------------------------------------------------
(* Each action keeps LifeInv.  A handler or functor of c first, run by any *)
(* thread.                                                                 *)

LEMMA StateIs ==
  ASSUME NEW v \in Servers(Conns, AllLoops, {"m"}), Becomes(v)
  PROVE  state' = v
BY DEF Becomes, state, Servers

(* A step in which a handler or functor of c leaves v of the state.        *)
Handled(c, v) ==
  /\ Created(c) /\ (Held(c) \/ v = state)
  /\ Works(Conns, AllLoops, {"m"}, state, v, c)
  /\ Becomes(v)
  /\ Fine(state, v, toRun, at', Gone, c)
  /\ UNCHANGED <<nextConnectionId_, where, toRun>>
  /\ \A d \in Conns : Created(d) => Good(state, toRun, at', Gone, d)
  /\ \A l \in AllLoops :
       /\ activeChannels'[l] \subseteq activeChannels[l]
       /\ c \in activeChannels'[l] => v.conn[c].state_ = conn[c].state_
  /\ \A d \in Conns : holder'[d] = "none" <=> holder[d] = "none"
  /\ ~Gone /\ holder[c] = "none" /\ Torn(state, toRun, at, c) => Torn(v, toRun, at', c)
  /\ \A d \in Conns : d # c /\ Torn(state, toRun, at, d) => Torn(state, toRun, at', d)

LEMMA LifeWork ==
  ASSUME ServerInv, LifeInv, NEW c \in Conns, NEW v, Handled(c, v)
  PROVE  LifeInv'
<1> USE DEF Handled
<1>1. /\ state' = v /\ v \in Servers(Conns, AllLoops, {"m"})
      /\ conn' = v.conn /\ failed' = v.failed
      /\ state \in Servers(Conns, AllLoops, {"m"}) /\ state.conn = conn
      /\ Gone' = Gone
      /\ \A d : Created(d)' = Created(d)
  BY StateIs DEF Works, Becomes, ServerInv, TypeOK, state, Gone, Created
<1>2. ~v.failed
  BY DEF Fine, Good, QueueInv
<1>3. \A d \in Conns : d # c => conn'[d] = conn[d]
  BY <1>1 DEF Works, Touches
<1>4. Alike(conn'[c], conn[c]) /\ Forward(state, v, c)
  BY <1>1 DEF Works, Touches, Fine
<1>5. ASSUME NEW d \in Conns, Created(d)
      PROVE  Good(v, toRun, at', Gone, d)
  <2>1. CASE d = c
    BY <2>1 DEF Fine
  <2>2. CASE d # c
    BY <1>1, <1>2, <1>5, <2>2, OtherGood
  <2> QED
    BY <2>1, <2>2
<1>6. \A d \in Conns : Created(d)' => Good(state, toRun, at, Gone, d)'
  BY <1>1, <1>5
<1>7. StageInv'
  <2>1. where[Base] \in Early => Newest \in Conns
    <3>1. nextConnectionId_ \in 0..MaxConns /\ MaxConns \in Nat
      BY BoundsAssumption DEF ServerInv, TypeOK
    <3>2. where[Base] \in Early => nextConnectionId_ > 0
      BY DEF ServerInv, AcceptInv, Establishing, Early
    <3> QED
      BY <3>1, <3>2 DEF Newest, Conns
  <2>2. where[Base] \in Early => conn[Newest].state_ = "kConnecting" /\ holder[Newest] = "none"
    BY DEF LifeInv, StageInv, StageAt
  <2>3. where[Base] \in Early => conn'[Newest] = conn[Newest] /\ holder'[Newest] = holder[Newest]
    BY <1>1, <1>3, <1>4, <2>1, <2>2 DEF Forward
  <2>4. Newest' = Newest
    BY DEF Newest
  <2>5. StageAt(conn'[Newest], holder'[Newest], where[Base])
    <3>1. CASE where[Base] \in Early
      BY <2>3, <3>1 DEF LifeInv, StageInv
    <3>2. CASE where[Base] \notin Early
      BY <3>2 DEF StageAt, Early
    <3> QED
      BY <3>1, <3>2
  <2> QED
    BY <2>4, <2>5 DEF StageInv
<1>9. NewestInv'
  <2> SUFFICES ASSUME NEW d \in Conns, Created(d)'
               PROVE  /\ conn'[d].state_ = "kConnecting" => d = Newest' /\ where'[Base] \in Early
                      /\ conn'[d].state_ = "kConnected" =>
                           conn'[d].context_ \/ (d = Newest' /\ where'[Base] \in Establishing)
    BY DEF NewestInv
  <2>1. /\ conn'[d].state_ = "kConnecting" => conn[d].state_ = "kConnecting"
        /\ conn'[d].state_ = "kConnected" => conn[d].state_ = "kConnected"
    BY <1>1, <1>3, <1>4 DEF Forward
  <2>2. conn'[d].context_ = conn[d].context_
    BY <1>3, <1>4 DEF Alike
  <2>3. Newest' = Newest /\ where' = where /\ Created(d)
    BY DEF Newest, Created
  <2>4. /\ conn[d].state_ = "kConnecting" => d = Newest /\ where[Base] \in Early
        /\ conn[d].state_ = "kConnected" =>
             conn[d].context_ \/ (d = Newest /\ where[Base] \in Establishing)
    BY <2>3 DEF LifeInv, NewestInv
  <2> QED
    BY <2>1, <2>2, <2>3, <2>4
<1>8. ReportInv'
  <2> SUFFICES ASSUME NEW l \in AllLoops, NEW d \in activeChannels'[l] \cap Conns,
                      "in" \in conn'[d].revents_
               PROVE  conn'[d].state_ # "kDisconnected"
    BY DEF ReportInv
  <2>1. conn'[d].revents_ = conn[d].revents_ /\ conn'[d].state_ = conn[d].state_
    BY <1>1, <1>3, <1>4 DEF Forward
  <2> QED
    BY <2>1 DEF LifeInv, ReportInv
<1>10. \A d \in Conns : sock'[d].rst = sock[d].rst
  BY DEF Works, Touches, Becomes, state
<1> QED
  BY <1>1, <1>2, <1>6, <1>7, <1>8, <1>9, <1>10 DEF LifeInv

LEMMA HandleEventHandled ==
  ASSUME ServerInv, LifeInv, NEW l \in AllLoops, NEW c \in Conns, HandleEvent(l, c)
  PROVE  \E v : Handled(c, v)
<1>1. /\ Created(c) /\ conn[c].loop = l /\ where[l] = "dispatch"
      /\ \A m \in AllLoops : c \in activeChannels[m] => m = l
  BY DEF HandleEvent, ServerInv, ActiveInv
<1>2. /\ UNCHANGED <<nextConnectionId_, where, toRun, at, holder>>
      /\ activeChannels' = [activeChannels EXCEPT ![l] = @ \ {c}]
      /\ c \in activeChannels[l]
  BY DEF HandleEvent, holderVars, acceptVars
<1>3. \A m \in AllLoops : /\ activeChannels'[m] \subseteq activeChannels[m]
                         /\ c \notin activeChannels'[m]
  BY <1>1, <1>2 DEF ServerInv, TypeOK
<1>4. state \in Servers(Conns, AllLoops, {"m"}) /\ state.conn = conn
  BY DEF ServerInv, TypeOK, state
<1>5. \A d \in Conns : Created(d) => Good(state, toRun, at, Gone, d)
  BY DEF LifeInv
<1>6. PICK v : /\ Becomes(v) /\ Works(Conns, AllLoops, {"m"}, state, v, c)
               /\ Clean(state, v, toRun, at, Gone, c)
               /\ Held(c) \/ v = state
  <2>1. CASE Held(c)
    <3>1. PICK data \in Messages \cup {<<>>}, close \in BOOLEAN :
            Becomes(HandleEventWithGuard(state, c, data, close))
      BY <2>1 DEF HandleEvent
    <3> DEFINE v == HandleEventWithGuard(state, c, data, close)
    <3>2. data \in Seq({"m"}) /\ Base \in AllLoops
      BY DataTyped, LoopFacts
    <3>3. Works(Conns, AllLoops, {"m"}, state, v, c)
      BY <1>4, <3>2, HandleEventWorks
    <3>4. conn[c].loop = Base => ~Gone
      BY <1>1 DEF Gone
    <3>5. "in" \in conn[c].revents_ => conn[c].state_ # "kDisconnected"
      BY <1>2 DEF LifeInv, ReportInv
    <3>6. Clean(state, v, toRun, at, Gone, c)
      BY <1>1, <1>4, <1>5, <3>2, <3>4, <3>5, HandleEventGood
    <3> QED
      BY <2>1, <3>1, <3>3, <3>6
  <2>2. CASE ~Held(c)
    <3>1. Becomes(state)
      BY <2>2 DEF HandleEvent, Becomes, state, serverVars
    <3>2. Works(Conns, AllLoops, {"m"}, state, state, c)
      BY <1>4, WorksReflexive
    <3>3. Clean(state, state, toRun, at, Gone, c)
      BY <1>1, <1>5, CleanReflexive
    <3> QED
      BY <3>1, <3>2, <3>3
  <2> QED
    BY <2>1, <2>2
<1>7. /\ Fine(state, v, toRun, at', Gone, c)
      /\ \A d \in Conns : Created(d) => Good(state, toRun, at', Gone, d)
      /\ ~Gone /\ Torn(state, toRun, at, c) => Torn(v, toRun, at', c)
      /\ \A d \in Conns : Torn(state, toRun, at, d) => Torn(state, toRun, at', d)
  BY <1>2, <1>5, <1>6 DEF Clean, Tidy
<1> QED
  BY <1>1, <1>2, <1>3, <1>6, <1>7 DEF Handled

LEMMA RunNextHandled ==
  ASSUME ServerInv, LifeInv, NEW l \in AllLoops, RunNext(l)
  PROVE  \E c \in Conns : \E v : Handled(c, v)
<1> DEFINE f == toRun[l][at[l]]
           c == f.conn
<1>1. /\ f \in Functors(Conns) /\ c \in Conns /\ Created(c) /\ InPlace(f, l)
      /\ at[l] \in 1..Len(toRun[l])
  BY NextFunctor
<1>2. /\ UNCHANGED <<nextConnectionId_, where, toRun, activeChannels, holder>>
      /\ at' = [at EXCEPT ![l] = @ + 1]
      /\ where[l] = "functors"
  BY DEF RunNext, holderVars, acceptVars
<1>3. /\ state \in Servers(Conns, AllLoops, {"m"}) /\ state.conn = conn
      /\ state.pendingFunctors_ = pendingFunctors_
      /\ at \in [AllLoops -> Nat] /\ Len(toRun[l]) \in Nat
  BY DEF ServerInv, TypeOK, state
<1>4. \A d \in Conns : Created(d) => Good(state, toRun, at, Gone, d)
  BY DEF LifeInv
<1>5. PICK data \in Messages : /\ Becomes(RunFunctor(state, f, data))
                               /\ Works(Conns, AllLoops, {"m"}, state, RunFunctor(state, f, data), c)
  BY NextFunctor
<1> DEFINE v == RunFunctor(state, f, data)
<1>6. /\ f.op \in Ops /\ data \in Seq({"m"})
      /\ l = (IF f.op \in Removals THEN Base ELSE conn[c].loop)
  BY <1>1, DataTyped DEF Functors, InPlace
<1>7. ASSUME NEW m \in AllLoops, m # Base
      PROVE  /\ Due(pendingFunctors_[m], 1, c, Removals) = {}
             /\ Due(toRun[m], at[m], c, Removals) = {}
  <2>1. \A i \in 1..Len(pendingFunctors_[m]) : pendingFunctors_[m][i].op \notin Removals
    BY <1>7 DEF ServerInv, QueuesInv, InPlace
  <2>2. \A i \in 1..Len(toRun[m]) : toRun[m][i].op \notin Removals
    BY <1>7 DEF ServerInv, QueuesInv, InPlace
  <2>3. at[m] \in Nat /\ at[m] >= 1
    BY DEF ServerInv, TypeOK
  <2> QED
    BY <2>1, <2>2, <2>3 DEF Due
<1>14. ASSUME NEW m \in AllLoops, m # conn[c].loop
       PROVE  /\ Due(pendingFunctors_[m], 1, c, {"connectionDestroyed"}) = {}
              /\ Due(toRun[m], at[m], c, {"connectionDestroyed"}) = {}
  <2>0. "connectionDestroyed" \notin Removals
    BY DEF Removals
  <2>1. \A i \in 1..Len(pendingFunctors_[m]) :
          pendingFunctors_[m][i].op = "connectionDestroyed" => pendingFunctors_[m][i].conn # c
    BY <1>14, <2>0 DEF ServerInv, QueuesInv, InPlace
  <2>2. \A i \in 1..Len(toRun[m]) :
          toRun[m][i].op = "connectionDestroyed" => toRun[m][i].conn # c
    BY <1>14, <2>0 DEF ServerInv, QueuesInv, InPlace
  <2>3. at[m] \in Nat /\ at[m] >= 1
    BY DEF ServerInv, TypeOK
  <2> QED
    BY <2>1, <2>2, <2>3 DEF Due
<1>8. l = Base => ~Gone
  BY <1>2 DEF Gone
<1> HIDE DEF f
<1>9. Ran(state, v, toRun, at, at', Gone, c)
  <2>1. /\ f = toRun[l][at[l]]
        /\ \A m \in AllLoops : m # Base =>
             /\ Due(state.pendingFunctors_[m], 1, c, Removals) = {}
             /\ Due(toRun[m], at[m], c, Removals) = {}
        /\ \A m \in AllLoops : m # state.conn[c].loop =>
             /\ Due(state.pendingFunctors_[m], 1, c, {"connectionDestroyed"}) = {}
             /\ Due(toRun[m], at[m], c, {"connectionDestroyed"}) = {}
        /\ l = (IF f.op \in Removals THEN Base ELSE state.conn[c].loop)
    BY <1>3, <1>6, <1>7, <1>14 DEF f
  <2> QED
    BY <1>1, <1>2, <1>3, <1>4, <1>6, <1>8, <2>1, RunGood
<1>10. \A d \in Conns : Created(d) => Good(state, toRun, at', Gone, d)
  BY <1>1, <1>2, <1>3, <1>4, TakenGood
<1>11. \A m \in AllLoops : c \in activeChannels'[m] => v.conn[c].state_ = conn[c].state_
  <2> SUFFICES ASSUME NEW m \in AllLoops, c \in activeChannels[m]
               PROVE  v.conn[c].state_ = conn[c].state_
    BY <1>2
  <2>1. conn[c].loop = m /\ where[m] # "functors"
    BY <1>1 DEF ServerInv, ActiveInv, Establishing
  <2>2. f.op \in Removals
    BY <1>2, <1>6, <2>1
  <2>3. conn[c].state_ = "kDisconnected"
    <3>1. f.op \in Removals \cup {"connectionDestroyed"}
      BY <2>2
    <3>2. ~NoneDue(state, toRun, at, c, Removals \cup {"connectionDestroyed"})
      BY <1>1, <1>3, <3>1, RunWasDue DEF f
    <3> QED
      BY <1>1, <1>3, <1>4, <3>2 DEF Good, QueueInv
  <2> QED
    BY <1>3, <1>9, <2>3 DEF Ran, Fine, Forward
<1>15. ASSUME NEW d \in Conns, d # c, Torn(state, toRun, at, d)
       PROVE  Torn(state, toRun, at', d)
  <2>1. toRun[l][at[l]].conn # d
    BY <1>15 DEF f
  <2>2. state.conn[d].loop \in AllLoops
    BY <1>3 DEF Servers, Connections
  <2> QED
    BY <1>1, <1>2, <1>3, <1>15, <2>1, <2>2, TakenTorn
<1>12. Held(c)
  BY <1>1 DEF Held, FunctorsOf, f
<1> HIDE DEF v, c
<1>13. Handled(c, v)
  BY <1>1, <1>2, <1>5, <1>9, <1>10, <1>11, <1>12, <1>15 DEF Handled, Ran, v
<1> QED
  BY <1>1, <1>13

LEMMA EndCallHandled ==
  ASSUME ServerInv, LifeInv, NEW c \in Conns, EndCall(c)
  PROVE  \E v : Handled(c, v)
<1> DEFINE op == IF holder[c] = "send" THEN "sendInLoop" ELSE "closeConnectionInLoop"
           v  == QueueInLoop(state, conn[c].loop, op, c)
<1>1. Becomes(v) /\ Works(Conns, AllLoops, {"m"}, state, v, c)
  BY EndCallWork
<1>2. /\ UNCHANGED <<nextConnectionId_, where, toRun, activeChannels, at>>
      /\ holder' = [holder EXCEPT ![c] = "idle"] /\ holder[c] # "none"
  BY DEF EndCall, loopVars, acceptVars
<1>3. Created(c)
  BY <1>2 DEF ServerInv, AcceptInv
<1>4. /\ state \in Servers(Conns, AllLoops, {"m"}) /\ state.conn = conn
      /\ conn[c].loop \in AllLoops
  BY StateParts DEF ServerInv, TypeOK, state, Connections
<1>5. \A d \in Conns : Created(d) => Good(state, toRun, at', Gone, d)
  BY <1>2 DEF LifeInv
<1>6. conn[c].state_ # "kConnecting"
  <2>1. conn[c].state_ = "kConnecting" => holder[c] = "none"
    BY <1>3 DEF LifeInv, NewestInv, StageInv, StageAt
  <2> QED
    BY <1>2, <2>1
<1>7. v.conn = conn
  BY <1>4 DEF QueueInLoop, Servers
<1> HIDE DEF op
<1>8. Fine(state, v, toRun, at', Gone, c)
  BY <1>3, <1>4, <1>5, <1>6, CallGood DEF op
<1>9. \A d \in Conns : holder'[d] = "none" <=> holder[d] = "none"
  BY <1>2 DEF ServerInv, TypeOK
<1>10. Held(c)
  BY <1>2 DEF Held
<1> HIDE DEF v
<1>11. Handled(c, v)
  BY <1>1, <1>2, <1>3, <1>5, <1>7, <1>8, <1>9, <1>10 DEF Handled
<1> QED
  BY <1>11

LEMMA HandledLife ==
  ASSUME ServerInv, LifeInv,
         \/ \E l \in AllLoops : RunNext(l) \/ \E c \in Conns : HandleEvent(l, c)
         \/ \E c \in Conns : EndCall(c)
  PROVE  /\ \E c \in Conns : \E v : Handled(c, v)
         /\ LifeInv'
<1>0. PICK c \in Conns : \E v : Handled(c, v)
  BY HandleEventHandled, RunNextHandled, EndCallHandled
<1>1. PICK v : Handled(c, v)
  BY <1>0
<1> QED
  BY <1>1, LifeWork

(* The steps that leave the connections as they are.                       *)
LEMMA FrameLife ==
  ASSUME LifeInv, UNCHANGED <<conn, nextConnectionId_, failed>>,
         \A c \in Conns : sock'[c].rst = sock[c].rst,
         \A c \in Conns : Created(c) => QueueInv(state', toRun', at', Gone', c),
         where'[Base] = where[Base] \/ (where[Base] \notin Establishing /\ where'[Base] \notin Establishing),
         \A l \in AllLoops : activeChannels'[l] \subseteq activeChannels[l],
         where[Base] \in Early => holder'[Newest] = holder[Newest]
  PROVE  LifeInv'
<1>1. state'.conn = conn /\ state.conn = conn /\ Newest' = Newest
      /\ \A c : Created(c)' <=> Created(c)
  BY DEF state, Newest, Created
<1>2. \A c \in Conns : Created(c) => Good(state', toRun', at', Gone', c)
  BY <1>1 DEF LifeInv, Good
<1>3. StageInv'
  <2>1. CASE where[Base] \in Early
    <3>1. where'[Base] = where[Base]
      BY <2>1 DEF Early, Establishing
    <3> QED
      BY <1>1, <2>1, <3>1 DEF LifeInv, StageInv
  <2>2. CASE where[Base] \notin Early
    <3>1. where'[Base] \notin Early
      BY <2>2 DEF Early, Establishing
    <3>2. StageAt(conn'[Newest'], holder'[Newest'], where'[Base])
      BY <3>1 DEF StageAt, Early
    <3> QED
      BY <3>2 DEF StageInv
  <2> QED
    BY <2>1, <2>2
<1>4. NewestInv'
  <2>1. (where[Base] \in Early => where'[Base] \in Early)
        /\ (where[Base] \in Establishing => where'[Base] \in Establishing)
    BY DEF Early, Establishing
  <2> SUFFICES ASSUME NEW d \in Conns, Created(d)'
               PROVE  /\ conn'[d].state_ = "kConnecting" => d = Newest' /\ where'[Base] \in Early
                      /\ conn'[d].state_ = "kConnected" =>
                           conn'[d].context_ \/ (d = Newest' /\ where'[Base] \in Establishing)
    BY DEF NewestInv
  <2>2. /\ conn[d].state_ = "kConnecting" => d = Newest /\ where[Base] \in Early
        /\ conn[d].state_ = "kConnected" =>
             conn[d].context_ \/ (d = Newest /\ where[Base] \in Establishing)
    BY <1>1 DEF LifeInv, NewestInv
  <2> QED
    BY <1>1, <2>1, <2>2
<1>5. ReportInv'
  BY DEF LifeInv, ReportInv
<1> QED
  BY <1>1, <1>2, <1>3, <1>4, <1>5 DEF LifeInv

(* Of those, the ones that leave the queues as they are.                   *)
LEMMA StillLife ==
  ASSUME LifeInv,
         UNCHANGED <<conn, nextConnectionId_, failed, connections_, pendingFunctors_,
                     toRun, at, activeChannels, Gone>>,
         \A c \in Conns : sock'[c].rst = sock[c].rst,
         where'[Base] = where[Base] \/ (where[Base] \notin Establishing /\ where'[Base] \notin Establishing),
         where[Base] \in Early => holder'[Newest] = holder[Newest]
  PROVE  LifeInv'
<1>1. /\ state'.conn = state.conn /\ state'.pendingFunctors_ = state.pendingFunctors_
      /\ state'.connections_ = state.connections_ /\ state'.failed = state.failed
      /\ state'.sock = sock' /\ state.sock = sock
  BY DEF state
<1>2. \A c \in Conns : Created(c) => QueueInv(state', toRun, at, Gone, c)
  BY <1>1, QueueKept DEF LifeInv, Good
<1> QED
  BY <1>2, FrameLife

LEMMA DoPendingFunctorsLife ==
  ASSUME ServerInv, LifeInv, NEW l \in AllLoops, DoPendingFunctors(l)
  PROVE  LifeInv'
<1> USE DEF DoPendingFunctors
<1>1. /\ pendingFunctors_ \in [AllLoops -> Seq(Functors(Conns))]
      /\ toRun \in [AllLoops -> Seq(Functors(Conns))] /\ at \in [AllLoops -> Nat]
      /\ where \in [AllLoops -> LoopPC]
  BY StateParts DEF ServerInv, TypeOK
<1>2. toRun[l] = <<>> /\ at[l] = 1
  BY DEF ServerInv, QueuesInv
<1>3. \A c, ops : Due(<<>>, 1, c, ops) = {}
  BY DueEmpty
<1>4. Gone' = Gone
  BY <1>1 DEF Gone
<1>5. ASSUME NEW c \in Conns, Created(c)
      PROVE  QueueInv(state', toRun', at', Gone', c)
  <2>1. ASSUME NEW ops, NEW m \in AllLoops
        PROVE  Shrinks(Due(pendingFunctors_[m], 1, c, ops), Due(toRun[m], at[m], c, ops),
                       Due(pendingFunctors_'[m], 1, c, ops), Due(toRun'[m], at'[m], c, ops))
    <3>1. CASE m = l
      BY <1>1, <1>2, <1>3, <3>1 DEF Shrinks
    <3>2. CASE m # l
      BY <1>1, <3>2 DEF Shrinks
    <3> QED
      BY <3>1, <3>2
  <2>2. /\ state'.conn = state.conn /\ state'.pendingFunctors_ = pendingFunctors_'
        /\ state.pendingFunctors_ = pendingFunctors_
        /\ state'.connections_ = state.connections_ /\ state'.failed = state.failed
        /\ state'.sock = state.sock
    BY DEF state
  <2>3. QueueInv(state, toRun, at, Gone, c)
    BY <1>5 DEF LifeInv, Good
  <2> QED
    BY <1>4, <2>1, <2>2, <2>3, QueueShrinks
<1>6. UNCHANGED <<conn, nextConnectionId_, failed, sock, activeChannels, holder>>
  BY DEF acceptVars, holderVars
<1>7. where'[Base] = where[Base] \/ (where[Base] \notin Establishing /\ where'[Base] \notin Establishing)
  BY <1>1 DEF Establishing
<1> QED
  BY <1>5, <1>6, <1>7, FrameLife

LEMMA FinishFunctorsLife ==
  ASSUME ServerInv, LifeInv, NEW l \in AllLoops, FinishFunctors(l)
  PROVE  LifeInv'
<1> USE DEF FinishFunctors
<1>1. /\ toRun \in [AllLoops -> Seq(Functors(Conns))] /\ at \in [AllLoops -> Nat]
      /\ where \in [AllLoops -> LoopPC]
  BY StateParts DEF ServerInv, TypeOK
<1>2. \A c, ops : Due(<<>>, 1, c, ops) = {}
  BY DueEmpty
<1>3. Gone' = Gone
  BY <1>1 DEF Gone
<1>4. ASSUME NEW c \in Conns, Created(c)
      PROVE  QueueInv(state', toRun', at', Gone', c)
  <2>1. ASSUME NEW ops, NEW m \in AllLoops
        PROVE  Shrinks(Due(pendingFunctors_[m], 1, c, ops), Due(toRun[m], at[m], c, ops),
                       Due(pendingFunctors_[m], 1, c, ops), Due(toRun'[m], at'[m], c, ops))
    <3>1. CASE m = l
      BY <1>1, <1>2, <3>1 DEF Shrinks
    <3>2. CASE m # l
      BY <1>1, <3>2 DEF Shrinks
    <3> QED
      BY <3>1, <3>2
  <2>2. /\ state'.conn = state.conn /\ state'.pendingFunctors_ = pendingFunctors_
        /\ state.pendingFunctors_ = pendingFunctors_
        /\ state'.connections_ = state.connections_ /\ state'.failed = state.failed
        /\ state'.sock = state.sock
    BY DEF state, serverVars
  <2>3. QueueInv(state, toRun, at, Gone, c)
    BY <1>4 DEF LifeInv, Good
  <2> QED
    BY <1>3, <2>1, <2>2, <2>3, QueueShrinks
<1>5. UNCHANGED <<conn, nextConnectionId_, failed, sock, activeChannels, holder>>
  BY DEF acceptVars, holderVars, serverVars
<1>6. where'[Base] = where[Base] \/ (where[Base] \notin Establishing /\ where'[Base] \notin Establishing)
  BY <1>1 DEF Establishing
<1> QED
  BY <1>4, <1>5, <1>6, FrameLife

LEMMA DestroyLoopLife ==
  ASSUME ServerInv, LifeInv, NEW l \in AllLoops, DestroyLoop(l)
  PROVE  LifeInv'
<1> USE DEF DestroyLoop, MayDestroy
<1>1. /\ pendingFunctors_ \in [AllLoops -> Seq(Functors(Conns))]
      /\ where \in [AllLoops -> LoopPC]
  BY StateParts DEF ServerInv, TypeOK
<1>2. \A c, ops : Due(<<>>, 1, c, ops) = {}
  BY DueEmpty
<1>3. Gone' = Gone
  BY <1>1, LoopFacts DEF Gone
<1>4. ASSUME NEW c \in Conns, Created(c)
      PROVE  QueueInv(state', toRun', at', Gone', c)
  <2>1. ASSUME NEW ops, NEW m \in AllLoops
        PROVE  Shrinks(Due(pendingFunctors_[m], 1, c, ops), Due(toRun[m], at[m], c, ops),
                       Due(pendingFunctors_'[m], 1, c, ops), Due(toRun[m], at[m], c, ops))
    <3>1. CASE m = l
      BY <1>1, <1>2, <3>1 DEF Shrinks
    <3>2. CASE m # l
      BY <1>1, <3>2 DEF Shrinks
    <3> QED
      BY <3>1, <3>2
  <2>2. /\ state'.conn = state.conn /\ state'.pendingFunctors_ = pendingFunctors_'
        /\ state.pendingFunctors_ = pendingFunctors_
        /\ state'.connections_ = state.connections_ /\ state'.failed = state.failed
        /\ state'.sock = state.sock
    BY DEF state
  <2>3. QueueInv(state, toRun, at, Gone, c)
    BY <1>4 DEF LifeInv, Good
  <2> QED
    BY <1>3, <2>1, <2>2, <2>3, QueueShrinks
<1>5. UNCHANGED <<conn, nextConnectionId_, failed, sock, activeChannels, holder>>
  BY DEF acceptVars, holderVars
<1>6. where'[Base] = where[Base] \/ (where[Base] \notin Establishing /\ where'[Base] \notin Establishing)
  BY <1>1 DEF Establishing
<1> QED
  BY <1>4, <1>5, <1>6, FrameLife

LEMMA StartStopLife ==
  ASSUME ServerInv, LifeInv,
         \/ Start
         \/ StopBase
         \/ \E i \in 1..Len(Loops) : StopPoolLoop(i)
  PROVE  LifeInv'
<1> USE DEF StopBase, StopPoolLoop, StopLoop, serverVars, acceptVars, holderVars
<1>1. /\ UNCHANGED <<conn, nextConnectionId_, failed, connections_, pendingFunctors_,
                     toRun, at, activeChannels, sock, holder>>
      /\ where' = where \/ (where[Base] = "start" /\ where'[Base] = "poll")
  BY LoopFacts DEF Start
<1>2. Gone' = Gone
  BY <1>1 DEF Gone
<1>3. where'[Base] = where[Base] \/ (where[Base] \notin Establishing /\ where'[Base] \notin Establishing)
  BY <1>1 DEF Establishing
<1> QED
  BY <1>1, <1>2, <1>3, StillLife

LEMMA DestroyServerLife ==
  ASSUME ServerInv, LifeInv, DestroyServer
  PROVE  LifeInv'
<1> USE DEF DestroyServer
<1>1. /\ UNCHANGED <<conn, nextConnectionId_, failed, toRun, at, activeChannels, sock, holder>>
      /\ where[Base] = "ended" /\ where'[Base] = "joining"
  BY LoopFacts DEF acceptVars, holderVars, ServerInv, TypeOK
<1>2. Gone' /\ ~Gone
  BY <1>1 DEF Gone
<1>3. ASSUME NEW c \in Conns, Created(c)
      PROVE  QueueInv(state', toRun', at', Gone', c)
  <2>1. /\ state'.conn = state.conn /\ state'.pendingFunctors_ = state.pendingFunctors_
        /\ state'.connections_ = {} /\ state'.failed = state.failed
        /\ state'.sock = state.sock
    BY DEF state
  <2>2. QueueInv(state, toRun, at, Gone, c)
    BY <1>3 DEF LifeInv, Good
  <2>3. \A ops : NoneDue(state', toRun', at', c, ops) <=> NoneDue(state, toRun, at, c, ops)
    BY <1>1, <2>1 DEF NoneDue
  <2>4. OneDue(state', toRun', at', Base, c, Removals) <=> OneDue(state, toRun, at, Base, c, Removals)
    BY <1>1, <2>1 DEF OneDue
  <2> QED
    BY <1>2, <2>1, <2>2, <2>3, <2>4 DEF QueueInv
<1> QED
  BY <1>1, <1>3, FrameLife DEF Establishing, Early

LEMMA HolderLife ==
  ASSUME ServerInv, LifeInv, NEW c \in Conns,
         (\E call \in {"send", "closeConnection"} : BeginCall(c, call)) \/ Drop(c)
  PROVE  LifeInv'
<1> USE DEF BeginCall, Drop, serverVars, acceptVars, loopVars
<1>1. /\ UNCHANGED <<conn, nextConnectionId_, failed, connections_, pendingFunctors_,
                     toRun, at, activeChannels, sock, where>>
      /\ holder[c] = "idle" /\ \A d \in Conns : d # c => holder'[d] = holder[d]
  BY DEF ServerInv, TypeOK
<1>2. Gone' = Gone
  BY <1>1 DEF Gone
<1>3. where[Base] \in Early => Newest \in Conns /\ Newest # c
  <2>1. nextConnectionId_ \in 0..MaxConns /\ MaxConns \in Nat
    BY BoundsAssumption DEF ServerInv, TypeOK
  <2>2. where[Base] \in Early => nextConnectionId_ > 0
    BY DEF ServerInv, AcceptInv, Establishing, Early
  <2>3. where[Base] \in Early => holder[Newest] = "none"
    BY DEF LifeInv, StageInv, StageAt
  <2> QED
    BY <1>1, <2>1, <2>2, <2>3 DEF Newest, Conns
<1> QED
  BY <1>1, <1>2, <1>3, StillLife

LEMMA PeerLife ==
  ASSUME ServerInv, LifeInv, "reset" \notin Faults,
         PeerConnects \/ \E c \in Conns : PeerStep(c)
  PROVE  LifeInv'
<1> USE DEF serverVars, acceptVars, loopVars, holderVars
<1>1. /\ UNCHANGED <<conn, nextConnectionId_, failed, connections_, pendingFunctors_,
                     toRun, at, activeChannels, where, holder>>
      /\ \A c \in Conns : sock'[c].rst = sock[c].rst
  <2>1. CASE PeerConnects
    BY <2>1 DEF PeerConnects
  <2>2. ASSUME NEW c \in Conns, PeerStep(c)
        PROVE  /\ UNCHANGED <<conn, nextConnectionId_, failed, connections_, pendingFunctors_,
                              toRun, at, activeChannels, where, holder>>
               /\ \A d \in Conns : sock'[d].rst = sock[d].rst
    <3>1. sock[c] \in Sockets({"m"}) /\ sock \in [Conns -> Sockets({"m"})]
      BY StateParts DEF ServerInv
    <3>2. PICK s : PeerActs(c, s) /\ s.rst = sock[c].rst
      <4> DEFINE x == sock[c]
      <4>1. x \in Sockets({"m"})
        BY <3>1
      <4>2. \/ PeerActs(c, [x EXCEPT !.unread = TRUE, !.inputs = @ + 1])
            \/ PeerActs(c, [x EXCEPT !.fin = TRUE])
            \/ PeerActs(c, [x EXCEPT !.sending = <<>>])
        BY <2>2 DEF PeerStep, PeerSends, PeerCloses, PeerResets, PeerReads
      <4> HIDE DEF x
      <4>3. /\ [x EXCEPT !.unread = TRUE, !.inputs = @ + 1].rst = x.rst
            /\ [x EXCEPT !.fin = TRUE].rst = x.rst
            /\ [x EXCEPT !.sending = <<>>].rst = x.rst
        BY <4>1 DEF Sockets
      <4> QED
        BY <4>2, <4>3 DEF x
    <3> QED
      BY <3>1, <3>2 DEF PeerActs
  <2> QED
    BY <2>1, <2>2
<1>2. Gone' = Gone
  BY <1>1 DEF Gone
<1> QED
  BY <1>1, <1>2, StillLife

LEMMA PollLife ==
  ASSUME ServerInv, LifeInv, NEW l \in AllLoops, Poll(l)
  PROVE  LifeInv'
<1> USE DEF Poll
<1>1. /\ UNCHANGED <<nextConnectionId_, failed, connections_, pendingFunctors_,
                     toRun, at, sock, holder>>
      /\ where[l] = "poll" /\ where' = [where EXCEPT ![l] = "dispatch"]
      /\ conn \in [Conns -> Connections(AllLoops, {"m"})] /\ where \in [AllLoops -> LoopPC]
      /\ activeChannels' = [activeChannels EXCEPT ![l] = Active(l)]
      /\ activeChannels \in [AllLoops -> SUBSET (Conns \cup {Acceptor})]
  BY StateParts DEF acceptVars, holderVars, ServerInv, TypeOK
<1>2. Gone' = Gone /\ Newest' = Newest /\ \A c : Created(c)' <=> Created(c)
  BY <1>1 DEF Gone, Newest, Created
<1>3. ASSUME NEW c \in Conns
      PROVE  \E r : /\ conn'[c] = [conn[c] EXCEPT !.revents_ = r]
                    /\ r = conn[c].revents_ \/ (c \in Active(l) /\ r = Ready(c))
  <2>1. CASE c \in Active(l)
    BY <2>1
  <2>2. CASE c \notin Active(l)
    <3> DEFINE k == conn[c]
    <3>1. k \in Connections(AllLoops, {"m"}) /\ conn'[c] = k
      BY <1>1, <2>2
    <3> HIDE DEF k
    <3>2. [k EXCEPT !.revents_ = k.revents_] = k
      BY <3>1 DEF Connections
    <3> QED
      BY <3>1, <3>2 DEF k
  <2> QED
    BY <2>1, <2>2
<1>4. \A c \in Conns : Ready(c) \subseteq conn[c].interest
  BY DEF LifeInv, Ready
<1>5. ASSUME NEW c \in Conns
      PROVE  /\ Created(c) => ChannelInv(conn'[c])
             /\ conn'[c].state_ = conn[c].state_ /\ conn'[c].context_ = conn[c].context_
             /\ \A s : StageAt(conn[c], "none", s) => StageAt(conn'[c], "none", s)
             /\ conn'[c].revents_ = conn[c].revents_ \/ conn'[c].revents_ \subseteq conn[c].interest
  <2> DEFINE k == conn[c]
  <2>1. PICK r : /\ conn'[c] = [k EXCEPT !.revents_ = r]
                 /\ r = k.revents_ \/ r \subseteq k.interest
    BY <1>3, <1>4
  <2>2. k \in Connections(AllLoops, {"m"})
    BY <1>1
  <2>3. Created(c) => ChannelInv(k)
    BY DEF LifeInv, Good, state
  <2> HIDE DEF k
  <2> DEFINE j == [k EXCEPT !.revents_ = r]
  <2>4. /\ j.state_ = k.state_ /\ j.context_ = k.context_ /\ j.revents_ = r
        /\ j.outBuffer_ = k.outBuffer_ /\ j.writing_ = k.writing_ /\ j.index_ = k.index_
        /\ j.added = k.added /\ j.open = k.open /\ j.interest = k.interest
        /\ j.events_ = k.events_
    BY <2>2 DEF Connections
  <2>5. k.interest \subseteq Event
    BY <2>2 DEF Connections
  <2> HIDE DEF j
  <2>6. Created(c) => ChannelInv(j)
    BY <2>1, <2>3, <2>4, <2>5 DEF ChannelInv, Armed, Event
  <2>7. \A s : StageAt(k, "none", s) => StageAt(j, "none", s)
    BY <2>4 DEF StageAt
  <2> QED
    BY <2>1, <2>4, <2>6, <2>7 DEF j, k
<1>6. ASSUME NEW c \in Conns, Created(c)
      PROVE  Good(state', toRun', at', Gone', c)
  <2>1. /\ state'.conn = conn' /\ state.conn = conn
        /\ state'.pendingFunctors_ = state.pendingFunctors_
        /\ state'.connections_ = state.connections_ /\ state'.failed = state.failed
        /\ state'.sock = state.sock
    BY DEF state
  <2>2. QueueInv(state, toRun, at, Gone, c)
    BY <1>6 DEF LifeInv, Good
  <2>3. QueueInv(state', toRun, at, Gone, c)
    BY <1>5, <2>1, <2>2, QueueKept
  <2> QED
    BY <1>1, <1>2, <1>5, <1>6, <2>1, <2>3 DEF Good
<1>7. StageInv'
  <2>1. CASE where[Base] \in Early
    <3>1. where'[Base] = where[Base]
      BY <1>1, <2>1 DEF Early
    <3>2. Newest \in Conns
      <4>1. nextConnectionId_ \in 0..MaxConns /\ MaxConns \in Nat
        BY BoundsAssumption DEF ServerInv, TypeOK
      <4>2. nextConnectionId_ > 0
        BY <2>1 DEF ServerInv, AcceptInv, Establishing, Early
      <4> QED
        BY <4>1, <4>2 DEF Newest, Conns
    <3>3. holder[Newest] = "none" /\ StageAt(conn[Newest], "none", where[Base])
      BY <2>1 DEF LifeInv, StageInv, StageAt
    <3>4. StageAt(conn'[Newest], "none", where[Base])
      BY <1>5, <3>2, <3>3
    <3> QED
      BY <1>1, <1>2, <3>1, <3>3, <3>4 DEF StageInv
  <2>2. CASE where[Base] \notin Early
    <3>1. where'[Base] \notin Early
      BY <1>1, <2>2 DEF Early
    <3>2. StageAt(conn'[Newest'], holder'[Newest'], where'[Base])
      BY <3>1 DEF StageAt, Early
    <3> QED
      BY <3>2 DEF StageInv
  <2> QED
    BY <2>1, <2>2
<1>8. NewestInv'
  <2>1. (where[Base] \in Early => where'[Base] \in Early)
        /\ (where[Base] \in Establishing => where'[Base] \in Establishing)
    BY <1>1 DEF Early, Establishing
  <2> SUFFICES ASSUME NEW d \in Conns, Created(d)'
               PROVE  /\ conn'[d].state_ = "kConnecting" => d = Newest' /\ where'[Base] \in Early
                      /\ conn'[d].state_ = "kConnected" =>
                           conn'[d].context_ \/ (d = Newest' /\ where'[Base] \in Establishing)
    BY DEF NewestInv
  <2>2. /\ conn[d].state_ = "kConnecting" => d = Newest /\ where[Base] \in Early
        /\ conn[d].state_ = "kConnected" =>
             conn[d].context_ \/ (d = Newest /\ where[Base] \in Establishing)
    BY <1>2 DEF LifeInv, NewestInv
  <2>3. conn'[d].state_ = conn[d].state_ /\ conn'[d].context_ = conn[d].context_
    BY <1>5
  <2> QED
    BY <1>2, <2>1, <2>2, <2>3
<1>9. ReportInv'
  <2> SUFFICES ASSUME NEW m \in AllLoops, NEW d \in activeChannels'[m] \cap Conns,
                      "in" \in conn'[d].revents_
               PROVE  conn'[d].state_ # "kDisconnected"
    BY DEF ReportInv
  <2>0. d \in Conns
    OBVIOUS
  <2>1. conn'[d].state_ = conn[d].state_
    BY <1>5, <2>0
  <2>2. Created(d) /\ ChannelInv(conn[d])
    <3>1. Created(d)
      <4>1. d \in Active(l) => Created(d)
        BY <2>0, AcceptorAssumption DEF Active
      <4>2. d \in activeChannels[m] => Created(d)
        BY <2>0 DEF ServerInv, ActiveInv
      <4> QED
        BY <1>1, <4>1, <4>2
    <3> QED
      BY <3>1 DEF LifeInv, Good, state
  <2>3. CASE "in" \in conn[d].interest
    BY <2>1, <2>2, <2>3 DEF ChannelInv
  <2>4. CASE "in" \notin conn[d].interest
    <3>1. conn'[d].revents_ = conn[d].revents_ /\ "in" \in conn[d].revents_
      BY <1>5, <2>4
    <3>2. CASE m = l
      <4>1. d \in Active(l) /\ conn'[d] = [conn[d] EXCEPT !.revents_ = Ready(d)]
        BY <1>1, <3>2
      <4>2. conn'[d].revents_ = Ready(d)
        BY <1>1, <4>1 DEF Connections
      <4> QED
        BY <1>4, <2>4, <4>2
    <3>3. CASE m # l
      <4>1. d \in activeChannels[m]
        BY <1>1, <3>3
      <4> QED
        BY <2>1, <3>1, <4>1 DEF LifeInv, ReportInv
    <3> QED
      BY <3>2, <3>3
  <2> QED
    BY <2>3, <2>4
<1>10. ~failed' /\ \A c \in Conns : ~sock'[c].rst
  BY <1>1 DEF LifeInv
<1> QED
  BY <1>2, <1>6, <1>7, <1>8, <1>9, <1>10 DEF LifeInv

LEMMA NewConnetionLife ==
  ASSUME ServerInv, LifeInv, NewConnetion
  PROVE  LifeInv'
<1> USE DEF NewConnetion
<1> DEFINE n == nextConnectionId_
<1>1. /\ UNCHANGED <<sock, pendingFunctors_, failed, toRun, at, holder>>
      /\ n' = n + 1 /\ where[Base] = "dispatch" /\ where'[Base] = "enableReading"
      /\ connections_' = connections_ \cup {n}
      /\ \A l \in AllLoops : activeChannels'[l] \subseteq activeChannels[l]
  BY LoopFacts DEF holderVars, ServerInv, TypeOK
<1>2. n \in Nat /\ n \in Conns /\ ~Created(n)
  <2>1. backlog > 0 /\ backlog \in Nat /\ n \in Nat /\ n + backlog <= MaxConns
    BY LoopFacts DEF ServerInv, ActiveInv, AcceptInv, TypeOK
  <2> QED
    BY <2>1, BoundsAssumption DEF Conns, Created
<1>3. \A d \in Conns : Created(d)' <=> Created(d) \/ d = n
  BY <1>1, <1>2, BoundsAssumption DEF Conns, Created
<1>4. PICK open \in BOOLEAN : conn' = [conn EXCEPT ![n] = NewConnection(NextLoop, open)]
  OBVIOUS
<1> DEFINE k == NewConnection(NextLoop, open)
<1>5. /\ ChannelInv(k) /\ k.state_ = "kConnecting" /\ StageAt(k, "none", "enableReading")
  BY DEF NewConnection, ChannelInv, StageAt, Early, EmptyQueue, Readable
<1> HIDE DEF k
<1>6. conn'[n] = k /\ \A d \in Conns : d # n => conn'[d] = conn[d]
  BY <1>2, <1>4, StateParts DEF k, ServerInv
<1>7. Gone' = Gone
  BY <1>1 DEF Gone
<1>8. /\ state'.conn = conn' /\ state.conn = conn /\ state'.pendingFunctors_ = pendingFunctors_
      /\ state.pendingFunctors_ = pendingFunctors_ /\ state.connections_ = connections_
      /\ state'.connections_ = connections_' /\ state'.failed = failed /\ state.failed = failed
      /\ state'.sock = sock /\ state.sock = sock
  BY <1>1 DEF state
<1>9. ASSUME NEW d \in Conns, d # n, Created(d)
      PROVE  Good(state', toRun', at', Gone', d)
  <2>1. Good(state, toRun, at, Gone, d)
    BY <1>9 DEF LifeInv
  <2>2. \A ops : NoneDue(state', toRun, at, d, ops) <=> NoneDue(state, toRun, at, d, ops)
    BY <1>8 DEF NoneDue
  <2>3. OneDue(state', toRun, at, Base, d, Removals) <=> OneDue(state, toRun, at, Base, d, Removals)
    BY <1>8 DEF OneDue
  <2>4. d \in connections_' <=> d \in connections_
    BY <1>1, <1>9
  <2> QED
    BY <1>1, <1>6, <1>7, <1>8, <1>9, <2>1, <2>2, <2>3, <2>4 DEF Good, QueueInv
<1>10. Good(state', toRun', at', Gone', n)
  <2>1. ASSUME NEW ops, NEW l \in AllLoops
        PROVE  Due(pendingFunctors_[l], 1, n, ops) = {} /\ Due(toRun[l], at[l], n, ops) = {}
    <3>1. /\ \A i \in 1..Len(pendingFunctors_[l]) : Created(pendingFunctors_[l][i].conn)
          /\ \A i \in 1..Len(toRun[l]) : Created(toRun[l][i].conn)
      BY DEF ServerInv, QueuesInv, InPlace
    <3>2. at[l] \in Nat /\ at[l] >= 1
      BY DEF ServerInv, TypeOK
    <3> QED
      BY <1>2, <3>1, <3>2 DEF Due
  <2>2. \A ops : NoneDue(state', toRun', at', n, ops)
    BY <1>1, <1>8, <2>1 DEF NoneDue
  <2>3. OneDue(state', toRun', at', Base, n, Removals)
    <3>1. Base \in AllLoops
      BY LoopFacts
    <3> QED
      BY <1>1, <1>8, <2>1, <3>1 DEF OneDue
  <2>4. ~failed /\ ~sock[n].rst
    BY <1>2 DEF LifeInv
  <2> QED
    BY <1>1, <1>5, <1>6, <1>8, <2>2, <2>3, <2>4 DEF Good, QueueInv
<1>11. Newest' = n
  BY <1>1, <1>2 DEF Newest
<1>12. StageInv'
  <2>1. holder[n] = "none"
    BY <1>2 DEF ServerInv, AcceptInv
  <2> QED
    BY <1>1, <1>5, <1>6, <1>11, <2>1 DEF StageInv
<1>13. NewestInv'
  <2> SUFFICES ASSUME NEW d \in Conns, Created(d)'
               PROVE  /\ conn'[d].state_ = "kConnecting" => d = Newest' /\ where'[Base] \in Early
                      /\ conn'[d].state_ = "kConnected" =>
                           conn'[d].context_ \/ (d = Newest' /\ where'[Base] \in Establishing)
    BY DEF NewestInv
  <2>1. CASE d = n
    BY <1>1, <1>5, <1>6, <1>11, <2>1 DEF Early
  <2>2. CASE d # n
    <3>1. Created(d) /\ conn'[d] = conn[d]
      BY <1>3, <1>6, <2>2
    <3>2. where[Base] \notin Early /\ where[Base] \notin Establishing
      BY <1>1 DEF Early, Establishing
    <3> QED
      BY <3>1, <3>2 DEF LifeInv, NewestInv
  <2> QED
    BY <2>1, <2>2
<1>14. ReportInv'
  <2> SUFFICES ASSUME NEW l \in AllLoops, NEW d \in activeChannels'[l] \cap Conns,
                      "in" \in conn'[d].revents_
               PROVE  conn'[d].state_ # "kDisconnected"
    BY DEF ReportInv
  <2>1. d \in activeChannels[l] \cap Conns
    BY <1>1
  <2>2. Created(d)
    BY <2>1 DEF ServerInv, ActiveInv
  <2>3. conn'[d] = conn[d]
    BY <1>2, <1>6, <2>1, <2>2
  <2> QED
    BY <2>1, <2>3 DEF LifeInv, ReportInv
<1>15. \A d \in Conns : Created(d)' => Good(state', toRun', at', Gone', d)
  BY <1>3, <1>9, <1>10
<1>16. ~failed' /\ \A d \in Conns : ~sock'[d].rst
  BY <1>1 DEF LifeInv
<1> QED
  BY <1>12, <1>13, <1>14, <1>15, <1>16 DEF LifeInv

(* A step of connectionEstablish on j, which becomes k.                    *)
LEMMA EstablishLife ==
  ASSUME ServerInv, LifeInv, NEW stage \in Establishing, NEW next \in Establishing \cup {"dispatch"},
         NEW j, j = conn[Newest], NEW k \in Connections(AllLoops, {"m"}),
         Establish(stage, next, k),
         ChannelInv(k), k.revents_ = j.revents_,
         k.state_ = j.state_ \/ (j.state_ = "kConnecting" /\ k.state_ = "kConnected"),
         StageAt(k, holder'[Newest], next),
         k.state_ = "kConnecting" => next \in Early,
         k.state_ = "kConnected" => k.context_ \/ next \in Establishing
  PROVE  LifeInv'
<1> USE DEF Establish
<1> DEFINE n == Newest
<1>1. n \in Conns /\ Created(n)
  <2>1. nextConnectionId_ \in 0..MaxConns /\ MaxConns \in Nat
    BY BoundsAssumption DEF ServerInv, TypeOK
  <2>2. nextConnectionId_ > 0
    BY DEF ServerInv, AcceptInv
  <2> QED
    BY <2>1, <2>2 DEF Newest, Conns, Created
<1>2. /\ UNCHANGED <<sock, connections_, pendingFunctors_, failed, nextConnectionId_, toRun, at,
                     activeChannels>>
      /\ where[Base] = stage /\ where'[Base] = next
  BY LoopFacts DEF acceptVars, ServerInv, TypeOK
<1>3. n' = n /\ \A d : Created(d)' <=> Created(d)
  BY <1>2 DEF Newest, Created
<1>4. conn'[n] = k /\ \A d \in Conns : d # n => conn'[d] = conn[d]
  BY <1>1, StateParts DEF ServerInv
<1>5. Gone' = Gone
  BY <1>2 DEF Gone, Establishing
<1>6. j = conn[n]
  OBVIOUS
<1> HIDE DEF n
<1>7. ASSUME NEW d \in Conns, Created(d)
      PROVE  Good(state', toRun', at', Gone', d)
  <2>1. /\ state'.conn = conn' /\ state.conn = conn
        /\ state'.pendingFunctors_ = state.pendingFunctors_
        /\ state'.connections_ = state.connections_ /\ state'.failed = state.failed
        /\ state'.sock = state.sock
    BY <1>2 DEF state
  <2>2. ChannelInv(conn[d]) /\ QueueInv(state, toRun, at, Gone, d)
    BY <1>7 DEF LifeInv, Good, state
  <2>3. /\ conn'[d].state_ # "kDisconnected" => conn[d].state_ # "kDisconnected"
        /\ conn'[d].state_ = "kConnecting" => conn[d].state_ = "kConnecting"
        /\ ChannelInv(conn'[d])
    BY <1>4, <1>6, <2>2
  <2>4. QueueInv(state', toRun, at, Gone, d)
    BY <2>1, <2>2, <2>3, QueueKept
  <2> QED
    BY <1>2, <1>5, <2>1, <2>3, <2>4 DEF Good
<1>8. StageInv'
  BY <1>2, <1>3, <1>4 DEF StageInv, n
<1>9. NewestInv'
  <2> SUFFICES ASSUME NEW d \in Conns, Created(d)'
               PROVE  /\ conn'[d].state_ = "kConnecting" => d = Newest' /\ where'[Base] \in Early
                      /\ conn'[d].state_ = "kConnected" =>
                           conn'[d].context_ \/ (d = Newest' /\ where'[Base] \in Establishing)
    BY DEF NewestInv
  <2>1. CASE d = n
    BY <1>2, <1>3, <1>4, <2>1 DEF n
  <2>2. CASE d # n
    <3>1. Created(d) /\ conn'[d] = conn[d]
      BY <1>3, <1>4, <2>2
    <3> QED
      BY <2>2, <3>1 DEF LifeInv, NewestInv, n
  <2> QED
    BY <2>1, <2>2
<1>10. ReportInv'
  <2> SUFFICES ASSUME NEW l \in AllLoops, NEW d \in activeChannels'[l] \cap Conns,
                      "in" \in conn'[d].revents_
               PROVE  conn'[d].state_ # "kDisconnected"
    BY DEF ReportInv
  <2>1. d \in activeChannels[l] \cap Conns
    BY <1>2
  <2>2. "in" \in conn[d].revents_ => conn[d].state_ # "kDisconnected"
    BY <2>1 DEF LifeInv, ReportInv
  <2> QED
    BY <1>4, <1>6, <2>2
<1>11. ~failed' /\ \A d \in Conns : ~sock'[d].rst
  BY <1>2 DEF LifeInv
<1> QED
  BY <1>3, <1>7, <1>8, <1>9, <1>10, <1>11 DEF LifeInv

LEMMA EnableReadingChannel ==
  ASSUME NEW k \in Connections(AllLoops, {"m"}), ChannelInv(k), StageAt(k, "none", "enableReading")
  PROVE  LET j == EpollAdd([k EXCEPT !.events_ = @ \cup {"in"}])
         IN  /\ ChannelInv(j) /\ StageAt(j, "none", "set_index") /\ j.state_ = "kConnecting"
             /\ j.revents_ = k.revents_
BY DEF Connections, EpollAdd, Event, ChannelInv, StageAt, Early

LEMMA SetIndexChannel ==
  ASSUME NEW k \in Connections(AllLoops, {"m"}), ChannelInv(k), StageAt(k, "none", "set_index")
  PROVE  LET j == [k EXCEPT !.index_ = "kAdded"]
         IN  /\ ChannelInv(j) /\ StageAt(j, "none", "kConnected") /\ j.state_ = "kConnecting"
             /\ j.revents_ = k.revents_ /\ j \in Connections(AllLoops, {"m"})
BY DEF Connections, ChannelInv, StageAt, Early

LEMMA SetConnectedChannel ==
  ASSUME NEW k \in Connections(AllLoops, {"m"}), ChannelInv(k), StageAt(k, "none", "kConnected")
  PROVE  LET j == [k EXCEPT !.state_ = "kConnected"]
         IN  /\ ChannelInv(j) /\ j.state_ = "kConnected"
             /\ j.revents_ = k.revents_ /\ j \in Connections(AllLoops, {"m"})
BY DEF Connections, ChannelInv, Armed, StageAt, Early, State

LEMMA ContextChannel ==
  ASSUME NEW k \in Connections(AllLoops, {"m"}), ChannelInv(k)
  PROVE  LET j == [k EXCEPT !.context_ = @ \/ k.state_ = "kConnected"]
         IN  /\ ChannelInv(j) /\ j.state_ = k.state_
             /\ k.state_ = "kConnected" => j.context_
             /\ j.revents_ = k.revents_ /\ j \in Connections(AllLoops, {"m"})
<1> DEFINE b == k.context_ \/ k.state_ = "kConnected"
           j == [k EXCEPT !.context_ = b]
<1>1. b \in BOOLEAN /\ (k.state_ = "kConnected" => b)
  OBVIOUS
<1> HIDE DEF b
<1>2. /\ j.state_ = k.state_ /\ j.revents_ = k.revents_ /\ j.context_ = b
      /\ j.outBuffer_ = k.outBuffer_ /\ j.writing_ = k.writing_ /\ j.index_ = k.index_
      /\ j.added = k.added /\ j.open = k.open /\ j.interest = k.interest
      /\ j.events_ = k.events_ /\ j \in Connections(AllLoops, {"m"})
  BY <1>1 DEF Connections
<1> HIDE DEF j
<1>3. ChannelInv(j)
  BY <1>2 DEF ChannelInv, Armed
<1> QED
  BY <1>1, <1>2, <1>3 DEF j, b

LEMMA EstablishingLife ==
  ASSUME ServerInv, LifeInv, EnableReading \/ SetIndex \/ SetConnected \/ ConnectionCallback
  PROVE  LifeInv'
<1> DEFINE n == Newest
           k == conn[n]
<1>1. where[Base] \in Establishing
  BY DEF EnableReading, SetIndex, SetConnected, ConnectionCallback, Establish, Establishing
<1>2. n \in Conns /\ Created(n)
  <2>1. nextConnectionId_ \in 0..MaxConns /\ MaxConns \in Nat
    BY BoundsAssumption DEF ServerInv, TypeOK
  <2>2. nextConnectionId_ > 0
    BY <1>1 DEF ServerInv, AcceptInv
  <2> QED
    BY <2>1, <2>2 DEF Newest, Conns, Created
<1>3. k \in Connections(AllLoops, {"m"})
  BY <1>2, StateParts DEF ServerInv
<1>4. /\ ChannelInv(k) /\ StageAt(k, holder[n], where[Base])
      /\ k.state_ = "kConnecting" => where[Base] \in Early
  BY <1>2 DEF LifeInv, Good, state, StageInv, NewestInv
<1>5. where[Base] \in Early => k.state_ = "kConnecting" /\ holder[n] = "none"
  BY <1>4 DEF StageAt
<1> HIDE DEF n, k
<1>6. CASE EnableReading
  <2> DEFINE j == EpollAdd([k EXCEPT !.events_ = @ \cup {"in"}])
  <2>1. Establish("enableReading", "set_index", j) /\ UNCHANGED holder
    BY <1>6 DEF EnableReading, k, n
  <2>2. where[Base] = "enableReading" /\ where[Base] \in Early
    BY <2>1 DEF Establish, Early
  <2>3. /\ ChannelInv(j) /\ StageAt(j, "none", "set_index") /\ j.state_ = "kConnecting"
        /\ j.revents_ = k.revents_ /\ j \in Connections(AllLoops, {"m"})
    BY <1>3, <1>4, <1>5, <2>2, EnableReadingChannel, EnableReadingTyped
  <2> HIDE DEF j
  <2>4. StageAt(j, holder'[Newest], "set_index")
    BY <1>5, <2>1, <2>2, <2>3 DEF n
  <2> QED
    BY <1>5, <2>1, <2>2, <2>3, <2>4, EstablishLife DEF Establishing, Early, k, n
<1>7. CASE SetIndex
  <2> DEFINE j == [k EXCEPT !.index_ = "kAdded"]
  <2>1. Establish("set_index", "kConnected", j) /\ UNCHANGED holder
    BY <1>7 DEF SetIndex, k, n
  <2>2. where[Base] = "set_index" /\ where[Base] \in Early
    BY <2>1 DEF Establish, Early
  <2>3. /\ ChannelInv(j) /\ StageAt(j, "none", "kConnected") /\ j.state_ = "kConnecting"
        /\ j.revents_ = k.revents_ /\ j \in Connections(AllLoops, {"m"})
    BY <1>3, <1>4, <1>5, <2>2, SetIndexChannel
  <2> HIDE DEF j
  <2>4. StageAt(j, holder'[Newest], "kConnected")
    BY <1>5, <2>1, <2>2, <2>3 DEF n
  <2> QED
    BY <1>5, <2>1, <2>2, <2>3, <2>4, EstablishLife DEF Establishing, Early, k, n
<1>8. CASE SetConnected
  <2> DEFINE j == [k EXCEPT !.state_ = "kConnected"]
  <2>1. Establish("kConnected", "connectionCallback_", j) /\ UNCHANGED holder
    BY <1>8 DEF SetConnected, k, n
  <2>2. where[Base] = "kConnected" /\ where[Base] \in Early
    BY <2>1 DEF Establish, Early
  <2>3. /\ ChannelInv(j) /\ j.state_ = "kConnected"
        /\ j.revents_ = k.revents_ /\ j \in Connections(AllLoops, {"m"})
    BY <1>3, <1>4, <1>5, <2>2, SetConnectedChannel
  <2> HIDE DEF j
  <2>4. StageAt(j, holder'[Newest], "connectionCallback_")
    BY DEF StageAt, Early
  <2> QED
    BY <1>5, <2>1, <2>2, <2>3, <2>4, EstablishLife DEF Establishing, Early, k, n
<1>9. CASE ConnectionCallback
  <2> DEFINE j == [k EXCEPT !.context_ = @ \/ k.state_ = "kConnected"]
  <2>1. Establish("connectionCallback_", "dispatch", j)
    BY <1>9 DEF ConnectionCallback, k, n
  <2>2. where[Base] = "connectionCallback_" /\ k.state_ # "kConnecting"
    BY <1>4, <2>1 DEF Establish, Early
  <2>3. /\ ChannelInv(j) /\ j.state_ = k.state_
        /\ k.state_ = "kConnected" => j.context_
        /\ j.revents_ = k.revents_ /\ j \in Connections(AllLoops, {"m"})
    BY <1>3, <1>4, ContextChannel
  <2> HIDE DEF j
  <2>4. StageAt(j, holder'[Newest], "dispatch")
    BY DEF StageAt, Early
  <2> QED
    BY <2>1, <2>2, <2>3, <2>4, EstablishLife DEF Establishing, k, n
<1> QED
  BY <1>6, <1>7, <1>8, <1>9

LEMMA StutterLife ==
  ASSUME LifeInv, UNCHANGED vars
  PROVE  LifeInv'
<1>1. /\ UNCHANGED <<conn, nextConnectionId_, failed, connections_, pendingFunctors_,
                     toRun, at, activeChannels, where, holder, sock>>
  BY DEF vars, serverVars, acceptVars, loopVars, holderVars
<1>2. Gone' = Gone
  BY <1>1 DEF Gone
<1> QED
  BY <1>1, <1>2, StillLife

LEMMA LifeStep ==
  ASSUME ServerInv, LifeInv, "reset" \notin Faults, [Next]_vars
  PROVE  LifeInv'
<1>1. ASSUME NEW l \in AllLoops, LoopStep(l)
      PROVE  LifeInv'
  BY <1>1, PollLife, HandledLife, DoPendingFunctorsLife, FinishFunctorsLife,
     DestroyLoopLife DEF LoopStep
<1>2. ASSUME BaseStep
      PROVE  LifeInv'
  BY <1>2, StartStopLife, NewConnetionLife, EstablishingLife, DestroyServerLife DEF BaseStep
<1>3. ASSUME NEW c \in Conns, HolderStep(c)
      PROVE  LifeInv'
  BY <1>3, HolderLife, HandledLife DEF HolderStep
<1> QED
  BY <1>1, <1>2, <1>3, StartStopLife, PeerLife, StutterLife DEF Next

LEMMA LifeInit == Init => LifeInv
<1> SUFFICES ASSUME Init PROVE LifeInv
  OBVIOUS
<1>1. \A c \in Conns : ~Created(c)
  BY BoundsAssumption DEF Init, Created, Conns
<1>2. \A c \in Conns : ~sock[c].rst
  BY DEF Init, NewSocket
<1>3. where[Base] = "start" /\ activeChannels = [l \in AllLoops |-> {}] /\ ~failed
  BY LoopFacts DEF Init
<1>4. StageInv
  BY <1>3 DEF StageInv, StageAt, Early
<1> QED
  BY <1>1, <1>2, <1>3, <1>4 DEF LifeInv, NewestInv, ReportInv

(* The life of every connection, on a server that is never reset.          *)
THEOREM LifeInvariant ==
  ASSUME "reset" \notin Faults
  PROVE  Spec => [](ServerInv /\ LifeInv)
<1>1. Init => ServerInv /\ LifeInv
  BY InitHolds, LifeInit
<1>2. ServerInv /\ LifeInv /\ [Next]_vars => (ServerInv /\ LifeInv)'
  BY StepKeeps, LifeStep
<1> QED
  BY <1>1, <1>2, PTL DEF Spec

(* The removal functions find in connections_ what they erase: a           *)
(* connection is closed once, and only closing queues its removal.         *)
THEOREM NoAssertionFails ==
  ASSUME "reset" \notin Faults
  PROVE  Spec => []AssertionsHold
<1>1. LifeInv => AssertionsHold
  BY DEF LifeInv, AssertionsHold
<1> QED
  BY <1>1, LifeInvariant, PTL

(* An open connection is watched for input and, once newConnetion has      *)
(* returned, has its context.                                              *)
THEOREM OpenConnectionsServed ==
  ASSUME "reset" \notin Faults
  PROVE  Spec => []OpenIsServed
<1>1. ASSUME ServerInv, LifeInv
      PROVE  OpenIsServed
  <2> SUFFICES ASSUME NEW c \in connections_
               PROVE  /\ conn[c].open /\ conn[c].state_ \in {"kConnected", "kDisconnecting"} =>
                           conn[c].added /\ "in" \in conn[c].interest /\ conn[c].index_ = "kAdded"
                      /\ conn[c].state_ = "kConnected" =>
                           conn[c].context_ \/ (c = Newest /\ where[Base] \in Establishing)
    BY DEF OpenIsServed
  <2>1. c \in Conns /\ Created(c)
    BY <1>1, StateParts DEF ServerInv, AcceptInv
  <2>2. ChannelInv(conn[c])
    BY <1>1, <2>1 DEF LifeInv, Good, state
  <2>3. conn[c] \in Connections(AllLoops, {"m"})
    BY <1>1, <2>1, StateParts DEF ServerInv
  <2>4. conn[c].open /\ conn[c].state_ \in {"kConnected", "kDisconnecting"} =>
          conn[c].added /\ "in" \in conn[c].interest /\ conn[c].index_ = "kAdded"
    BY <2>2, <2>3 DEF ChannelInv, Armed, Connections
  <2>5. conn[c].state_ = "kConnected" =>
          conn[c].context_ \/ (c = Newest /\ where[Base] \in Establishing)
    BY <1>1, <2>1 DEF LifeInv, NewestInv
  <2> QED
    BY <2>4, <2>5
<1> QED
  BY <1>1, LifeInvariant, PTL

-----------------------------------------------------------------------------
(* What a step may do to a connection. *)

HandlerStep ==
  \/ \E l \in AllLoops : RunNext(l) \/ \E c \in Conns : HandleEvent(l, c)
  \/ \E c \in Conns : EndCall(c)

EstablishingStep == EnableReading \/ SetIndex \/ SetConnected \/ ConnectionCallback

(* Every other step but newConnetion's leaves the connections and, but for *)
(* what arrives, the sockets.                                              *)
LEMMA OtherSteps ==
  ASSUME ServerInv, [Next]_vars, ~HandlerStep, ~EstablishingStep, ~NewConnetion
  PROVE  /\ UNCHANGED nextConnectionId_
         /\ \A d \in Conns : /\ conn'[d].state_ = conn[d].state_
                             /\ \/ sock'[d].unread = sock[d].unread
                                \/ PeerSends(d) /\ sock'[d].unread
<1> DEFINE Same == /\ UNCHANGED nextConnectionId_
                   /\ \A d \in Conns : /\ conn'[d].state_ = conn[d].state_
                                       /\ \/ sock'[d].unread = sock[d].unread
                                          \/ PeerSends(d) /\ sock'[d].unread
<1>1. UNCHANGED <<conn, sock, nextConnectionId_>> => Same
  OBVIOUS
<1>2. /\ conn \in [Conns -> Connections(AllLoops, {"m"})]
      /\ sock \in [Conns -> Sockets({"m"})]
  BY StateParts DEF ServerInv
<1>3. ASSUME NEW l \in AllLoops, Poll(l)
      PROVE  Same
  <2>1. UNCHANGED <<sock, nextConnectionId_>>
    BY <1>3 DEF Poll, acceptVars
  <2>2. \A d \in Conns : conn'[d].state_ = conn[d].state_
    BY <1>2, <1>3 DEF Poll, Connections
  <2> QED
    BY <2>1, <2>2
<1>4. ASSUME NEW c \in Conns, PeerStep(c)
      PROVE  Same
  <2>1. PICK s : PeerActs(c, s) /\ (s.unread = sock[c].unread \/ (PeerSends(c) /\ s.unread))
    <3> DEFINE x == sock[c]
    <3>1. x \in Sockets({"m"})
      BY <1>2
    <3>2. \/ PeerSends(c) /\ PeerActs(c, [x EXCEPT !.unread = TRUE, !.inputs = @ + 1])
          \/ PeerActs(c, [x EXCEPT !.fin = TRUE])
          \/ PeerActs(c, [x EXCEPT !.rst = TRUE])
          \/ PeerActs(c, [x EXCEPT !.sending = <<>>])
      BY <1>4 DEF PeerStep, PeerSends, PeerCloses, PeerResets, PeerReads
    <3> HIDE DEF x
    <3>3. /\ [x EXCEPT !.unread = TRUE, !.inputs = @ + 1].unread
          /\ [x EXCEPT !.fin = TRUE].unread = x.unread
          /\ [x EXCEPT !.rst = TRUE].unread = x.unread
          /\ [x EXCEPT !.sending = <<>>].unread = x.unread
      BY <3>1 DEF Sockets
    <3> QED
      BY <3>2, <3>3 DEF x
  <2>2. \A d \in Conns : d # c => sock'[d] = sock[d]
    BY <1>2, <2>1 DEF PeerActs
  <2>3. sock'[c] = s /\ UNCHANGED <<conn, nextConnectionId_>>
    BY <1>2, <2>1 DEF PeerActs, acceptVars
  <2> QED
    BY <2>1, <2>2, <2>3
<1>5. ASSUME NEW l \in AllLoops, LoopStep(l)
      PROVE  Same
  BY <1>1, <1>3, <1>5 DEF LoopStep, HandlerStep, DoPendingFunctors, FinishFunctors,
     DestroyLoop, serverVars, acceptVars
<1>6. ASSUME BaseStep
      PROVE  Same
  BY <1>1, <1>6 DEF BaseStep, EstablishingStep, Start, DestroyServer, StopPoolLoop, StopLoop,
     serverVars, acceptVars
<1>7. ASSUME NEW c \in Conns, HolderStep(c)
      PROVE  Same
  BY <1>1, <1>7 DEF HolderStep, HandlerStep, BeginCall, Drop, serverVars, acceptVars
<1>8. StopBase \/ PeerConnects \/ UNCHANGED vars => Same
  BY <1>1 DEF StopBase, StopLoop, PeerConnects, vars, serverVars, acceptVars
<1> QED
  BY <1>4, <1>5, <1>6, <1>7, <1>8 DEF Next

(* connectionEstablish closes nothing and opens nothing that was closed.   *)
LEMMA EstablishingCloses ==
  ASSUME ServerInv, LifeInv, EstablishingStep, NEW c \in Conns
  PROVE  conn'[c].state_ = "kDisconnected" <=> conn[c].state_ = "kDisconnected"
<1> DEFINE k == conn[Newest]
<1>1. c = Newest => k \in Connections(AllLoops, {"m"})
  BY StateParts DEF ServerInv
<1>2. PICK j : /\ conn' = [conn EXCEPT ![Newest] = j]
               /\ c = Newest => (j.state_ = "kDisconnected" <=> k.state_ = "kDisconnected")
  <2>1. CASE SetConnected
    <3>1. conn' = [conn EXCEPT ![Newest] = [k EXCEPT !.state_ = "kConnected"]]
      BY <2>1 DEF SetConnected, Establish
    <3>2. k.state_ = "kConnecting"
      BY <2>1 DEF SetConnected, Establish, Early, LifeInv, StageInv, StageAt
    <3> HIDE DEF k
    <3>3. c = Newest => [k EXCEPT !.state_ = "kConnected"].state_ = "kConnected"
      BY <1>1 DEF Connections
    <3> QED
      BY <3>1, <3>2, <3>3
  <2>2. CASE ~SetConnected
    <3>1. \/ conn' = [conn EXCEPT ![Newest] = EpollAdd([k EXCEPT !.events_ = @ \cup {"in"}])]
          \/ conn' = [conn EXCEPT ![Newest] = [k EXCEPT !.index_ = "kAdded"]]
          \/ conn' = [conn EXCEPT ![Newest] =
                        [k EXCEPT !.context_ = @ \/ k.state_ = "kConnected"]]
      BY <2>2 DEF EstablishingStep, EnableReading, SetIndex, ConnectionCallback, Establish
    <3> HIDE DEF k
    <3>2. c = Newest =>
            /\ EpollAdd([k EXCEPT !.events_ = @ \cup {"in"}]).state_ = k.state_
            /\ [k EXCEPT !.index_ = "kAdded"].state_ = k.state_
            /\ [k EXCEPT !.context_ = @ \/ k.state_ = "kConnected"].state_ = k.state_
      BY <1>1 DEF Connections, EpollAdd
    <3> QED
      BY <3>1, <3>2
  <2> QED
    BY <2>1, <2>2
<1>3. conn'[c] = IF c = Newest THEN j ELSE conn[c]
  BY <1>2, StateParts DEF ServerInv
<1> QED
  BY <1>2, <1>3

(* A closed connection stays closed and its input is left alone.           *)
LEMMA StepForward ==
  ASSUME ServerInv, LifeInv, [Next]_vars, NEW c \in Conns
  PROVE  /\ Created(c) => Created(c)'
         /\ Created(c) /\ conn[c].state_ = "kDisconnected" => conn'[c].state_ = "kDisconnected"
         /\ Taken(c) => Created(c) /\ conn[c].state_ # "kDisconnected"
<1>1. CASE HandlerStep
  <2>0. PICK d \in Conns : \E v : Handled(d, v)
    BY <1>1, HandledLife DEF HandlerStep
  <2>1. PICK v : Handled(d, v)
    BY <2>0
  <2>2. /\ conn' = v.conn /\ sock' = v.sock
        /\ state.conn = conn /\ state.sock = sock
        /\ UNCHANGED nextConnectionId_ /\ Created(d)
    BY <2>1 DEF Handled, Becomes, state
  <2>3. CASE c = d
    BY <2>1, <2>2, <2>3 DEF Handled, Fine, Forward, Taken, Created
  <2>4. CASE c # d
    <3>1. conn'[c] = conn[c] /\ sock'[c] = sock[c]
      BY <2>1, <2>2, <2>4 DEF Handled, Works, Touches
    <3> QED
      BY <2>2, <3>1 DEF Taken, Created
  <2> QED
    BY <2>3, <2>4
<1>2. CASE EstablishingStep
  <2>1. UNCHANGED <<sock, nextConnectionId_>>
    BY <1>2 DEF EstablishingStep, EnableReading, SetIndex, SetConnected, ConnectionCallback,
       Establish, acceptVars
  <2> QED
    BY <1>2, <2>1, EstablishingCloses DEF Taken, Created
<1>3. CASE NewConnetion
  <2>1. /\ UNCHANGED sock /\ nextConnectionId_' = nextConnectionId_ + 1
        /\ nextConnectionId_ \in Nat
        /\ \A d \in Conns : d # nextConnectionId_ => conn'[d] = conn[d]
    BY <1>3, StateParts DEF NewConnetion, ServerInv, TypeOK
  <2>2. Created(c) => c # nextConnectionId_ /\ Created(c)'
    BY <2>1, BoundsAssumption DEF Created, Conns
  <2> QED
    BY <2>1, <2>2 DEF Taken
<1>4. CASE ~HandlerStep /\ ~EstablishingStep /\ ~NewConnetion
  BY <1>4, OtherSteps DEF Taken, Created
<1> QED
  BY <1>1, <1>2, <1>3, <1>4

(* No input is handed to the program after the connection was closed: what *)
(* epoll_wait reported before cannot still be handled after.               *)
THEOREM ClosedConnectionsReadNothing ==
  ASSUME "reset" \notin Faults
  PROVE  Spec => NoInputAfterClose
<1>1. ServerInv /\ LifeInv /\ [Next]_vars =>
        [\A c \in Conns : Taken(c) => conn[c].state_ # "kDisconnected"]_vars
  BY StepForward
<1> QED
  BY <1>1, LifeInvariant, PTL DEF Spec, NoInputAfterClose

-----------------------------------------------------------------------------
(* Where accept does not fail. *)

OpenInv ==
  \A c \in Conns : IF Created(c) THEN conn[c].open ELSE conn[c].state_ = "none"

LEMMA OpenStep ==
  ASSUME ServerInv, LifeInv, OpenInv, "accept" \notin Faults, [Next]_vars
  PROVE  OpenInv'
<1>1. CASE NewConnetion
  <2>0. PICK open \in BOOLEAN :
          open /\ conn' = [conn EXCEPT ![nextConnectionId_] = NewConnection(NextLoop, open)]
    BY <1>1 DEF NewConnetion, AcceptConnection
  <2>1. nextConnectionId_' = nextConnectionId_ + 1 /\ nextConnectionId_ \in Nat
    BY <1>1, BoundsAssumption DEF NewConnetion, ServerInv, TypeOK
  <2>2. \A c \in Conns : Created(c)' <=> Created(c) \/ c = nextConnectionId_
    BY <2>1, BoundsAssumption DEF Created, Conns
  <2>3. \A c \in Conns : conn'[c] = (IF c = nextConnectionId_ THEN NewConnection(NextLoop, open)
                                                              ELSE conn[c])
    BY <2>0, StateParts DEF ServerInv
  <2>4. NewConnection(NextLoop, open).open
    BY <2>0 DEF NewConnection
  <2> QED
    BY <2>2, <2>3, <2>4 DEF OpenInv
<1>2. CASE ~NewConnetion
  <2> SUFFICES ASSUME NEW c \in Conns
               PROVE  IF Created(c)' THEN conn'[c].open ELSE conn'[c].state_ = "none"
    BY DEF OpenInv
  <2>1. conn'[c].open = conn[c].open /\ UNCHANGED nextConnectionId_
    BY <1>2, LoopsStay
  <2>2. ~Created(c) => conn'[c].state_ = conn[c].state_
    <3>1. CASE HandlerStep
      <4>0. PICK d \in Conns : \E v : Handled(d, v)
        BY <3>1, HandledLife DEF HandlerStep
      <4>1. PICK v : Handled(d, v)
        BY <4>0
      <4> QED
        BY <4>1 DEF Handled, Works, Touches, Becomes, state
    <3>2. CASE EstablishingStep
      <4>1. \E k : conn' = [conn EXCEPT ![Newest] = k]
        BY <3>2 DEF EstablishingStep, EnableReading, SetIndex, SetConnected, ConnectionCallback,
           Establish
      <4>2. nextConnectionId_ \in Nat
        BY DEF ServerInv, TypeOK
      <4>3. ~Created(c) => c # Newest
        BY <4>2 DEF Created, Newest
      <4> QED
        BY <4>1, <4>3, StateParts DEF ServerInv
    <3>3. CASE ~HandlerStep /\ ~EstablishingStep
      BY <1>2, <3>3, OtherSteps
    <3> QED
      BY <3>1, <3>2, <3>3
  <2> QED
    BY <2>1, <2>2 DEF OpenInv, Created
<1> QED
  BY <1>1, <1>2

(* Output that waits will be written, and a close is put off only while    *)
(* there is some, whatever the loop and the base thread did to the channel *)
(* and whatever other threads sent.                                        *)
THEOREM OutputIsArmed ==
  ASSUME "reset" \notin Faults, "accept" \notin Faults
  PROVE  Spec => []OutputArmed
<1>1. Init => OpenInv
  BY BoundsAssumption DEF Init, OpenInv, Created, Conns, NewConnection
<1>2. ServerInv /\ LifeInv /\ OpenInv /\ [Next]_vars => OpenInv'
  BY OpenStep
<1>3. ASSUME ServerInv, LifeInv, OpenInv
      PROVE  OutputArmed
  <2> SUFFICES ASSUME NEW c \in Conns
               PROVE  /\ Readable(conn[c].outBuffer_) > 0
                           /\ conn[c].state_ \in {"kConnected", "kDisconnecting"} =>
                              conn[c].writing_ /\ conn[c].added /\ "out" \in conn[c].interest
                      /\ conn[c].state_ = "kDisconnecting" => Readable(conn[c].outBuffer_) > 0
    BY DEF OutputArmed
  <2>1. conn[c] \in Connections(AllLoops, {"m"})
    BY <1>3, StateParts DEF ServerInv
  <2>2. Created(c) => ChannelInv(conn[c]) /\ conn[c].open
    BY <1>3 DEF LifeInv, Good, state, OpenInv
  <2>3. ~Created(c) => conn[c].state_ = "none"
    BY <1>3 DEF OpenInv
  <2> DEFINE k == conn[c]
  <2>4. CASE Created(c)
    <3>1. ChannelInv(k) /\ k.open = TRUE
      BY <2>1, <2>2, <2>4 DEF Connections
    <3>2. k.state_ \in {"kConnected", "kDisconnecting"} => Armed(k)
      BY <3>1 DEF ChannelInv
    <3>3. k.state_ = "kDisconnecting" => k.writing_
      BY <3>1 DEF ChannelInv
    <3> HIDE DEF k
    <3>4. Armed(k) => /\ k.writing_ <=> Readable(k.outBuffer_) > 0
                      /\ k.writing_ => k.added /\ "out" \in k.interest
      BY <3>1 DEF Armed
    <3> QED
      BY <3>2, <3>3, <3>4 DEF k
  <2> QED
    BY <2>3, <2>4
<1> QED
  BY <1>1, <1>2, <1>3, LifeInvariant, PTL DEF Spec

-----------------------------------------------------------------------------
(* The life of ConnectionLife, on a server that is not shut down. *)

UpInv == ~quit_[Base] /\ where[Base] \notin {"ended", "joining", "destroyed"}

(* What the map does not hold is closed.                                   *)
Mapped == \A c \in Conns : Created(c) /\ conn[c].state_ # "kDisconnected" => c \in connections_

LEMMA UpStep ==
  ASSUME ServerInv, UpInv, "shutdown" \notin Faults, [Next]_vars
  PROVE  UpInv'
<1>1. where \in [AllLoops -> LoopPC] /\ quit_ \in [AllLoops -> BOOLEAN] /\ Base \in AllLoops
  BY LoopFacts DEF ServerInv, TypeOK
<1>2. ASSUME NEW l \in AllLoops, LoopStep(l)
      PROVE  UpInv'
  BY <1>1, <1>2 DEF UpInv, LoopStep, Poll, HandleEvent, DoPendingFunctors, RunNext,
     FinishFunctors, DestroyLoop, MayDestroy
<1>3. ASSUME BaseStep
      PROVE  UpInv'
  BY <1>1, <1>3 DEF UpInv, BaseStep, Start, NewConnetion, EnableReading, SetIndex, SetConnected,
     ConnectionCallback, Establish, DestroyServer, StopPoolLoop
<1>4. UNCHANGED <<quit_, where>> => UpInv'
  BY DEF UpInv
<1>5. ASSUME NEW c \in Conns, HolderStep(c) \/ PeerStep(c)
      PROVE  UpInv'
  BY <1>4, <1>5 DEF HolderStep, BeginCall, EndCall, Drop, PeerStep, PeerSends, PeerCloses,
     PeerResets, PeerReads, PeerActs, loopVars
<1>6. StopBase \/ PeerConnects \/ UNCHANGED vars => UpInv'
  BY <1>4 DEF StopBase, PeerConnects, vars, loopVars
<1> QED
  BY <1>2, <1>3, <1>5, <1>6 DEF Next

LEMMA OpenIsMapped ==
  ASSUME LifeInv, UpInv
  PROVE  Mapped
BY DEF LifeInv, UpInv, Mapped, Gone, Good, QueueInv, state

LEMMA HeldShrinks ==
  ASSUME connections_' \subseteq connections_,
         \A l \in AllLoops : FunctorsOf(l)' \subseteq FunctorsOf(l),
         \A d \in Conns : holder[d] = "none" => holder'[d] = "none",
         where'[Base] \in Establishing => where[Base] \in Establishing /\ Newest' = Newest,
         NEW c \in Conns, Held(c)'
  PROVE  Held(c)
BY DEF Held

(* A step that closes no connection and takes no input may free some.      *)
LEMMA FreeStep ==
  ASSUME Mapped, Mapped', UNCHANGED nextConnectionId_,
         \A c \in Conns : /\ conn'[c].state_ = "kDisconnected" <=> conn[c].state_ = "kDisconnected"
                          /\ sock'[c].unread = sock[c].unread
                          /\ Held(c)' => Held(c)
  PROVE  Connection!Next
<1> DEFINE cs == {c \in Conns : Life(c)' # Life(c)}
<1>1. ASSUME NEW c \in Conns
      PROVE  c \in cs => Life(c) = "closed" /\ Life(c)' = "gone"
  <2>1. Created(c)' <=> Created(c)
    BY DEF Created
  <2>2. CASE ~Created(c)
    BY <2>1, <2>2 DEF Life
  <2>3. CASE Created(c) /\ conn[c].state_ # "kDisconnected"
    <3>1. Held(c) /\ Held(c)'
      BY <2>1, <2>3 DEF Mapped, Held
    <3> QED
      BY <2>1, <2>3, <3>1 DEF Life, Destroyed
  <2>4. CASE Created(c) /\ conn[c].state_ = "kDisconnected"
    BY <2>1, <2>4 DEF Life, Destroyed
  <2> QED
    BY <2>2, <2>3, <2>4
<1>2. cs \in SUBSET Conns
  OBVIOUS
<1> HIDE DEF cs
<1>3. \A c \in Conns : Life(c)' = IF c \in cs THEN "gone" ELSE Life(c)
  BY <1>1 DEF cs
<1>4. Connection!Free(cs)
  BY <1>1, <1>2, <1>3 DEF Connection!Free, Connection!Move
<1> QED
  BY <1>2, <1>4 DEF Connection!Next

(* A handler hands input over, closes its connection, or neither.          *)
LEMMA HandlerRefines ==
  ASSUME ServerInv, LifeInv, Mapped, Mapped', NEW d \in Conns, NEW v, Handled(d, v)
  PROVE  [Connection!Next]_Connection!vars
<1>1. /\ conn' = v.conn /\ sock' = v.sock /\ connections_' = v.connections_
      /\ pendingFunctors_' = v.pendingFunctors_
      /\ state.conn = conn /\ state.sock = sock /\ state.connections_ = connections_
      /\ state.pendingFunctors_ = pendingFunctors_
      /\ UNCHANGED <<nextConnectionId_, where, toRun>> /\ Created(d)
      /\ \A c \in Conns : holder'[c] = "none" <=> holder[c] = "none"
  BY DEF Handled, Becomes, state
<1>2. /\ \A c : Created(c)' <=> Created(c)
      /\ Newest' = Newest
  BY <1>1 DEF Created, Newest
<1>3. ASSUME NEW c \in Conns, c # d
      PROVE  /\ conn'[c] = conn[c] /\ sock'[c] = sock[c]
             /\ Held(c)' <=> Held(c)
  <2>1. Touches(Conns, AllLoops, state, v, d)
    BY DEF Handled, Works
  <2>2. conn'[c] = conn[c] /\ sock'[c] = sock[c] /\ (c \in connections_' <=> c \in connections_)
    BY <1>1, <1>3, <2>1 DEF Touches
  <2>3. ASSUME NEW l \in AllLoops
        PROVE  (\E f \in FunctorsOf(l)' : f.conn = c) <=> (\E f \in FunctorsOf(l) : f.conn = c)
    <3> DEFINE p == pendingFunctors_[l]
               q == v.pendingFunctors_[l]
    <3>1. Extends(p, q, l, conn[d].loop, d)
      BY <1>1, <2>1 DEF Touches
    <3>2. Len(p) \in Nat /\ Len(q) \in Nat
      <4>1. p \in Seq(Functors(Conns)) /\ q \in Seq(Functors(Conns))
        BY StateParts DEF ServerInv, Handled, Works, Servers
      <4> QED
        BY <4>1
    <3>3. FunctorsOf(l) = {p[i] : i \in 1..Len(p)} \cup {toRun[l][i] : i \in 1..Len(toRun[l])}
      BY DEF FunctorsOf
    <3>4. FunctorsOf(l)' = {q[i] : i \in 1..Len(q)} \cup {toRun[l][i] : i \in 1..Len(toRun[l])}
      BY <1>1 DEF FunctorsOf
    <3> HIDE DEF p, q
    <3>5. (\E i \in 1..Len(q) : q[i].conn = c) <=> (\E i \in 1..Len(p) : p[i].conn = c)
      BY <1>3, <3>1, <3>2 DEF Extends
    <3> QED
      BY <3>3, <3>4, <3>5
  <2> QED
    BY <1>1, <1>2, <2>2, <2>3 DEF Held
<1>4. Held(d) => Held(d)'
  <2>1. Kept(connections_, pendingFunctors_, d) => Kept(connections_', pendingFunctors_', d)
    BY <1>1 DEF Handled, Fine, Forward
  <2>2. Kept(connections_', pendingFunctors_', d) => Held(d)'
    BY DEF Kept, Held, FunctorsOf
  <2>3. Held(d) => \/ Kept(connections_, pendingFunctors_, d)
                   \/ \E l \in AllLoops : \E i \in 1..Len(toRun[l]) : toRun[l][i].conn = d
                   \/ holder[d] # "none"
                   \/ where[Base] \in Establishing /\ d = Newest
    BY DEF Kept, Held, FunctorsOf
  <2>4. (\E l \in AllLoops : \E i \in 1..Len(toRun[l]) : toRun[l][i].conn = d) => Held(d)'
    BY <1>1 DEF Held, FunctorsOf
  <2> QED
    BY <1>1, <1>2, <2>1, <2>2, <2>3, <2>4 DEF Held
<1>5. CASE v = state
  <2>1. UNCHANGED <<conn, sock, connections_, pendingFunctors_>>
    BY <1>1, <1>5
  <2>2. \A l \in AllLoops : FunctorsOf(l)' = FunctorsOf(l)
    BY <1>1, <2>1 DEF FunctorsOf
  <2>3. \A c \in Conns : Held(c)' => Held(c)
    BY <1>1, <1>2, <2>1, <2>2 DEF Held
  <2> QED
    BY <1>1, <2>1, <2>3, FreeStep
<1>6. CASE Held(d)
  <2>1. \A c \in Conns : c # d => Life(c)' = Life(c) /\ sock'[c] = sock[c]
    BY <1>2, <1>3 DEF Life, Destroyed
  <2>2. /\ Life(d) = IF conn[d].state_ = "kDisconnected" THEN "closed" ELSE "open"
        /\ Life(d)' = IF conn'[d].state_ = "kDisconnected" THEN "closed" ELSE "open"
    BY <1>1, <1>2, <1>4, <1>6 DEF Life, Destroyed
  <2>3. Forward(state, v, d)
    BY DEF Handled, Fine
  <2>4. /\ Life(d) = "closed" => Life(d)' = "closed"
        /\ Life(d) \in {"open", "closed"} /\ Life(d)' \in {"open", "closed"}
        /\ sock'[d].unread => sock[d].unread
        /\ sock[d].unread /\ ~sock'[d].unread => Life(d) = "open"
    BY <1>1, <2>2, <2>3 DEF Forward
  <2> DEFINE lives == [c \in Conns |-> Life(c)]
             unreads == {c \in Conns : sock[c].unread}
  <2>5. lives' = [c \in Conns |-> IF c \in {d} THEN Life(d)' ELSE lives[c]]
    BY <2>1
  <2>6. unreads' \in {unreads, unreads \ {d}}
    BY <2>1, <2>4
  <2>7. CASE sock[d].unread /\ ~sock'[d].unread
    <3>1. unreads' = unreads \ {d}
      BY <2>1, <2>7
    <3>2. Connection!HandOver(d)
      BY <2>4, <2>5, <2>7, <3>1 DEF Connection!HandOver, Connection!Move
    <3> QED
      BY <3>2 DEF Connection!Next
  <2>8. CASE ~(sock[d].unread /\ ~sock'[d].unread)
    <3>1. unreads' = unreads
      BY <2>1, <2>4, <2>8
    <3>2. CASE Life(d)' = Life(d)
      <4>1. lives' = lives
        BY <2>5, <3>2
      <4> QED
        BY <3>1, <4>1 DEF Connection!vars
    <3>3. CASE Life(d)' # Life(d)
      <4>1. Life(d) = "open" /\ Life(d)' = "closed"
        BY <2>4, <3>3
      <4>2. Connection!Close(d)
        BY <2>5, <3>1, <4>1 DEF Connection!Close, Connection!Move
      <4> QED
        BY <4>2 DEF Connection!Next
    <3> QED
      BY <3>2, <3>3
  <2> QED
    BY <2>7, <2>8
<1> QED
  BY <1>5, <1>6 DEF Handled

LEMMA NewConnetionRefines ==
  ASSUME ServerInv, LifeInv, LifeInv', NewConnetion
  PROVE  Connection!Next
<1>0. PICK n \in Conns : n = nextConnectionId_ /\ n \in Nat
  <2>1. backlog > 0 /\ backlog \in Nat /\ nextConnectionId_ \in Nat
        /\ nextConnectionId_ + backlog <= MaxConns
    BY LoopFacts DEF NewConnetion, ServerInv, ActiveInv, AcceptInv, TypeOK
  <2> QED
    BY <2>1, BoundsAssumption DEF Conns
<1>1. /\ UNCHANGED <<sock, pendingFunctors_, toRun, holder>>
      /\ nextConnectionId_' = n + 1 /\ where[Base] = "dispatch" /\ where'[Base] = "enableReading"
      /\ connections_' = connections_ \cup {n}
  BY <1>0, LoopFacts DEF NewConnetion, holderVars, ServerInv, TypeOK
<1>2. ~Created(n)
  BY <1>0 DEF Created
<1>3. \A d \in Conns : Created(d)' <=> Created(d) \/ d = n
  BY <1>0, <1>1, BoundsAssumption DEF Conns, Created
<1>4. \A d \in Conns : d # n => conn'[d] = conn[d]
  BY <1>0, StateParts DEF NewConnetion, ServerInv
<1>5. Newest' = n /\ where[Base] \notin Establishing
  BY <1>0, <1>1 DEF Newest, Establishing
<1>6. \A d \in Conns : d # n => (Held(d)' <=> Held(d))
  <2>1. \A l \in AllLoops : FunctorsOf(l)' = FunctorsOf(l)
    BY <1>1 DEF FunctorsOf
  <2> QED
    BY <1>1, <1>5, <2>1 DEF Held
<1>7. Held(n)'
  BY <1>1 DEF Held
<1>8. conn'[n].state_ # "kDisconnected"
  <2>1. conn'[n].state_ = "kConnecting"
    BY <1>1, <1>5 DEF LifeInv, StageInv, StageAt, Early
  <2> QED
    BY <2>1
<1>9. Life(n) = "none" /\ Life(n)' = "open"
  BY <1>2, <1>3, <1>7, <1>8 DEF Life, Destroyed
<1>10. \A d \in Conns : d # n => Life(d)' = Life(d)
  BY <1>3, <1>4, <1>6 DEF Life, Destroyed
<1>11. [d \in Conns |-> Life(d)'] = [d \in Conns |-> IF d \in {n} THEN "open" ELSE Life(d)]
  BY <1>9, <1>10
<1>12. Connection!Accept(n)
  BY <1>1, <1>9, <1>11 DEF Connection!Accept, Connection!Move
<1> QED
  BY <1>12 DEF Connection!Next

LEMMA EstablishingRefines ==
  ASSUME ServerInv, LifeInv, Mapped, Mapped', EstablishingStep
  PROVE  Connection!Next
<1> USE DEF EstablishingStep, EnableReading, SetIndex, SetConnected, ConnectionCallback, Establish
<1>1. /\ UNCHANGED <<sock, connections_, pendingFunctors_, toRun, nextConnectionId_>>
      /\ where[Base] \in Establishing
      /\ holder' = holder \/ holder' = [holder EXCEPT ![Newest] = "idle"]
  BY DEF Establishing, acceptVars
<1>2. Newest' = Newest /\ \A l \in AllLoops : FunctorsOf(l)' = FunctorsOf(l)
  BY <1>1 DEF Newest, FunctorsOf
<1>3. \A c \in Conns : c # Newest => holder'[c] = holder[c]
  BY <1>1 DEF ServerInv, TypeOK
<1>4. \A c \in Conns : Held(c)' => Held(c)
  BY <1>1, <1>2, <1>3 DEF Held
<1>5. \A c \in Conns : conn'[c].state_ = "kDisconnected" <=> conn[c].state_ = "kDisconnected"
  BY EstablishingCloses
<1> QED
  BY <1>1, <1>4, <1>5, FreeStep

(* Of the other steps none makes a connection held.                        *)
LEMMA OtherHeld ==
  ASSUME ServerInv, [Next]_vars, ~HandlerStep, ~EstablishingStep, ~NewConnetion
  PROVE  \A c \in Conns : Held(c)' => Held(c)
<1> DEFINE Shrinking == \A c \in Conns : Held(c)' => Held(c)
<1>1. /\ where \in [AllLoops -> LoopPC] /\ Base \in AllLoops
      /\ pendingFunctors_ \in [AllLoops -> Seq(Functors(Conns))]
      /\ toRun \in [AllLoops -> Seq(Functors(Conns))]
      /\ holder \in [Conns -> {"none", "idle", "send", "closeConnection"}]
  BY LoopFacts, StateParts DEF ServerInv, TypeOK
<1>2. /\ UNCHANGED <<connections_, pendingFunctors_, toRun, nextConnectionId_>>
      /\ where'[Base] \in Establishing => where[Base] \in Establishing
      /\ \A d \in Conns : holder[d] = "none" => holder'[d] = "none"
      => Shrinking
  <2> SUFFICES ASSUME UNCHANGED <<connections_, pendingFunctors_, toRun, nextConnectionId_>>,
                      where'[Base] \in Establishing => where[Base] \in Establishing,
                      \A d \in Conns : holder[d] = "none" => holder'[d] = "none"
               PROVE  Shrinking
    OBVIOUS
  <2>1. Newest' = Newest /\ \A l \in AllLoops : FunctorsOf(l)' = FunctorsOf(l)
    BY DEF Newest, FunctorsOf
  <2> QED
    BY <2>1, HeldShrinks
<1>3. ASSUME NEW l \in AllLoops, LoopStep(l)
      PROVE  Shrinking
  <2>1. CASE Poll(l)
    BY <1>1, <1>2, <2>1 DEF Poll, Establishing, acceptVars, holderVars
  <2>2. ASSUME DoPendingFunctors(l) \/ FinishFunctors(l) \/ DestroyLoop(l)
        PROVE  Shrinking
    <3>1. /\ UNCHANGED <<connections_, nextConnectionId_, holder>>
          /\ where'[Base] \in Establishing => where[Base] \in Establishing
      BY <1>1, <2>2 DEF DoPendingFunctors, FinishFunctors, DestroyLoop, Establishing, acceptVars,
         holderVars, serverVars
    <3>2. ASSUME NEW m \in AllLoops
          PROVE  FunctorsOf(m)' \subseteq FunctorsOf(m)
      <4>1. Len(<<>>) = 0
        OBVIOUS
      <4>2. \/ pendingFunctors_'[m] = pendingFunctors_[m] /\ toRun'[m] = toRun[m]
            \/ pendingFunctors_'[m] = <<>> /\ toRun'[m] = pendingFunctors_[m]
            \/ pendingFunctors_'[m] = pendingFunctors_[m] /\ toRun'[m] = <<>>
            \/ pendingFunctors_'[m] = <<>> /\ toRun'[m] = toRun[m]
        BY <1>1, <2>2 DEF DoPendingFunctors, FinishFunctors, DestroyLoop, serverVars
      <4> QED
        BY <4>1, <4>2 DEF FunctorsOf
    <3>3. Newest' = Newest
      BY <3>1 DEF Newest
    <3> QED
      BY <3>1, <3>2, <3>3, HeldShrinks
  <2> QED
    BY <1>3, <2>1, <2>2 DEF LoopStep, HandlerStep
<1>4. ASSUME BaseStep
      PROVE  Shrinking
  <2>1. CASE DestroyServer
    <3>1. /\ UNCHANGED <<pendingFunctors_, toRun, nextConnectionId_, holder>>
          /\ connections_' \subseteq connections_ /\ where'[Base] \notin Establishing
      BY <1>1, <2>1 DEF DestroyServer, Establishing, acceptVars, holderVars
    <3>2. \A l \in AllLoops : FunctorsOf(l)' = FunctorsOf(l)
      BY <3>1 DEF FunctorsOf
    <3> QED
      BY <3>1, <3>2, HeldShrinks
  <2>2. CASE Start
    BY <1>1, <1>2, <2>2 DEF Start, Establishing, serverVars, acceptVars, holderVars
  <2>3. ASSUME NEW i \in 1..Len(Loops), StopPoolLoop(i)
        PROVE  Shrinking
    BY <1>2, <2>3 DEF StopPoolLoop, StopLoop, serverVars, acceptVars, holderVars
  <2> QED
    BY <1>4, <2>1, <2>2, <2>3 DEF BaseStep, EstablishingStep
<1>5. ASSUME NEW c \in Conns, HolderStep(c)
      PROVE  Shrinking
  BY <1>1, <1>2, <1>5 DEF HolderStep, HandlerStep, BeginCall, Drop, serverVars, acceptVars, loopVars
<1>6. ASSUME NEW c \in Conns, PeerStep(c)
      PROVE  Shrinking
  BY <1>2, <1>6 DEF PeerStep, PeerSends, PeerCloses, PeerResets, PeerReads, PeerActs, acceptVars,
     loopVars, holderVars
<1>7. StopBase \/ PeerConnects \/ UNCHANGED vars => Shrinking
  BY <1>2 DEF StopBase, StopLoop, PeerConnects, vars, serverVars, acceptVars, loopVars, holderVars
<1> QED
  BY <1>3, <1>4, <1>5, <1>6, <1>7 DEF Next

LEMMA PeerSendsRefines ==
  ASSUME ServerInv, NEW d \in Conns, PeerSends(d)
  PROVE  Connection!Next
<1>1. /\ UNCHANGED <<conn, connections_, pendingFunctors_, toRun, nextConnectionId_, holder, where>>
      /\ Created(d) /\ ~Destroyed(d)
      /\ sock' = [sock EXCEPT ![d] = [sock[d] EXCEPT !.unread = TRUE, !.inputs = @ + 1]]
      /\ sock \in [Conns -> Sockets({"m"})]
  BY StateParts DEF PeerSends, PeerActs, acceptVars, loopVars, holderVars, ServerInv
<1>2. Newest' = Newest /\ \A l \in AllLoops : FunctorsOf(l)' = FunctorsOf(l)
  BY <1>1 DEF Newest, FunctorsOf
<1>3. \A c \in Conns : Life(c)' = Life(c)
  BY <1>1, <1>2 DEF Life, Destroyed, Held, Created
<1>4. Life(d) \in {"open", "closed"}
  BY <1>1 DEF Life
<1>5. {c \in Conns : sock'[c].unread} = {c \in Conns : sock[c].unread} \cup {d}
  <2> DEFINE x == sock[d]
             y == [x EXCEPT !.unread = TRUE, !.inputs = @ + 1]
  <2>1. x \in Sockets({"m"})
    BY <1>1
  <2> HIDE DEF x
  <2>2. y.unread = TRUE
    BY <2>1 DEF Sockets
  <2> HIDE DEF y
  <2>3. sock' = [sock EXCEPT ![d] = y]
    BY <1>1 DEF x, y
  <2> QED
    BY <1>1, <2>2, <2>3
<1>6. Connection!Arrive(d)
  BY <1>3, <1>4, <1>5 DEF Connection!Arrive
<1> QED
  BY <1>6 DEF Connection!Next

(* Each step of the server is one of ConnectionLife, or none.              *)
LEMMA StepRefines ==
  ASSUME ServerInv, LifeInv, LifeInv', Mapped, Mapped', [Next]_vars
  PROVE  [Connection!Next]_Connection!vars
<1>1. CASE HandlerStep
  BY <1>1, HandledLife, HandlerRefines DEF HandlerStep
<1>2. CASE NewConnetion
  BY <1>2, NewConnetionRefines
<1>3. CASE EstablishingStep
  BY <1>3, EstablishingRefines
<1>4. CASE ~HandlerStep /\ ~EstablishingStep /\ ~NewConnetion
  <2>1. CASE \E d \in Conns : PeerSends(d)
    BY <2>1, PeerSendsRefines
  <2>2. CASE ~ \E d \in Conns : PeerSends(d)
    BY <1>4, <2>2, OtherSteps, OtherHeld, FreeStep
  <2> QED
    BY <2>1, <2>2
<1> QED
  BY <1>1, <1>2, <1>3, <1>4

LEMMA LifeBegins == Init => Connection!Init
<1> SUFFICES ASSUME Init PROVE Connection!Init
  OBVIOUS
<1>1. \A c \in Conns : ~Created(c) /\ ~sock[c].unread
  BY BoundsAssumption DEF Init, Created, Conns, NewSocket
<1>2. \A c \in Conns : Life(c) = "none"
  BY <1>1 DEF Life
<1> QED
  BY <1>1, <1>2 DEF Connection!Init

(* What ConnectionLife allows is all that happens to a connection: however *)
(* its loop, the base loop, the program's threads and its peer interleave, *)
(* it is accepted once, closed once, freed only after that, and handed no  *)
(* input from then on.  (The safety part of ImplementsLife.)               *)
THEOREM ConnectionsLive ==
  ASSUME "reset" \notin Faults, "shutdown" \notin Faults
  PROVE  Spec => Connection!Init /\ [][Connection!Next]_Connection!vars
<1>1. Init => UpInv /\ Connection!Init
  BY LoopFacts, LifeBegins DEF Init, UpInv
<1>2. ServerInv /\ UpInv /\ [Next]_vars => UpInv'
  BY UpStep
<1>3. LifeInv /\ UpInv => Mapped
  BY OpenIsMapped
<1>4. ServerInv /\ LifeInv /\ LifeInv' /\ Mapped /\ Mapped' /\ [Next]_vars =>
        [Connection!Next]_Connection!vars
  BY StepRefines
<1> QED
  BY <1>1, <1>2, <1>3, <1>4, LifeInvariant, PTL DEF Spec

-----------------------------------------------------------------------------
(* The teardown, where nobody sends from outside and the server stays.     *)

(* Work on another connection.                                             *)
LEMMA OtherTorn ==
  ASSUME NEW w \in Servers(Conns, AllLoops, {"m"}), NEW v, NEW c \in Conns,
         Works(Conns, AllLoops, {"m"}, w, v, c), NEW d \in Conns, d # c,
         NEW t, NEW a, Torn(w, t, a, d)
  PROVE  Torn(v, t, a, d)
<1>1. /\ v.conn[d] = w.conn[d]
      /\ d \in v.connections_ <=> d \in w.connections_
      /\ w.conn[d].loop \in AllLoops
  BY DEF Works, Touches, Servers, Connections
<1>2. \A ops : \A m \in AllLoops :
        Due(v.pendingFunctors_[m], 1, d, ops) = Due(w.pendingFunctors_[m], 1, d, ops)
  <2> SUFFICES ASSUME NEW ops, NEW m \in AllLoops
               PROVE  Due(v.pendingFunctors_[m], 1, d, ops) = Due(w.pendingFunctors_[m], 1, d, ops)
    OBVIOUS
  <2> DEFINE p == w.pendingFunctors_[m]
             q == v.pendingFunctors_[m]
  <2>1. /\ p \in Seq(Functors(Conns)) /\ q \in Seq(Functors(Conns))
        /\ Extends(p, q, m, w.conn[c].loop, c)
    BY DEF Works, Touches, Servers
  <2> HIDE DEF p, q
  <2>2. Due(q, 1, d, ops) = Due(p, 1, d, ops)
    BY <2>1, DueElsewhere
  <2> QED
    BY <2>2 DEF p, q
<1>3. /\ \A ops : NoneDue(v, t, a, d, ops) <=> NoneDue(w, t, a, d, ops)
      /\ \A ops : \A m \in AllLoops : OneDue(v, t, a, m, d, ops) <=> OneDue(w, t, a, m, d, ops)
  BY <1>2 DEF NoneDue, OneDue
<1> QED
  BY <1>1, <1>3 DEF Torn

LEMMA HandledTorn ==
  ASSUME ServerInv, UpInv, DeadInv, LifeInv, TornInv, NEW c \in Conns, NEW v, Handled(c, v)
  PROVE  TornInv'
<1>1. /\ state' = v /\ toRun' = toRun /\ state \in Servers(Conns, AllLoops, {"m"})
      /\ Works(Conns, AllLoops, {"m"}, state, v, c)
      /\ \A d : Created(d)' <=> Created(d)
      /\ Created(c)
  BY StateIs DEF Handled, Works, ServerInv, TypeOK, Created
<1>2. ~Gone /\ holder[c] = "none"
  BY DEF UpInv, Gone, DeadInv
<1>3. ASSUME NEW d \in Conns, Created(d)
      PROVE  Torn(v, toRun, at', d)
  <2>1. Torn(state, toRun, at, d)
    BY <1>3 DEF TornInv
  <2>2. CASE d = c
    BY <1>2, <2>1, <2>2 DEF Handled
  <2>3. CASE d # c
    <3>1. Torn(state, toRun, at', d)
      BY <2>1, <2>3 DEF Handled
    <3> QED
      BY <1>1, <2>3, <3>1, OtherTorn
  <2> QED
    BY <2>2, <2>3
<1>4. \A d \in Conns : Created(d)' => Torn(state', toRun', at', d)
  BY <1>1, <1>3
<1> QED
  BY <1>4 DEF TornInv

(* Loop l's queue becomes its vector, or both stay.                        *)
Moves(l, c, ops) ==
  LET P == Due(pendingFunctors_[l], 1, c, ops)
      Q == Due(toRun[l], at[l], c, ops)
      P2 == Due(pendingFunctors_'[l], 1, c, ops)
      Q2 == Due(toRun'[l], at'[l], c, ops)
  IN  (P2 = P /\ Q2 = Q) \/ (P2 = {} /\ Q2 = P /\ Q = {})

LEMMA FrameTorn ==
  ASSUME TornInv, UNCHANGED <<nextConnectionId_, connections_>>, ServerInv,
         \A c \in Conns : /\ conn'[c].loop = conn[c].loop
                          /\ conn'[c].state_ = conn[c].state_
                          /\ conn'[c].writing_ = conn[c].writing_
                          /\ conn'[c].index_ = conn[c].index_,
         \A c \in Conns : \A ops : \A m \in AllLoops :
           Moves(m, c, ops)
  PROVE  TornInv'
<1> SUFFICES ASSUME NEW c \in Conns, Created(c)
             PROVE  Torn(state', toRun', at', c)
  BY DEF TornInv, Created
<1>1. /\ state'.conn = conn' /\ state.conn = conn
      /\ state'.connections_ = connections_ /\ state.connections_ = connections_
      /\ state'.pendingFunctors_ = pendingFunctors_' /\ state.pendingFunctors_ = pendingFunctors_
  BY DEF state
<1>2. /\ \A ops : NoneDue(state', toRun', at', c, ops) <=> NoneDue(state, toRun, at, c, ops)
      /\ \A ops : \A m \in AllLoops :
           OneDue(state', toRun', at', m, c, ops) <=> OneDue(state, toRun, at, m, c, ops)
  <2>1. ASSUME NEW ops, NEW m \in AllLoops
        PROVE  LET P == Due(state.pendingFunctors_[m], 1, c, ops)
                   Q == Due(toRun[m], at[m], c, ops)
                   P2 == Due(state'.pendingFunctors_[m], 1, c, ops)
                   Q2 == Due(toRun'[m], at'[m], c, ops)
               IN  (P2 = P /\ Q2 = Q) \/ (P2 = {} /\ Q2 = P /\ Q = {})
    BY <1>1 DEF Moves
  <2>2. ASSUME NEW ops
        PROVE  NoneDue(state', toRun', at', c, ops) <=> NoneDue(state, toRun, at, c, ops)
    BY <2>1 DEF NoneDue
  <2>3. ASSUME NEW ops, NEW m \in AllLoops
        PROVE  OneDue(state', toRun', at', m, c, ops) <=> OneDue(state, toRun, at, m, c, ops)
    BY <2>1 DEF OneDue
  <2> QED
    BY <2>2, <2>3
<1>3. conn[c].loop \in AllLoops
  BY StateParts DEF ServerInv, Connections
<1>4. Torn(state, toRun, at, c)
  BY DEF TornInv
<1> QED
  BY <1>1, <1>2, <1>3, <1>4 DEF Torn

(* An open connection is, whatever newConnetion does to it.                *)
LEMMA OpenTorn ==
  ASSUME ServerInv', LifeInv', UpInv', NEW c \in Conns, Created(c)',
         conn'[c].state_ # "kDisconnected",
         NoneDue(state', toRun', at', c, {"sendInLoop"})
  PROVE  Torn(state', toRun', at', c)
<1>1. state'.conn = conn' /\ ~Gone'
  BY DEF state, UpInv, Gone
<1>2. conn'[c].loop \in AllLoops
  BY StateParts DEF ServerInv, TypeOK, Servers, Connections, state
<1>3. QueueInv(state', toRun', at', Gone', c)
  BY DEF LifeInv, Good
<1> QED
  BY <1>1, <1>2, <1>3, TornOpen

LEMMA EstablishingTorn ==
  ASSUME ServerInv, LifeInv, TornInv, ServerInv', LifeInv', UpInv', EstablishingStep
  PROVE  TornInv'
<1> SUFFICES ASSUME NEW c \in Conns, Created(c)'
             PROVE  Torn(state', toRun', at', c)
  BY DEF TornInv
<1>1. UNCHANGED <<nextConnectionId_, connections_, pendingFunctors_, toRun, at>>
  BY DEF EstablishingStep, EnableReading, SetIndex, SetConnected, ConnectionCallback, Establish,
     acceptVars
<1>2. /\ state'.conn = conn' /\ state.conn = conn
      /\ state'.connections_ = state.connections_
      /\ state'.pendingFunctors_ = state.pendingFunctors_
      /\ Created(c)
  BY <1>1 DEF state, Created
<1>3. /\ Torn(state, toRun, at, c)
      /\ \A ops : NoneDue(state', toRun', at', c, ops) <=> NoneDue(state, toRun, at, c, ops)
      /\ \A ops, m : OneDue(state', toRun', at', m, c, ops) <=> OneDue(state, toRun, at, m, c, ops)
  BY <1>1, <1>2 DEF TornInv, NoneDue, OneDue
<1>4. CASE conn'[c].state_ # "kDisconnected"
  BY <1>3, <1>4, OpenTorn DEF Torn
<1>5. CASE conn'[c].state_ = "kDisconnected"
  <2>1. conn[c].state_ = "kDisconnected"
    BY <1>5, EstablishingCloses
  <2>2. /\ conn'[c].loop = conn[c].loop /\ conn'[c].writing_ = conn[c].writing_
        /\ conn'[c].index_ = conn[c].index_
    <3>1. conn \in [Conns -> Connections(AllLoops, {"m"})]
      BY StateParts DEF ServerInv
    <3>2. CASE c # Newest
      BY <3>1, <3>2 DEF EstablishingStep, EnableReading, SetIndex, SetConnected,
         ConnectionCallback, Establish
    <3>3. CASE c = Newest
      <4>1. ConnectionCallback
        BY <2>1, <3>3 DEF EstablishingStep, EnableReading, SetIndex, SetConnected, Establish,
           LifeInv, StageInv, StageAt, Early
      <4> DEFINE k == conn[c]
      <4>2. k \in Connections(AllLoops, {"m"})
        BY <3>1
      <4>3. conn'[c] = [k EXCEPT !.context_ = @ \/ k.state_ = "kConnected"]
        BY <3>1, <3>3, <4>1 DEF ConnectionCallback, Establish
      <4> HIDE DEF k
      <4>4. conn'[c].loop = k.loop /\ conn'[c].writing_ = k.writing_ /\ conn'[c].index_ = k.index_
        BY <4>2, <4>3 DEF Connections
      <4> QED
        BY <4>4 DEF k
    <3> QED
      BY <3>2, <3>3
  <2> QED
    BY <1>2, <1>3, <1>5, <2>1, <2>2 DEF Torn
<1> QED
  BY <1>4, <1>5

LEMMA NewConnetionTorn ==
  ASSUME ServerInv, TornInv, ServerInv', LifeInv', UpInv', NewConnetion
  PROVE  TornInv'
<1> SUFFICES ASSUME NEW c \in Conns, Created(c)'
             PROVE  Torn(state', toRun', at', c)
  BY DEF TornInv
<1>1. PICK n \in Conns : n = nextConnectionId_
  <2>1. nextConnectionId_ \in 0..MaxConns /\ nextConnectionId_' \in 0..MaxConns
        /\ nextConnectionId_' = nextConnectionId_ + 1 /\ MaxConns \in Nat
    BY BoundsAssumption DEF NewConnetion, ServerInv, TypeOK
  <2> QED
    BY <2>1 DEF Conns
<1>2. /\ UNCHANGED <<pendingFunctors_, toRun, at>>
      /\ connections_' = connections_ \cup {n}
      /\ nextConnectionId_' = n + 1
      /\ \E open \in BOOLEAN : conn' = [conn EXCEPT ![n] = NewConnection(NextLoop, open)]
      /\ conn \in [Conns -> Connections(AllLoops, {"m"})]
  BY <1>1, StateParts DEF NewConnetion, ServerInv
<1>3. /\ state'.conn = conn' /\ state.conn = conn
      /\ state'.connections_ = connections_' /\ state.connections_ = connections_
      /\ state'.pendingFunctors_ = state.pendingFunctors_
  BY <1>2 DEF state
<1>4. /\ \A ops : NoneDue(state', toRun', at', c, ops) <=> NoneDue(state, toRun, at, c, ops)
      /\ \A ops, m : OneDue(state', toRun', at', m, c, ops) <=> OneDue(state, toRun, at, m, c, ops)
  BY <1>2, <1>3 DEF NoneDue, OneDue
<1>5. CASE c = n
  <2>1. conn'[c].state_ = "kConnecting"
    BY <1>2, <1>5 DEF NewConnection
  <2>2. NoneDue(state', toRun', at', c, {"sendInLoop"})
    BY <1>3, <2>1 DEF LifeInv, Good, QueueInv
  <2> QED
    BY <2>1, <2>2, OpenTorn
<1>6. CASE c # n
  <2>1. Created(c)
    BY <1>1, <1>2, <1>6, BoundsAssumption DEF Created, Conns
  <2>2. Torn(state, toRun, at, c)
    BY <2>1 DEF TornInv
  <2>3. conn'[c] = conn[c]
    BY <1>2, <1>6
  <2> QED
    BY <1>2, <1>3, <1>4, <1>6, <2>2, <2>3 DEF Torn
<1> QED
  BY <1>5, <1>6

LEMMA PassTorn ==
  ASSUME ServerInv, UpInv, TornInv, [Next]_vars,
         ~HandlerStep, ~EstablishingStep, ~NewConnetion
  PROVE  TornInv'
<1>1. /\ conn \in [Conns -> Connections(AllLoops, {"m"})]
      /\ pendingFunctors_ \in [AllLoops -> Seq(Functors(Conns))]
      /\ toRun \in [AllLoops -> Seq(Functors(Conns))] /\ at \in [AllLoops -> Nat]
  BY StateParts DEF ServerInv, TypeOK
<1>2. \A c, ops : Due(<<>>, 1, c, ops) = {}
  BY DueEmpty
<1>3. UNCHANGED <<conn, nextConnectionId_, connections_, pendingFunctors_, toRun, at>> => TornInv'
  BY FrameTorn DEF Moves
<1>4. ASSUME NEW l \in AllLoops, Poll(l)
      PROVE  TornInv'
  <2>1. UNCHANGED <<nextConnectionId_, connections_, pendingFunctors_, toRun, at>>
    BY <1>4 DEF Poll, acceptVars
  <2>2. \A c \in Conns : /\ conn'[c].loop = conn[c].loop
                         /\ conn'[c].state_ = conn[c].state_
                         /\ conn'[c].writing_ = conn[c].writing_
                         /\ conn'[c].index_ = conn[c].index_
    BY <1>1, <1>4 DEF Poll, Connections
  <2> QED
    BY <2>1, <2>2, FrameTorn DEF Moves
<1>5. ASSUME NEW l \in AllLoops, DoPendingFunctors(l)
      PROVE  TornInv'
  <2>1. UNCHANGED <<conn, nextConnectionId_, connections_>>
    BY <1>5 DEF DoPendingFunctors, acceptVars
  <2>2. toRun[l] = <<>> /\ at[l] = 1
    BY <1>5 DEF DoPendingFunctors, ServerInv, QueuesInv
  <2>3. /\ toRun'[l] = pendingFunctors_[l] /\ pendingFunctors_'[l] = <<>> /\ at' = at
        /\ \A m \in AllLoops : m # l => /\ pendingFunctors_'[m] = pendingFunctors_[m]
                                        /\ toRun'[m] = toRun[m]
    BY <1>1, <1>5 DEF DoPendingFunctors
  <2>4. ASSUME NEW c \in Conns, NEW ops, NEW m \in AllLoops
        PROVE  Moves(m, c, ops)
    <3>1. CASE m = l
      BY <1>2, <2>2, <2>3, <3>1 DEF Moves
    <3>2. CASE m # l
      BY <2>3, <3>2 DEF Moves
    <3> QED
      BY <3>1, <3>2
  <2> QED
    BY <2>1, <2>4, FrameTorn
<1>6. ASSUME NEW l \in AllLoops, FinishFunctors(l)
      PROVE  TornInv'
  <2>1. UNCHANGED <<conn, nextConnectionId_, connections_, pendingFunctors_>>
    BY <1>6 DEF FinishFunctors, acceptVars, serverVars
  <2>2. /\ toRun'[l] = <<>> /\ at'[l] = 1
        /\ \A m \in AllLoops : m # l => toRun'[m] = toRun[m] /\ at'[m] = at[m]
    BY <1>1, <1>6 DEF FinishFunctors
  <2>3. \A c, ops : Due(toRun[l], at[l], c, ops) = {}
    <3>1. at[l] > Len(toRun[l]) /\ at[l] \in Nat /\ Len(toRun[l]) \in Nat
      BY <1>1, <1>6 DEF FinishFunctors
    <3>2. at[l]..Len(toRun[l]) = {}
      BY <3>1
    <3> QED
      BY <3>2 DEF Due
  <2>4. ASSUME NEW c \in Conns, NEW ops, NEW m \in AllLoops
        PROVE  Moves(m, c, ops)
    <3>1. CASE m = l
      BY <1>2, <2>1, <2>2, <2>3, <3>1 DEF Moves
    <3>2. CASE m # l
      BY <2>1, <2>2, <3>2 DEF Moves
    <3> QED
      BY <3>1, <3>2
  <2> QED
    BY <2>1, <2>4, FrameTorn
<1>7. ASSUME NEW l \in AllLoops, DestroyLoop(l)
      PROVE  FALSE
  BY <1>7, LoopFacts DEF DestroyLoop, MayDestroy, UpInv, ServerInv, WhereInv, Gone
<1>8. ASSUME NEW l \in AllLoops, LoopStep(l)
      PROVE  TornInv'
  <2>1. ~RunNext(l) /\ \A c \in Conns : ~HandleEvent(l, c)
    BY DEF HandlerStep
  <2> QED
    BY <1>4, <1>5, <1>6, <1>7, <1>8, <2>1 DEF LoopStep
<1>9. ASSUME BaseStep
      PROVE  TornInv'
  <2>1. ~DestroyServer /\ \A i \in 1..Len(Loops) : ~StopPoolLoop(i)
    BY DEF DestroyServer, StopPoolLoop, UpInv
  <2>2. Start
    BY <1>9, <2>1 DEF BaseStep, EstablishingStep
  <2> QED
    BY <1>3, <2>2 DEF Start, serverVars, acceptVars
<1>10. ASSUME NEW c \in Conns, HolderStep(c) \/ PeerStep(c)
       PROVE  TornInv'
  BY <1>3, <1>10 DEF HolderStep, HandlerStep, BeginCall, Drop, PeerStep, PeerSends, PeerCloses,
     PeerResets, PeerReads, PeerActs, serverVars, acceptVars, loopVars
<1>11. StopBase \/ PeerConnects \/ UNCHANGED vars => TornInv'
  BY <1>3 DEF StopBase, StopLoop, PeerConnects, vars, serverVars, acceptVars, loopVars
<1> QED
  BY <1>8, <1>9, <1>10, <1>11 DEF Next

LEMMA TornStep ==
  ASSUME ServerInv, UpInv, DeadInv, LifeInv, TornInv, [Next]_vars,
         ServerInv', UpInv', LifeInv'
  PROVE  TornInv'
<1>1. CASE HandlerStep
  <2>0. PICK c \in Conns : \E v : Handled(c, v)
    BY <1>1, HandledLife DEF HandlerStep
  <2>1. PICK v : Handled(c, v)
    BY <2>0
  <2> QED
    BY <2>1, HandledTorn
<1> QED
  BY <1>1, EstablishingTorn, NewConnetionTorn, PassTorn

LEMMA NoneWait ==
  ASSUME NEW c, NEW ops, NoneDue(state, toRun, at, c, ops)
  PROVE  Waiting(c, ops) = 0
<1>1. Places(c, ops) = {}
  BY DEF NoneDue, Places, state
<1> QED
  BY <1>1, FS_EmptySet DEF Waiting

LEMMA OneWaits ==
  ASSUME NEW c, NEW ops, NEW l \in AllLoops, OneDue(state, toRun, at, l, c, ops),
         ~NoneDue(state, toRun, at, c, ops),
         \A m \in AllLoops : m # l => /\ Due(pendingFunctors_[m], 1, c, ops) = {}
                                      /\ Due(toRun[m], at[m], c, ops) = {}
  PROVE  Waiting(c, ops) = 1
<1> DEFINE P(m) == {<<m, "pending", i>> : i \in Due(pendingFunctors_[m], 1, c, ops)}
           Q(m) == {<<m, "toRun", i>> : i \in Due(toRun[m], at[m], c, ops)}
<1>1. Places(c, ops) = UNION {P(m) \cup Q(m) : m \in AllLoops}
  BY DEF Places
<1>2. \A m \in AllLoops : m # l => P(m) = {} /\ Q(m) = {}
  OBVIOUS
<1>3. PICK x : P(l) \cup Q(l) = {x}
  <2> DEFINE D == Due(pendingFunctors_[l], 1, c, ops)
             E == Due(toRun[l], at[l], c, ops)
  <2>1. /\ \A i, j \in D : i = j
        /\ \A i, j \in E : i = j
        /\ D = {} \/ E = {}
        /\ D # {} \/ E # {}
    BY DEF OneDue, NoneDue, state
  <2>2. P(l) = {<<l, "pending", i>> : i \in D} /\ Q(l) = {<<l, "toRun", i>> : i \in E}
    OBVIOUS
  <2> HIDE DEF D, E, P, Q
  <2>3. \E i : (D = {i} /\ E = {}) \/ (D = {} /\ E = {i})
    BY <2>1
  <2>4. PICK i : (D = {i} /\ E = {}) \/ (D = {} /\ E = {i})
    BY <2>3
  <2>5. P(l) \cup Q(l) = {<<l, "pending", i>>} \/ P(l) \cup Q(l) = {<<l, "toRun", i>>}
    BY <2>2, <2>4
  <2> QED
    BY <2>5
<1> HIDE DEF P, Q
<1>4. Places(c, ops) = {x}
  BY <1>1, <1>2, <1>3
<1> QED
  BY <1>4, FS_Singleton DEF Waiting

(* A connection is removed from the map once, and its channel destroyed    *)
(* once, whichever of its loop and the base loop runs ahead of the other:  *)
(* handleClose, removeConnectionInLoop and connectionDestroyed, each       *)
(* queued for the next.                                                    *)
THEOREM TornDownOnce ==
  ASSUME "reset" \notin Faults, "shutdown" \notin Faults, MaxCalls = 0
  PROVE  Spec => []TeardownOnce
<1>1. Init => UpInv /\ TornInv
  BY LoopFacts, BoundsAssumption DEF Init, UpInv, TornInv, Created, Conns
<1>2. ServerInv /\ UpInv /\ [Next]_vars => UpInv'
  BY UpStep
<1>3. /\ ServerInv /\ UpInv /\ DeadInv /\ LifeInv /\ TornInv /\ [Next]_vars
      /\ ServerInv' /\ UpInv' /\ LifeInv'
      => TornInv'
  BY TornStep
<1>4. ASSUME ServerInv, UpInv, LifeInv, TornInv
      PROVE  TeardownOnce
  <2> DEFINE gone == {"connectionDestroyed"}
  <2> SUFFICES ASSUME NEW c \in Conns, Created(c)
               PROVE  /\ c \in connections_ =>
                           /\ Waiting(c, gone) = 0
                           /\ Waiting(c, Removals) =
                                (IF conn[c].state_ = "kDisconnected" THEN 1 ELSE 0)
                      /\ c \notin connections_ =>
                           /\ conn[c].state_ = "kDisconnected"
                           /\ Waiting(c, Removals) = 0
                           /\ Waiting(c, gone) = (IF conn[c].index_ = "kAdded" THEN 1 ELSE 0)
    BY DEF TeardownOnce
  <2>1. /\ Torn(state, toRun, at, c) /\ QueueInv(state, toRun, at, Gone, c) /\ ~Gone
        /\ state.conn = conn /\ state.connections_ = connections_
        /\ state.pendingFunctors_ = pendingFunctors_
        /\ Base \in AllLoops /\ conn[c].loop \in AllLoops
    BY <1>4, LoopFacts, StateParts
       DEF TornInv, LifeInv, Good, UpInv, Gone, state, ServerInv, Connections
  <2>2. ASSUME ~NoneDue(state, toRun, at, c, Removals)
        PROVE  Waiting(c, Removals) = 1
    <3>1. ASSUME NEW m \in AllLoops, m # Base
          PROVE  /\ Due(pendingFunctors_[m], 1, c, Removals) = {}
                 /\ Due(toRun[m], at[m], c, Removals) = {}
      <4>1. /\ \A i \in 1..Len(pendingFunctors_[m]) : pendingFunctors_[m][i].op \notin Removals
            /\ \A i \in 1..Len(toRun[m]) : toRun[m][i].op \notin Removals
        BY <1>4, <3>1 DEF ServerInv, QueuesInv, InPlace
      <4>2. at[m] \in Nat /\ at[m] >= 1
        BY <1>4 DEF ServerInv, TypeOK
      <4> QED
        BY <4>1, <4>2 DEF Due
    <3> QED
      BY <2>1, <2>2, <3>1, OneWaits DEF QueueInv
  <2>3. ASSUME ~NoneDue(state, toRun, at, c, gone)
        PROVE  Waiting(c, gone) = 1
    <3>1. ASSUME NEW m \in AllLoops, m # conn[c].loop
          PROVE  /\ Due(pendingFunctors_[m], 1, c, gone) = {}
                 /\ Due(toRun[m], at[m], c, gone) = {}
      <4>0. "connectionDestroyed" \notin Removals
        BY DEF Removals
      <4>1. /\ \A i \in 1..Len(pendingFunctors_[m]) :
                 pendingFunctors_[m][i].op = "connectionDestroyed" => pendingFunctors_[m][i].conn # c
            /\ \A i \in 1..Len(toRun[m]) :
                 toRun[m][i].op = "connectionDestroyed" => toRun[m][i].conn # c
        BY <1>4, <3>1, <4>0 DEF ServerInv, QueuesInv, InPlace
      <4>2. at[m] \in Nat /\ at[m] >= 1
        BY <1>4 DEF ServerInv, TypeOK
      <4> QED
        BY <4>1, <4>2 DEF Due
    <3>2. OneDue(state, toRun, at, conn[c].loop, c, gone)
      BY <2>1 DEF Torn
    <3> HIDE DEF gone
    <3> QED
      BY <2>1, <2>3, <3>1, <3>2, OneWaits
  <2>4. /\ NoneDue(state, toRun, at, c, Removals) => Waiting(c, Removals) = 0
        /\ NoneDue(state, toRun, at, c, gone) => Waiting(c, gone) = 0
    BY NoneWait
  <2>5. CASE c \in connections_
    <3>1. NoneDue(state, toRun, at, c, gone)
      BY <2>1, <2>5 DEF QueueInv
    <3>2. conn[c].state_ = "kDisconnected" <=> ~NoneDue(state, toRun, at, c, Removals)
      <4>1. NoneDue(state, toRun, at, c, Removals \cup gone) => NoneDue(state, toRun, at, c, Removals)
        BY DueUnion DEF NoneDue
      <4> QED
        BY <2>1, <2>5, <4>1 DEF QueueInv, Torn
    <3> QED
      BY <2>2, <2>4, <2>5, <3>1, <3>2
  <2>6. CASE c \notin connections_
    <3>1. conn[c].state_ = "kDisconnected" /\ NoneDue(state, toRun, at, c, Removals)
      BY <2>1, <2>6 DEF QueueInv
    <3>2. conn[c].index_ = "kAdded" <=> ~NoneDue(state, toRun, at, c, gone)
      BY <2>1, <2>6 DEF Torn
    <3> QED
      BY <2>3, <2>4, <2>6, <3>1, <3>2
  <2> QED
    BY <2>5, <2>6
<1> QED
  BY <1>1, <1>2, <1>3, <1>4, LifeInvariant, DeadInvariant, PTL DEF Spec
=============================================================================
