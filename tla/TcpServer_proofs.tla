---------------------------- MODULE TcpServer_proofs ----------------------------
(***************************************************************************)
(* What holds of the server whatever the peers, the program and accept do: *)
(* types, where functors and reported channels are, who is left when.      *)
(***************************************************************************)
EXTENDS TcpServer, TcpConnection_proofs, FiniteSetTheorems

(* ~TcpServer has dropped connections_.                                    *)
Gone == where[Base] \in {"joining", "destroyed"}

(* A functor is in the queue of the loop that is to run it.                *)
InPlace(f, l) ==
  /\ Created(f.conn)
  /\ l = (IF f.op \in Removals THEN Base ELSE conn[f.conn].loop)

QueuesInv ==
  \A l \in AllLoops :
    /\ toRun[l] # <<>> => where[l] = "functors"
    /\ where[l] # "functors" => at[l] = 1
    /\ \A i \in 1..Len(pendingFunctors_[l]) : InPlace(pendingFunctors_[l][i], l)
    /\ \A i \in 1..Len(toRun[l]) : InPlace(toRun[l][i], l)

ActiveInv ==
  \A l \in AllLoops :
    /\ activeChannels[l] # {} =>
         where[l] = "dispatch" \/ (l = Base /\ where[l] \in Establishing)
    /\ \A c \in activeChannels[l] \cap Conns : Created(c) /\ conn[c].loop = l
    /\ Acceptor \in activeChannels[l] => l = Base /\ backlog > 0

AcceptInv ==
  /\ nextConnectionId_ + backlog <= MaxConns
  /\ next_ < Len(Loops) \/ next_ = 0
  /\ where[Base] \in Establishing => nextConnectionId_ > 0
  /\ \A c \in Conns : ~Created(c) => c \notin connections_ /\ holder[c] = "none"

WhereInv ==
  /\ \A l \in PoolLoops : where[l] \notin Establishing \cup {"joining"}
  /\ where[Base] = "start" => \A l \in AllLoops : where[l] = "start"
  /\ \A l \in PoolLoops : quit_[l] \/ where[l] \in {"ended", "destroyed"} => Gone
  /\ where[Base] = "destroyed" => \A l \in AllLoops : where[l] = "destroyed"
  /\ Gone => connections_ = {}

ServerInv == TypeOK /\ QueuesInv /\ ActiveInv /\ AcceptInv /\ WhereInv

(* Where no thread holds a connection, and so nobody queues from outside.  *)
DeadInv ==
  /\ \A c \in Conns : holder[c] = "none"
  /\ \A l \in AllLoops : where[l] = "destroyed" => pendingFunctors_[l] = <<>>

-----------------------------------------------------------------------------
(* The loops. *)

LEMMA LoopFacts ==
  /\ Base \in AllLoops
  /\ PoolLoops \subseteq AllLoops
  /\ Base \notin PoolLoops
  /\ AllLoops = {Base} \cup PoolLoops
  /\ Len(Loops) \in Nat
  /\ \A i \in 1..Len(Loops) : Loops[i] \in PoolLoops
BY LoopsAssumption DEF AllLoops, PoolLoops

LEMMA DataTyped ==
  /\ <<>> \in Seq({"m"})
  /\ \A data \in Messages : data \in Seq({"m"}) /\ data # <<>>
  /\ \A data \in Messages \cup {<<>>} : data \in Seq({"m"})
<1>1. <<>> \in Seq({"m"}) /\ Len(<<>>) = 0
  OBVIOUS
<1>2. ASSUME NEW data \in Messages
      PROVE  data \in Seq({"m"}) /\ data # <<>>
  <2>1. data \in Seq({"m"}) /\ Len(data) >= 1
    BY MessagesAssumption, SendRoomAssumption
  <2> QED
    BY <1>1, <2>1
<1> QED
  BY <1>1, <1>2

(* What a state of the server has in its parts.                            *)
LEMMA StateParts ==
  ASSUME TypeOK
  PROVE  /\ conn \in [Conns -> Connections(AllLoops, {"m"})]
         /\ sock \in [Conns -> Sockets({"m"})]
         /\ connections_ \subseteq Conns
         /\ pendingFunctors_ \in [AllLoops -> Seq(Functors(Conns))]
         /\ failed \in BOOLEAN
BY DEF TypeOK, state, Servers

(* A functor that was in place stays there: no connection changes its loop. *)
LEMMA InPlaceKept ==
  ASSUME nextConnectionId_ \in Nat, nextConnectionId_' \in Nat,
         nextConnectionId_' >= nextConnectionId_,
         \A d \in Conns : Created(d) => conn'[d].loop = conn[d].loop,
         NEW f \in Functors(Conns), NEW l, InPlace(f, l)
  PROVE  InPlace(f, l)'
<1>1. f.conn \in Conns /\ f.conn \in Int
  BY BoundsAssumption DEF Functors, Conns
<1> QED
  BY <1>1 DEF InPlace, Created

(* What a handler or functor of c leaves.                                  *)
LEMMA WorkDone ==
  ASSUME TypeOK, QueuesInv, NEW c \in Conns, Created(c),
         NEW v, Works(Conns, AllLoops, {"m"}, state, v, c), Becomes(v),
         UNCHANGED nextConnectionId_
  PROVE  /\ state' \in Servers(Conns, AllLoops, {"m"})
         /\ \A d \in Conns : /\ conn'[d].loop = conn[d].loop
                             /\ sock'[d].inputs = sock[d].inputs
         /\ connections_' \in {connections_, connections_ \ {c}}
         /\ \A l \in AllLoops : \A i \in 1..Len(pendingFunctors_'[l]) :
               InPlace(pendingFunctors_[l][i], l)'
<1>1. /\ v \in Servers(Conns, AllLoops, {"m"})
      /\ Touches(Conns, AllLoops, state, v, c)
  BY DEF Works
<1>2. /\ conn' = v.conn /\ sock' = v.sock /\ connections_' = v.connections_
      /\ pendingFunctors_' = v.pendingFunctors_ /\ failed' = v.failed
  BY DEF Becomes
<1>3. /\ state.conn = conn /\ state.sock = sock /\ state.connections_ = connections_
      /\ state.pendingFunctors_ = pendingFunctors_
  BY DEF state
<1>4. state' \in Servers(Conns, AllLoops, {"m"})
  BY <1>1, <1>2 DEF state, Servers
<1>5. \A d \in Conns : /\ conn'[d].loop = conn[d].loop
                      /\ sock'[d].inputs = sock[d].inputs
  BY <1>1, <1>2, <1>3 DEF Touches, Alike
<1>6. connections_' \in {connections_, connections_ \ {c}}
  BY <1>1, <1>2, <1>3 DEF Touches
<1>7. ASSUME NEW l \in AllLoops, NEW i \in 1..Len(pendingFunctors_'[l])
      PROVE  InPlace(pendingFunctors_[l][i], l)'
  <2> DEFINE p == pendingFunctors_[l]
             q == v.pendingFunctors_[l]
             n == nextConnectionId_
  <2>1. Extends(p, q, l, conn[c].loop, c)
    BY <1>1, <1>3 DEF Touches
  <2>2. p \in Seq(Functors(Conns)) /\ q \in Seq(Functors(Conns)) /\ i \in 1..Len(q)
    BY <1>1, <1>2, StateParts DEF Servers
  <2>3. \A k \in 1..Len(p) : InPlace(p[k], l) /\ p[k] \in Functors(Conns)
    BY <2>2 DEF QueuesInv
  <2>4. n \in Nat /\ n' = n
    BY DEF TypeOK
  <2>5. InPlace(q[i], l)'
    <3> HIDE DEF p, q
    <3>1. CASE i \in 1..Len(p)
      <4>1. q[i] = p[i]
        BY <2>1, <3>1 DEF Extends
      <4>2. p[i].conn \in Conns
        BY <2>3, <3>1 DEF Functors
      <4> QED
        BY <1>5, <2>3, <2>4, <3>1, <4>1, <4>2 DEF InPlace, Created
    <3>2. CASE i > Len(p)
      BY <1>5, <2>1, <2>2, <2>4, <3>2 DEF InPlace, Created, Extends
    <3> QED
      BY <2>2, <3>1, <3>2
  <2> QED
    BY <1>2, <2>5
<1> QED
  BY <1>4, <1>5, <1>6, <1>7

-----------------------------------------------------------------------------
(* Each action keeps the invariant. *)

LEMMA InitHolds == Init => ServerInv
<1> SUFFICES ASSUME Init PROVE ServerInv
  OBVIOUS
<1> USE LoopFacts DEF Init
<1>1. TypeOK
  <2> DEFINE k == [NewConnection(Base, TRUE) EXCEPT !.state_ = "none"]
             s == NewSocket
             none == <<>>
  <2>1. k \in Connections(AllLoops, {"m"})
    BY NewTyped, StateTyped DEF State
  <2>2. s \in Sockets({"m"}) /\ s.inputs = 0
    BY NewTyped DEF NewSocket
  <2>3. none \in Seq(Functors(Conns)) /\ Len(none) = 0
    OBVIOUS
  <2> HIDE DEF k, s, none
  <2>4. state \in Servers(Conns, AllLoops, {"m"})
    BY <2>1, <2>2, <2>3 DEF state, Servers, k, s, none
  <2>5. \A c \in Conns : sock[c].inputs <= MaxInputs
    BY <2>2, BoundsAssumption DEF s
  <2>6. \A l \in AllLoops : toRun[l] = none /\ at[l] = 1
    BY DEF none
  <2>7. toRun \in [AllLoops -> Seq(Functors(Conns))]
    BY <2>3 DEF none
  <2> QED
    BY <2>3, <2>4, <2>5, <2>6, <2>7, BoundsAssumption DEF TypeOK, LoopPC
<1>2. QueuesInv
  BY DEF QueuesInv
<1>3. ActiveInv
  BY DEF ActiveInv
<1>4. AcceptInv
  BY BoundsAssumption DEF AcceptInv, Establishing
<1>5. WhereInv
  BY DEF WhereInv, Establishing, Gone
<1> QED
  BY <1>1, <1>2, <1>3, <1>4, <1>5 DEF ServerInv

(* A handler or functor of c, run by any thread.                           *)
LEMMA WorkKeeps ==
  ASSUME ServerInv, NEW c \in Conns, Created(c),
         NEW v, Works(Conns, AllLoops, {"m"}, state, v, c), Becomes(v),
         UNCHANGED <<acceptVars, quit_, where, toRun, calls>>,
         activeChannels' \in [AllLoops -> SUBSET (Conns \cup {Acceptor})],
         \A l \in AllLoops : activeChannels'[l] \subseteq activeChannels[l],
         at' \in [AllLoops -> Nat],
         \A l \in AllLoops : /\ at'[l] \in 1..(Len(toRun[l]) + 1)
                             /\ where[l] # "functors" => at'[l] = 1,
         holder' \in [Conns -> {"none", "idle", "send", "closeConnection"}],
         \A d \in Conns : ~Created(d) => holder'[d] = "none"
  PROVE  ServerInv'
<1> USE DEF ServerInv
<1>1. UNCHANGED nextConnectionId_
  BY DEF acceptVars
<1>2. /\ state' \in Servers(Conns, AllLoops, {"m"})
      /\ \A d \in Conns : /\ conn'[d].loop = conn[d].loop
                          /\ sock'[d].inputs = sock[d].inputs
      /\ connections_' \in {connections_, connections_ \ {c}}
      /\ \A l \in AllLoops : \A i \in 1..Len(pendingFunctors_'[l]) :
            InPlace(pendingFunctors_[l][i], l)'
  BY <1>1, WorkDone
<1>3. TypeOK'
  BY <1>2 DEF TypeOK, acceptVars
<1>4. \A l \in AllLoops : \A i \in 1..Len(toRun'[l]) : InPlace(toRun[l][i], l)'
  <2> SUFFICES ASSUME NEW l \in AllLoops, NEW i \in 1..Len(toRun[l])
               PROVE  InPlace(toRun[l][i], l)'
    OBVIOUS
  <2>1. toRun[l][i] \in Functors(Conns)
    BY DEF TypeOK
  <2>2. InPlace(toRun[l][i], l)
    BY DEF QueuesInv
  <2> DEFINE f == toRun[l][i]
  <2>3. f' = f
    OBVIOUS
  <2>4. nextConnectionId_ \in Nat /\ nextConnectionId_' \in Nat
        /\ nextConnectionId_' >= nextConnectionId_
    BY <1>1 DEF TypeOK
  <2>5. f.conn \in Conns /\ f.conn \in Int
    BY <2>1, BoundsAssumption DEF Functors, Conns
  <2> QED
    BY <1>1, <1>2, <2>2, <2>3, <2>4, <2>5 DEF InPlace, Created
<1>5. QueuesInv'
  BY <1>2, <1>4 DEF QueuesInv
<1>6. ActiveInv'
  BY <1>2 DEF ActiveInv, acceptVars, Created
<1>7. AcceptInv'
  BY <1>2 DEF AcceptInv, acceptVars, Created
<1>8. WhereInv'
  BY <1>2 DEF WhereInv, Gone
<1> QED
  BY <1>3, <1>5, <1>6, <1>7, <1>8

LEMMA HandleEventWork ==
  ASSUME ServerInv, NEW l \in AllLoops, NEW c \in Conns, HandleEvent(l, c), Held(c)
  PROVE  \E data \in Messages \cup {<<>>}, close \in BOOLEAN :
           LET v == HandleEventWithGuard(state, c, data, close)
           IN  Becomes(v) /\ Works(Conns, AllLoops, {"m"}, state, v, c)
<1>1. PICK data \in Messages \cup {<<>>}, close \in BOOLEAN :
        Becomes(HandleEventWithGuard(state, c, data, close))
  BY DEF HandleEvent
<1>2. data \in Seq({"m"})
  BY DataTyped
<1>3. Works(Conns, AllLoops, {"m"}, state, HandleEventWithGuard(state, c, data, close), c)
  BY <1>2, LoopFacts, HandleEventWorks DEF ServerInv, TypeOK
<1> QED
  BY <1>1, <1>3

LEMMA HandleEventKeeps ==
  ASSUME ServerInv, NEW l \in AllLoops, NEW c \in Conns, HandleEvent(l, c)
  PROVE  ServerInv'
<1>1. Created(c)
  BY DEF HandleEvent, ServerInv, ActiveInv
<1>2. /\ UNCHANGED <<acceptVars, quit_, where, toRun, calls>>
      /\ activeChannels' \in [AllLoops -> SUBSET (Conns \cup {Acceptor})]
      /\ \A m \in AllLoops : activeChannels'[m] \subseteq activeChannels[m]
      /\ UNCHANGED <<at, holder>>
  BY DEF HandleEvent, holderVars, ServerInv, TypeOK
<1>3. PICK v : Becomes(v) /\ Works(Conns, AllLoops, {"m"}, state, v, c)
  <2>1. CASE Held(c)
    BY <2>1, HandleEventWork
  <2>2. CASE ~Held(c)
    <3>1. Becomes(state)
      BY <2>2 DEF HandleEvent, Becomes, state, serverVars
    <3>2. Works(Conns, AllLoops, {"m"}, state, state, c)
      BY WorksReflexive DEF ServerInv, TypeOK
    <3> QED
      BY <3>1, <3>2
  <2> QED
    BY <2>1, <2>2
<1>4. /\ at' \in [AllLoops -> Nat]
      /\ \A m \in AllLoops : /\ at'[m] \in 1..(Len(toRun[m]) + 1)
                             /\ where[m] # "functors" => at'[m] = 1
      /\ holder' \in [Conns -> {"none", "idle", "send", "closeConnection"}]
      /\ \A d \in Conns : ~Created(d) => holder'[d] = "none"
  BY <1>2 DEF ServerInv, TypeOK, QueuesInv, AcceptInv
<1> QED
  BY <1>1, <1>2, <1>3, <1>4, WorkKeeps

(* The functor a loop takes next.                                          *)
LEMMA NextFunctor ==
  ASSUME ServerInv, NEW l \in AllLoops, RunNext(l)
  PROVE  LET f == toRun[l][at[l]]
         IN  /\ f \in Functors(Conns) /\ f.conn \in Conns /\ Created(f.conn)
             /\ InPlace(f, l)
             /\ at[l] \in 1..Len(toRun[l])
             /\ \E data \in Messages :
                  /\ Becomes(RunFunctor(state, f, data))
                  /\ Works(Conns, AllLoops, {"m"}, state, RunFunctor(state, f, data), f.conn)
<1> DEFINE f == toRun[l][at[l]]
<1>1. at[l] \in 1..Len(toRun[l]) /\ toRun[l] \in Seq(Functors(Conns))
  BY DEF RunNext, ServerInv, TypeOK
<1>2. f \in Functors(Conns)
  BY <1>1
<1>3. InPlace(f, l)
  BY <1>1 DEF ServerInv, QueuesInv
<1>4. PICK data \in Messages : Becomes(RunFunctor(state, f, data))
  BY DEF RunNext
<1> HIDE DEF f
<1>5. data \in Seq({"m"})
  BY DataTyped
<1>6. Works(Conns, AllLoops, {"m"}, state, RunFunctor(state, f, data), f.conn)
  BY <1>2, <1>5, LoopFacts, RunFunctorWorks DEF ServerInv, TypeOK
<1>7. f.conn \in Conns
  BY <1>2 DEF Functors
<1> QED
  BY <1>1, <1>2, <1>3, <1>4, <1>6, <1>7 DEF f, InPlace

LEMMA RunNextKeeps ==
  ASSUME ServerInv, NEW l \in AllLoops, RunNext(l)
  PROVE  ServerInv'
<1> DEFINE c == toRun[l][at[l]].conn
<1>1. PICK v : /\ Becomes(v) /\ Works(Conns, AllLoops, {"m"}, state, v, c)
               /\ c \in Conns /\ Created(c)
  BY NextFunctor
<1>2. /\ UNCHANGED <<acceptVars, quit_, where, toRun, calls, activeChannels, holder>>
      /\ at' = [at EXCEPT ![l] = @ + 1]
      /\ where[l] = "functors" /\ at[l] <= Len(toRun[l])
  BY DEF RunNext, holderVars
<1>3. /\ activeChannels' \in [AllLoops -> SUBSET (Conns \cup {Acceptor})]
      /\ \A m \in AllLoops : activeChannels'[m] \subseteq activeChannels[m]
      /\ holder' \in [Conns -> {"none", "idle", "send", "closeConnection"}]
      /\ \A d \in Conns : ~Created(d) => holder'[d] = "none"
  BY <1>2 DEF ServerInv, TypeOK, AcceptInv
<1>4. /\ at' \in [AllLoops -> Nat]
      /\ \A m \in AllLoops : /\ at'[m] \in 1..(Len(toRun[m]) + 1)
                             /\ where[m] # "functors" => at'[m] = 1
  <2>1. \A m \in AllLoops : Len(toRun[m]) \in Nat
    BY DEF ServerInv, TypeOK
  <2> QED
    BY <1>2, <2>1 DEF ServerInv, TypeOK, QueuesInv
<1> HIDE DEF c
<1> QED
  BY <1>1, <1>2, <1>3, <1>4, WorkKeeps

LEMMA EndCallWork ==
  ASSUME ServerInv, NEW c \in Conns, EndCall(c)
  PROVE  LET op == IF holder[c] = "send" THEN "sendInLoop" ELSE "closeConnectionInLoop"
             v  == QueueInLoop(state, conn[c].loop, op, c)
         IN  Becomes(v) /\ Works(Conns, AllLoops, {"m"}, state, v, c)
<1> DEFINE op == IF holder[c] = "send" THEN "sendInLoop" ELSE "closeConnectionInLoop"
           v == QueueInLoop(state, conn[c].loop, op, c)
<1>1. Becomes(v)
  BY DEF EndCall
<1>2. op \in Ops /\ op \notin Removals
  BY DEF Ops, Removals
<1>3. state \in Servers(Conns, AllLoops, {"m"}) /\ state.conn = conn
  BY DEF ServerInv, TypeOK, state
<1>4. conn[c].loop \in AllLoops
  BY StateParts DEF Connections, ServerInv
<1> HIDE DEF op
<1>5. Works(Conns, AllLoops, {"m"}, state, v, c)
  BY <1>2, <1>3, <1>4, QueueWorks
<1> QED
  BY <1>1, <1>5 DEF op

LEMMA EndCallKeeps ==
  ASSUME ServerInv, NEW c \in Conns, EndCall(c)
  PROVE  ServerInv'
<1>1. PICK v : Becomes(v) /\ Works(Conns, AllLoops, {"m"}, state, v, c)
  BY EndCallWork
<1>2. /\ UNCHANGED <<acceptVars, quit_, where, toRun, calls, activeChannels, at>>
      /\ holder' = [holder EXCEPT ![c] = "idle"] /\ holder[c] # "none"
  BY DEF EndCall, loopVars
<1>3. Created(c)
  BY <1>2 DEF ServerInv, AcceptInv
<1>4. /\ activeChannels' \in [AllLoops -> SUBSET (Conns \cup {Acceptor})]
      /\ \A m \in AllLoops : activeChannels'[m] \subseteq activeChannels[m]
      /\ holder' \in [Conns -> {"none", "idle", "send", "closeConnection"}]
      /\ \A d \in Conns : ~Created(d) => holder'[d] = "none"
      /\ at' \in [AllLoops -> Nat]
      /\ \A m \in AllLoops : /\ at'[m] \in 1..(Len(toRun[m]) + 1)
                             /\ where[m] # "functors" => at'[m] = 1
  BY <1>2, <1>3 DEF ServerInv, TypeOK, AcceptInv, QueuesInv
<1> QED
  BY <1>1, <1>2, <1>3, <1>4, WorkKeeps

LEMMA PollKeeps ==
  ASSUME ServerInv, NEW l \in AllLoops, Poll(l)
  PROVE  ServerInv'
<1> USE DEF Poll, ServerInv
<1>1. /\ \A c \in Conns : conn[c] \in Connections(AllLoops, {"m"})
      /\ state \in Servers(Conns, AllLoops, {"m"})
  BY StateParts DEF TypeOK
<1>2. ASSUME NEW c \in Conns
      PROVE  /\ conn'[c] \in Connections(AllLoops, {"m"})
             /\ conn'[c].loop = conn[c].loop
  <2> DEFINE k == conn[c]
             r == Ready(c)
  <2>1. r \in SUBSET (Event \cup {"hup"})
    BY <1>1 DEF Ready, Connections, Event
  <2>2. conn'[c] = k \/ conn'[c] = [k EXCEPT !.revents_ = r]
    OBVIOUS
  <2>3. k \in Connections(AllLoops, {"m"})
    BY <1>1
  <2> HIDE DEF r, k
  <2> QED
    BY <2>1, <2>2, <2>3 DEF Connections, k
<1>3. state' \in Servers(Conns, AllLoops, {"m"})
  BY <1>1, <1>2 DEF state, Servers
<1>4. Active(l) \subseteq Conns \cup {Acceptor}
  BY DEF Active
<1>5. TypeOK'
  BY <1>3, <1>4 DEF TypeOK, acceptVars, holderVars, LoopPC
<1>6. ASSUME NEW m \in AllLoops, NEW f \in Functors(Conns), InPlace(f, m)
      PROVE  InPlace(f, m)'
  BY <1>2, <1>6, InPlaceKept DEF acceptVars, TypeOK
<1>7. \A m \in AllLoops : /\ pendingFunctors_[m] \in Seq(Functors(Conns))
                          /\ toRun[m] \in Seq(Functors(Conns))
  BY StateParts DEF TypeOK
<1>8. QueuesInv'
  BY <1>6, <1>7 DEF QueuesInv, TypeOK
<1>9. ActiveInv'
  BY <1>2, AcceptorAssumption DEF ActiveInv, Active, acceptVars, Created, TypeOK
<1>10. AcceptInv'
  BY DEF AcceptInv, acceptVars, holderVars, Created, Establishing, TypeOK
<1>11. WhereInv'
  BY LoopFacts DEF WhereInv, Gone, Establishing, TypeOK
<1> QED
  BY <1>5, <1>8, <1>9, <1>10, <1>11

LEMMA DoPendingFunctorsKeeps ==
  ASSUME ServerInv, NEW l \in AllLoops, DoPendingFunctors(l)
  PROVE  ServerInv'
<1> USE DEF DoPendingFunctors, ServerInv
<1>1. \A m \in AllLoops : /\ pendingFunctors_[m] \in Seq(Functors(Conns))
                          /\ toRun[m] \in Seq(Functors(Conns))
  BY StateParts DEF TypeOK
<1>2. <<>> \in Seq(Functors(Conns)) /\ Len(<<>>) = 0
  OBVIOUS
<1>3. pendingFunctors_' \in [AllLoops -> Seq(Functors(Conns))]
  BY <1>2, StateParts
<1>4. state' \in Servers(Conns, AllLoops, {"m"})
  BY <1>3, StateParts DEF state, Servers
<1>5. at[l] = 1
  BY DEF QueuesInv
<1>6. \A m \in AllLoops : at[m] \in 1..(Len(toRun'[m]) + 1)
  BY <1>1, <1>5 DEF TypeOK
<1>7. TypeOK'
  BY <1>1, <1>4, <1>6 DEF TypeOK, acceptVars, holderVars, LoopPC
<1>8. QueuesInv'
  <2> SUFFICES ASSUME NEW m \in AllLoops
               PROVE  /\ toRun'[m] # <<>> => where'[m] = "functors"
                      /\ where'[m] # "functors" => at'[m] = 1
                      /\ \A i \in 1..Len(pendingFunctors_'[m]) :
                           InPlace(pendingFunctors_[m][i], m)'
                      /\ \A i \in 1..Len(toRun'[m]) : InPlace(toRun[m][i], m)'
    BY DEF QueuesInv
  <2>1. /\ pendingFunctors_'[m] = <<>> \/ pendingFunctors_'[m] = pendingFunctors_[m]
        /\ toRun'[m] = pendingFunctors_[m] \/ toRun'[m] = toRun[m]
    BY StateParts DEF TypeOK
  <2>2. \A i \in 1..Len(pendingFunctors_'[m]) : InPlace(pendingFunctors_[m][i], m)'
    BY <1>2, <2>1 DEF acceptVars, QueuesInv, InPlace, Created
  <2>3. \A i \in 1..Len(toRun'[m]) : InPlace(toRun[m][i], m)'
    BY <2>1 DEF acceptVars, QueuesInv, InPlace, Created
  <2>4. /\ toRun'[m] # <<>> => where'[m] = "functors"
        /\ where'[m] # "functors" => at'[m] = 1
    BY DEF QueuesInv, TypeOK
  <2> QED
    BY <2>2, <2>3, <2>4
<1>9. ActiveInv'
  BY LoopFacts DEF ActiveInv, acceptVars, Created, TypeOK
<1>10. AcceptInv'
  BY DEF AcceptInv, acceptVars, holderVars, Created, Establishing, TypeOK
<1>11. WhereInv'
  BY LoopFacts DEF WhereInv, Gone, Establishing, TypeOK
<1> QED
  BY <1>7, <1>8, <1>9, <1>10, <1>11

LEMMA FinishFunctorsKeeps ==
  ASSUME ServerInv, NEW l \in AllLoops, FinishFunctors(l)
  PROVE  ServerInv'
<1> USE DEF FinishFunctors, ServerInv, serverVars, acceptVars, holderVars
<1>1. <<>> \in Seq(Functors(Conns)) /\ Len(<<>>) = 0
  OBVIOUS
<1>2. \A m \in AllLoops : /\ toRun[m] \in Seq(Functors(Conns))
                          /\ toRun'[m] = <<>> \/ toRun'[m] = toRun[m]
  BY DEF TypeOK
<1>3. TypeOK'
  BY <1>1, <1>2 DEF TypeOK, LoopPC, state
<1>4. QueuesInv'
  BY <1>1, <1>2 DEF QueuesInv, InPlace, Created, TypeOK
<1>5. ActiveInv'
  BY LoopFacts DEF ActiveInv, Created, TypeOK, Establishing
<1>6. AcceptInv'
  BY DEF AcceptInv, Created, Establishing, TypeOK
<1>7. WhereInv'
  BY LoopFacts DEF WhereInv, Gone, Establishing, TypeOK
<1> QED
  BY <1>3, <1>4, <1>5, <1>6, <1>7

LEMMA DestroyLoopKeeps ==
  ASSUME ServerInv, NEW l \in AllLoops, DestroyLoop(l)
  PROVE  ServerInv'
<1> USE DEF DestroyLoop, ServerInv, acceptVars, holderVars
<1>1. <<>> \in Seq(Functors(Conns)) /\ Len(<<>>) = 0
  OBVIOUS
<1>2. /\ pendingFunctors_' \in [AllLoops -> Seq(Functors(Conns))]
      /\ \A m \in AllLoops :
           pendingFunctors_'[m] = <<>> \/ pendingFunctors_'[m] = pendingFunctors_[m]
  BY <1>1, StateParts
<1>3. state' \in Servers(Conns, AllLoops, {"m"})
  BY <1>2, StateParts DEF state, Servers
<1>4. TypeOK'
  BY <1>3 DEF TypeOK, LoopPC
<1>5. where[l] \in {"ended", "joining"}
  BY DEF MayDestroy
<1>6. QueuesInv'
  BY <1>1, <1>2, <1>5 DEF QueuesInv, InPlace, Created, TypeOK
<1>7. ActiveInv'
  BY <1>5, LoopFacts DEF ActiveInv, Created, TypeOK, Establishing
<1>8. AcceptInv'
  BY DEF AcceptInv, Created, Establishing, TypeOK
<1>9. WhereInv'
  <2>1. CASE l = Base
    <3>1. \A i \in 1..Len(Loops) : where[Loops[i]] = "destroyed"
      BY <2>1, LoopFacts DEF MayDestroy, Joined
    <3>2. \A m \in PoolLoops : where[m] = "destroyed"
      BY <3>1 DEF PoolLoops
    <3> QED
      BY <2>1, <3>2, LoopFacts DEF WhereInv, Gone, Establishing, TypeOK, MayDestroy
  <2>2. CASE l # Base
    BY <2>2, LoopFacts DEF WhereInv, Gone, Establishing, TypeOK, MayDestroy
  <2> QED
    BY <2>1, <2>2
<1> QED
  BY <1>4, <1>6, <1>7, <1>8, <1>9

(* getNextLoop gives one of the loops, and next_ stays an index of it.     *)
LEMMA NextLoopTyped ==
  ASSUME TypeOK, AcceptInv
  PROVE  /\ NextLoop \in AllLoops
         /\ AdvanceNext \in 0..Len(Loops)
         /\ AdvanceNext < Len(Loops) \/ AdvanceNext = 0
<1>1. next_ \in Nat /\ (next_ < Len(Loops) \/ next_ = 0)
  BY DEF TypeOK, AcceptInv
<1>2. Loops = <<>> <=> Len(Loops) = 0
  BY LoopsAssumption
<1>3. Loops # <<>> => next_ + 1 \in 1..Len(Loops)
  BY <1>1, <1>2, LoopFacts
<1> QED
  BY <1>1, <1>3, LoopFacts DEF NextLoop, AdvanceNext

LEMMA NewConnetionKeeps ==
  ASSUME ServerInv, NewConnetion
  PROVE  ServerInv'
<1> USE DEF NewConnetion, ServerInv, holderVars
<1> DEFINE n == nextConnectionId_
<1>1. /\ backlog > 0 /\ backlog \in Nat /\ n \in Nat
      /\ n + backlog <= MaxConns
  BY LoopFacts DEF ActiveInv, AcceptInv, TypeOK
<1>2. /\ n \in Conns /\ ~Created(n)
      /\ \A d \in Conns : Created(d)' <=> Created(d) \/ d = n
  BY <1>1, BoundsAssumption DEF Conns, Created
<1>3. PICK open \in BOOLEAN : /\ AcceptConnection(open, backlog')
                              /\ conn' = [conn EXCEPT ![n] = NewConnection(NextLoop, open)]
  OBVIOUS
<1>4. backlog' \in {backlog, backlog - 1} /\ n + 1 + backlog' <= MaxConns
  BY <1>1, <1>3, BoundsAssumption DEF AcceptConnection
<1> DEFINE k == NewConnection(NextLoop, open)
<1>5. k \in Connections(AllLoops, {"m"})
  BY NewTyped, NextLoopTyped
<1> HIDE DEF k
<1>6. /\ conn' \in [Conns -> Connections(AllLoops, {"m"})]
      /\ \A d \in Conns : d # n => conn'[d] = conn[d]
  BY <1>2, <1>3, <1>5, StateParts DEF k
<1>7. connections_' \subseteq Conns
  BY <1>2, StateParts
<1>8. state' \in Servers(Conns, AllLoops, {"m"})
  BY <1>6, <1>7, StateParts DEF state, Servers
<1>9. TypeOK'
  <2>1. /\ nextConnectionId_' \in 0..MaxConns
        /\ backlog' \in 0..MaxConns
        /\ next_' \in 0..Len(Loops)
    BY <1>1, <1>4, NextLoopTyped, BoundsAssumption
  <2>2. /\ where' \in [AllLoops -> LoopPC]
        /\ activeChannels' \in [AllLoops -> SUBSET (Conns \cup {Acceptor})]
    BY DEF TypeOK, LoopPC, Establishing
  <2> QED
    BY <1>8, <2>1, <2>2 DEF TypeOK
<1>10. QueuesInv'
  <2>1. ASSUME NEW m \in AllLoops, NEW f \in Functors(Conns), InPlace(f, m)
        PROVE  InPlace(f, m)'
    <3>1. \A d \in Conns : Created(d) => conn'[d].loop = conn[d].loop
      BY <1>2, <1>6
    <3> QED
      BY <1>1, <2>1, <3>1, InPlaceKept
  <2>2. \A m \in AllLoops : /\ pendingFunctors_[m] \in Seq(Functors(Conns))
                            /\ toRun[m] \in Seq(Functors(Conns))
    BY StateParts DEF TypeOK
  <2>3. \A m \in AllLoops : /\ toRun'[m] # <<>> => where'[m] = "functors"
                            /\ where'[m] # "functors" => at'[m] = 1
    BY LoopFacts DEF QueuesInv, TypeOK
  <2>4. ASSUME NEW m \in AllLoops
        PROVE  /\ \A i \in 1..Len(pendingFunctors_[m]) : InPlace(pendingFunctors_[m][i], m)'
               /\ \A i \in 1..Len(toRun[m]) : InPlace(toRun[m][i], m)'
    <3>1. /\ \A i \in 1..Len(pendingFunctors_[m]) :
               pendingFunctors_[m][i] \in Functors(Conns) /\ InPlace(pendingFunctors_[m][i], m)
          /\ \A i \in 1..Len(toRun[m]) :
               toRun[m][i] \in Functors(Conns) /\ InPlace(toRun[m][i], m)
      BY <2>2 DEF QueuesInv
    <3>2. UNCHANGED <<pendingFunctors_, toRun>>
      OBVIOUS
    <3> QED
      BY <2>1, <3>1, <3>2
  <2>5. UNCHANGED <<pendingFunctors_, toRun>>
    OBVIOUS
  <2> QED
    BY <2>3, <2>4, <2>5 DEF QueuesInv
<1>11. ActiveInv'
  BY <1>1, <1>2, <1>6, AcceptorAssumption, LoopFacts DEF ActiveInv, TypeOK, Establishing
<1>12. AcceptInv'
  <2>1. nextConnectionId_' + backlog' <= MaxConns /\ nextConnectionId_' > 0
    BY <1>1, <1>4
  <2>2. next_' < Len(Loops) \/ next_' = 0
    BY NextLoopTyped DEF AcceptInv
  <2>3. \A d \in Conns : ~Created(d)' => d \notin connections_' /\ holder'[d] = "none"
    BY <1>2 DEF AcceptInv
  <2> QED
    BY <2>1, <2>2, <2>3 DEF AcceptInv
<1>13. WhereInv'
  BY LoopFacts DEF WhereInv, Gone, Establishing, TypeOK
<1> QED
  BY <1>9, <1>10, <1>11, <1>12, <1>13

(* A step of connectionEstablish.                                          *)
LEMMA EstablishKeeps ==
  ASSUME ServerInv, NEW stage \in Establishing, NEW next \in Establishing \cup {"dispatch"},
         NEW k \in Connections(AllLoops, {"m"}), Alike(k, conn[Newest]) \/ k.loop = conn[Newest].loop,
         Establish(stage, next, k),
         holder' \in [Conns -> {"none", "idle", "send", "closeConnection"}],
         \A c \in Conns \ {Newest} : holder'[c] = holder[c]
  PROVE  ServerInv'
<1> USE DEF Establish, ServerInv, acceptVars
<1>1. Newest \in Conns /\ Created(Newest)
  BY BoundsAssumption DEF AcceptInv, TypeOK, Newest, Conns, Created
<1>2. /\ conn' \in [Conns -> Connections(AllLoops, {"m"})]
      /\ \A d \in Conns : conn'[d].loop = conn[d].loop
  BY <1>1, StateParts DEF Alike
<1>3. state' \in Servers(Conns, AllLoops, {"m"})
  BY <1>2, StateParts DEF state, Servers
<1>4. TypeOK'
  BY <1>3 DEF TypeOK, LoopPC, Establishing
<1>5. QueuesInv'
  <2>1. ASSUME NEW m \in AllLoops, NEW f \in Functors(Conns), InPlace(f, m)
        PROVE  InPlace(f, m)'
    BY <1>2, <2>1, InPlaceKept DEF TypeOK
  <2>2. \A m \in AllLoops : /\ pendingFunctors_[m] \in Seq(Functors(Conns))
                            /\ toRun[m] \in Seq(Functors(Conns))
    BY StateParts DEF TypeOK
  <2> QED
    BY <2>1, <2>2 DEF QueuesInv, TypeOK, Establishing
<1>6. ActiveInv'
  BY <1>2, LoopFacts DEF ActiveInv, TypeOK, Establishing, Created
<1>7. AcceptInv'
  BY <1>1, <1>2 DEF AcceptInv, TypeOK, Establishing, Created
<1>8. WhereInv'
  BY LoopFacts DEF WhereInv, Gone, Establishing, TypeOK
<1> QED
  BY <1>4, <1>5, <1>6, <1>7, <1>8

LEMMA EnableReadingTyped ==
  ASSUME NEW L, NEW B, NEW k \in Connections(L, B)
  PROVE  LET j == EpollAdd([k EXCEPT !.events_ = @ \cup {"in"}])
         IN  j \in Connections(L, B) /\ j.loop = k.loop
BY DEF Connections, EpollAdd, Event

LEMMA EstablishingKeeps ==
  ASSUME ServerInv, EnableReading \/ SetIndex \/ SetConnected \/ ConnectionCallback
  PROVE  ServerInv'
<1> DEFINE n == Newest
           k == conn[n]
<1>1. CASE where[Base] \notin Establishing
  BY <1>1 DEF EnableReading, SetIndex, SetConnected, ConnectionCallback, Establish, Establishing
<1>2. CASE where[Base] \in Establishing
  <2>1. n \in Conns
    BY <1>2, BoundsAssumption DEF ServerInv, AcceptInv, TypeOK, Newest, Conns
  <2>2. k \in Connections(AllLoops, {"m"})
    BY <2>1, StateParts DEF ServerInv
  <2>3. holder \in [Conns -> {"none", "idle", "send", "closeConnection"}]
    BY DEF ServerInv, TypeOK
  <2> HIDE DEF n, k
  <2>4. CASE EnableReading
    <3> DEFINE j == EpollAdd([k EXCEPT !.events_ = @ \cup {"in"}])
    <3>1. j \in Connections(AllLoops, {"m"}) /\ j.loop = k.loop
      BY <2>2, EnableReadingTyped
    <3>2. Establish("enableReading", "set_index", j) /\ UNCHANGED holder
      BY <2>4 DEF EnableReading, k, n
    <3> HIDE DEF j
    <3> QED
      BY <2>3, <3>1, <3>2, EstablishKeeps DEF Establishing, k, n
  <2>5. CASE SetIndex
    <3> DEFINE j == [k EXCEPT !.index_ = "kAdded"]
    <3>1. j \in Connections(AllLoops, {"m"}) /\ j.loop = k.loop
      BY <2>2 DEF Connections
    <3>2. Establish("set_index", "kConnected", j) /\ UNCHANGED holder
      BY <2>5 DEF SetIndex, k, n
    <3> HIDE DEF j
    <3> QED
      BY <2>3, <3>1, <3>2, EstablishKeeps DEF Establishing, k, n
  <2>6. CASE SetConnected
    <3> DEFINE j == [k EXCEPT !.state_ = "kConnected"]
    <3>1. j \in Connections(AllLoops, {"m"}) /\ j.loop = k.loop
      BY <2>2 DEF Connections, State
    <3>2. Establish("kConnected", "connectionCallback_", j) /\ UNCHANGED holder
      BY <2>6 DEF SetConnected, k, n
    <3> HIDE DEF j
    <3> QED
      BY <2>3, <3>1, <3>2, EstablishKeeps DEF Establishing, k, n
  <2>7. CASE ConnectionCallback
    <3> DEFINE j == [k EXCEPT !.context_ = @ \/ k.state_ = "kConnected"]
    <3>1. j \in Connections(AllLoops, {"m"}) /\ j.loop = k.loop
      BY <2>2 DEF Connections
    <3>2. /\ Establish("connectionCallback_", "dispatch", j)
          /\ holder' = holder \/ holder' = [holder EXCEPT ![n] = "idle"]
      BY <2>7 DEF ConnectionCallback, k, n
    <3>3. /\ holder' \in [Conns -> {"none", "idle", "send", "closeConnection"}]
          /\ \A c \in Conns \ {n} : holder'[c] = holder[c]
      BY <2>3, <3>2
    <3> HIDE DEF j
    <3> QED
      BY <3>1, <3>2, <3>3, EstablishKeeps DEF Establishing, k, n
  <2> QED
    BY <2>4, <2>5, <2>6, <2>7
<1> QED
  BY <1>1, <1>2

LEMMA StartKeeps ==
  ASSUME ServerInv, Start
  PROVE  ServerInv'
<1> USE DEF Start, ServerInv, serverVars, acceptVars, holderVars
<1>1. TypeOK'
  BY DEF TypeOK, LoopPC, state
<1>2. QueuesInv'
  BY LoopFacts DEF QueuesInv, InPlace, Created, WhereInv
<1>3. ActiveInv'
  BY LoopFacts DEF ActiveInv, Created, WhereInv, Establishing
<1>4. AcceptInv'
  BY LoopFacts DEF AcceptInv, Created, Establishing
<1>5. WhereInv'
  BY LoopFacts DEF WhereInv, Gone, Establishing
<1> QED
  BY <1>1, <1>2, <1>3, <1>4, <1>5

LEMMA StopKeeps ==
  ASSUME ServerInv, StopBase \/ \E i \in 1..Len(Loops) : StopPoolLoop(i)
  PROVE  ServerInv'
<1> USE DEF StopLoop, ServerInv, serverVars, acceptVars, holderVars
<1>1. PICK l \in AllLoops : /\ StopLoop(l)
                            /\ l \in PoolLoops => where[Base] = "joining"
  BY LoopFacts DEF StopBase, StopPoolLoop
<1>2. TypeOK'
  BY <1>1 DEF TypeOK, state
<1>3. QueuesInv'
  BY <1>1 DEF QueuesInv, InPlace, Created
<1>4. ActiveInv'
  BY <1>1 DEF ActiveInv, Created
<1>5. AcceptInv'
  BY <1>1 DEF AcceptInv, Created
<1>6. WhereInv'
  BY <1>1, LoopFacts DEF WhereInv, Gone, TypeOK
<1> QED
  BY <1>2, <1>3, <1>4, <1>5, <1>6

LEMMA DestroyServerKeeps ==
  ASSUME ServerInv, DestroyServer
  PROVE  ServerInv'
<1> USE DEF DestroyServer, ServerInv, acceptVars, holderVars
<1>1. state' \in Servers(Conns, AllLoops, {"m"})
  BY StateParts DEF state, Servers
<1>2. TypeOK'
  BY <1>1 DEF TypeOK, LoopPC
<1>3. QueuesInv'
  BY DEF QueuesInv, InPlace, Created, TypeOK
<1>4. ActiveInv'
  BY DEF ActiveInv, Created, TypeOK, Establishing
<1>5. AcceptInv'
  BY LoopFacts DEF AcceptInv, Created, TypeOK, Establishing
<1>6. WhereInv'
  BY LoopFacts DEF WhereInv, Gone, TypeOK, Establishing
<1> QED
  BY <1>2, <1>3, <1>4, <1>5, <1>6

LEMMA HolderKeeps ==
  ASSUME ServerInv, NEW c \in Conns,
         (\E call \in {"send", "closeConnection"} : BeginCall(c, call)) \/ Drop(c)
  PROVE  ServerInv'
<1> USE DEF BeginCall, Drop, ServerInv, serverVars, acceptVars, loopVars
<1>1. TypeOK'
  <2>1. /\ calls' \in [Conns -> 0..MaxCalls]
        /\ holder' \in [Conns -> {"none", "idle", "send", "closeConnection"}]
    <3>1. calls[c] \in Nat /\ calls[c] <= MaxCalls
      BY BoundsAssumption DEF TypeOK
    <3>2. calls[c] < MaxCalls => calls[c] + 1 \in 0..MaxCalls
      BY <3>1, BoundsAssumption
    <3>3. /\ calls' = calls \/ (calls[c] < MaxCalls /\ calls' = [calls EXCEPT ![c] = @ + 1])
          /\ \E h \in {"none", "send", "closeConnection"} : holder' = [holder EXCEPT ![c] = h]
      OBVIOUS
    <3> QED
      BY <3>2, <3>3 DEF TypeOK
  <2>2. UNCHANGED <<state, nextConnectionId_, next_, backlog, quit_, where, activeChannels,
                    toRun, at, sock>>
    BY DEF state
  <2> QED
    BY <2>1, <2>2 DEF TypeOK
<1>2. QueuesInv'
  BY DEF QueuesInv, InPlace, Created
<1>3. ActiveInv'
  BY DEF ActiveInv, Created
<1>4. AcceptInv'
  BY DEF AcceptInv, Created, TypeOK
<1>5. WhereInv'
  BY DEF WhereInv, Gone
<1> QED
  BY <1>1, <1>2, <1>3, <1>4, <1>5

LEMMA PeerConnectsKeeps ==
  ASSUME ServerInv, PeerConnects
  PROVE  ServerInv'
<1> USE DEF PeerConnects, ServerInv, serverVars, loopVars, holderVars
<1>1. backlog' \in 0..MaxConns
  BY BoundsAssumption DEF TypeOK
<1>2. QueuesInv'
  BY DEF QueuesInv, InPlace, Created
<1>3. ActiveInv'
  BY DEF ActiveInv, Created, TypeOK
<1>4. TypeOK'
  BY <1>1 DEF TypeOK, state
<1>5. AcceptInv'
  BY BoundsAssumption DEF AcceptInv, Created, TypeOK
<1>6. WhereInv'
  BY DEF WhereInv, Gone
<1> QED
  BY <1>2, <1>3, <1>4, <1>5, <1>6

LEMMA PeerKeeps ==
  ASSUME ServerInv, NEW c \in Conns, PeerStep(c)
  PROVE  ServerInv'
<1> USE DEF ServerInv
<1> DEFINE t == sock[c]
<1>1. t \in Sockets({"m"}) /\ t.inputs <= MaxInputs
  BY StateParts DEF TypeOK
<1>2. PICK s : /\ PeerActs(c, s)
               /\ s \in Sockets({"m"}) /\ s.inputs <= MaxInputs
  <2>1. CASE PeerSends(c)
    <3> DEFINE n == t.inputs + 1
               s == [t EXCEPT !.unread = TRUE, !.inputs = n]
    <3>1. PeerActs(c, s) /\ t.inputs < MaxInputs
      BY <2>1 DEF PeerSends
    <3>2. n \in Nat /\ n <= MaxInputs
      <4>1. t.inputs \in Nat
        BY <1>1 DEF Sockets
      <4> HIDE DEF t
      <4> QED
        BY <3>1, <4>1, BoundsAssumption
    <3> HIDE DEF t, n
    <3>3. s \in Sockets({"m"}) /\ s.inputs = n
      BY <1>1, <3>2 DEF Sockets
    <3> QED
      BY <3>1, <3>2, <3>3
  <2>2. CASE PeerCloses(c)
    <3> DEFINE s == [t EXCEPT !.fin = TRUE]
    <3>1. PeerActs(c, s)
      BY <2>2 DEF PeerCloses
    <3> HIDE DEF t
    <3>2. s \in Sockets({"m"}) /\ s.inputs = t.inputs
      BY <1>1 DEF Sockets
    <3> QED
      BY <1>1, <3>1, <3>2
  <2>3. CASE PeerResets(c)
    <3> DEFINE s == [t EXCEPT !.rst = TRUE]
    <3>1. PeerActs(c, s)
      BY <2>3 DEF PeerResets
    <3> HIDE DEF t
    <3>2. s \in Sockets({"m"}) /\ s.inputs = t.inputs
      BY <1>1 DEF Sockets
    <3> QED
      BY <1>1, <3>1, <3>2
  <2>4. CASE PeerReads(c)
    <3> DEFINE s == [t EXCEPT !.sending = <<>>]
    <3>1. PeerActs(c, s)
      BY <2>4 DEF PeerReads
    <3>2. <<>> \in Seq(OrNul({"m"})) /\ Len(<<>>) <= SendRoom
      BY SendRoomAssumption
    <3> HIDE DEF t
    <3>3. s \in Sockets({"m"}) /\ s.inputs = t.inputs
      BY <1>1, <3>2 DEF Sockets
    <3> QED
      BY <1>1, <3>1, <3>3
  <2> QED
    BY <2>1, <2>2, <2>3, <2>4 DEF PeerStep
<1> USE DEF PeerActs, acceptVars, loopVars, holderVars
<1>3. sock' \in [Conns -> Sockets({"m"})] /\ \A d \in Conns : sock'[d].inputs <= MaxInputs
  BY <1>2, StateParts DEF TypeOK
<1>4. state' \in Servers(Conns, AllLoops, {"m"})
  BY <1>2, <1>3, StateParts DEF state, Servers
<1>5. TypeOK'
  BY <1>2, <1>3, <1>4 DEF TypeOK
<1>6. QueuesInv'
  BY <1>2 DEF QueuesInv, InPlace, Created
<1>7. ActiveInv'
  BY <1>2 DEF ActiveInv, Created
<1>8. AcceptInv'
  BY <1>2 DEF AcceptInv, Created
<1>9. WhereInv'
  BY <1>2 DEF WhereInv, Gone
<1> QED
  BY <1>5, <1>6, <1>7, <1>8, <1>9

LEMMA StutterKeeps ==
  ASSUME ServerInv, UNCHANGED vars
  PROVE  ServerInv'
BY DEF ServerInv, vars, serverVars, acceptVars, loopVars, holderVars, TypeOK, state,
       QueuesInv, InPlace, Created, ActiveInv, AcceptInv, WhereInv, Gone

LEMMA StepKeeps ==
  ASSUME ServerInv, [Next]_vars
  PROVE  ServerInv'
<1>1. ASSUME NEW l \in AllLoops, LoopStep(l)
      PROVE  ServerInv'
  BY <1>1, PollKeeps, HandleEventKeeps, DoPendingFunctorsKeeps, RunNextKeeps,
     FinishFunctorsKeeps, DestroyLoopKeeps DEF LoopStep
<1>2. ASSUME BaseStep
      PROVE  ServerInv'
  BY <1>2, StartKeeps, NewConnetionKeeps, EstablishingKeeps, DestroyServerKeeps, StopKeeps
  DEF BaseStep
<1>3. ASSUME NEW c \in Conns, HolderStep(c) \/ PeerStep(c)
      PROVE  ServerInv'
  BY <1>3, HolderKeeps, EndCallKeeps, PeerKeeps DEF HolderStep
<1> QED
  BY <1>1, <1>2, <1>3, StopKeeps, PeerConnectsKeeps, StutterKeeps DEF Next

(* The inductive invariant of the server, under every fault.               *)
THEOREM ServerInvariant == Spec => []ServerInv
<1>1. Init => ServerInv
  BY InitHolds
<1>2. ServerInv /\ [Next]_vars => ServerInv'
  BY StepKeeps
<1> QED
  BY <1>1, <1>2, PTL DEF Spec

(* Every variable keeps its type: no index runs out of toRun, no accepted  *)
(* connection out of the bound, no functor names a connection not made.    *)
THEOREM TypeCorrect == Spec => []TypeOK
<1>1. ServerInv => TypeOK
  BY DEF ServerInv
<1> QED
  BY <1>1, ServerInvariant, PTL

-----------------------------------------------------------------------------
(* Who is left when.  A thread of the program that holds a connection may  *)
(* keep it as long as it likes and queue work for it: no promise covers    *)
(* that, and what follows is for programs without one.                     *)

(* A loop that runs a handler of its connection, or the base loop any,     *)
(* hands work to loops that live.                                          *)
LEMMA WorkForLiveLoops ==
  ASSUME ServerInv, NEW l \in AllLoops, where[l] \in {"dispatch", "functors"},
         NEW c \in Conns, l \in {Base, conn[c].loop},
         NEW v, Works(Conns, AllLoops, {"m"}, state, v, c), Becomes(v),
         NEW m \in AllLoops, Len(pendingFunctors_'[m]) > Len(pendingFunctors_[m])
  PROVE  where[m] # "destroyed"
<1> DEFINE p == pendingFunctors_[m]
           q == v.pendingFunctors_[m]
<1>1. Extends(p, q, m, conn[c].loop, c)
  BY DEF Works, Touches, state
<1>2. Len(p) \in Nat /\ Len(q) \in Nat /\ pendingFunctors_' = v.pendingFunctors_
  BY StateParts DEF ServerInv, Works, Servers, Becomes
<1>3. m \in {Base, conn[c].loop}
  <2>1. Len(q) \in 1..Len(q) /\ Len(q) > Len(p)
    BY <1>2
  <2> QED
    BY <1>1, <2>1 DEF Extends
<1>4. where[Base] # "destroyed"
  BY DEF ServerInv, WhereInv
<1>5. CASE l = Base
  BY <1>4, <1>5, LoopFacts DEF ServerInv, WhereInv, Gone
<1>6. CASE l # Base
  BY <1>3, <1>4, <1>6
<1> QED
  BY <1>5, <1>6

LEMMA QueuesGrow ==
  ASSUME ServerInv, DeadInv, [Next]_vars,
         NEW m \in AllLoops, Len(pendingFunctors_'[m]) > Len(pendingFunctors_[m])
  PROVE  where[m] # "destroyed"
<1>1. Len(pendingFunctors_[m]) \in Nat
  BY StateParts DEF ServerInv
<1>2. pendingFunctors_' # pendingFunctors_
  BY <1>1
<1>3. ASSUME NEW l \in AllLoops, LoopStep(l)
      PROVE  where[m] # "destroyed"
  <2>1. CASE \E c \in Conns : HandleEvent(l, c)
    <3>1. PICK c \in Conns : HandleEvent(l, c)
      BY <2>1
    <3>2. Held(c)
      BY <1>2, <3>1 DEF HandleEvent, serverVars
    <3>3. PICK v : Becomes(v) /\ Works(Conns, AllLoops, {"m"}, state, v, c)
      BY <3>1, <3>2, HandleEventWork
    <3>4. where[l] = "dispatch" /\ l = conn[c].loop
      BY <3>1 DEF HandleEvent, ServerInv, ActiveInv
    <3> QED
      BY <3>3, <3>4, WorkForLiveLoops
  <2>2. CASE RunNext(l)
    <3> DEFINE f == toRun[l][at[l]]
               c == f.conn
    <3>1. PICK v : /\ Becomes(v) /\ Works(Conns, AllLoops, {"m"}, state, v, c)
                   /\ c \in Conns /\ InPlace(f, l)
      BY <2>2, NextFunctor
    <3>2. where[l] = "functors" /\ l \in {Base, conn[c].loop}
      BY <2>2, <3>1 DEF RunNext, InPlace
    <3> HIDE DEF c
    <3> QED
      BY <3>1, <3>2, WorkForLiveLoops
  <2>3. CASE DoPendingFunctors(l) \/ DestroyLoop(l)
    <3>1. Len(<<>>) = 0
      OBVIOUS
    <3>2. m = l => pendingFunctors_'[m] = <<>>
      BY <2>3, StateParts DEF DoPendingFunctors, DestroyLoop, ServerInv
    <3>3. m # l => pendingFunctors_'[m] = pendingFunctors_[m]
      BY <2>3, StateParts DEF DoPendingFunctors, DestroyLoop, ServerInv
    <3> QED
      BY <1>1, <3>1, <3>2, <3>3
  <2>4. CASE Poll(l) \/ FinishFunctors(l)
    BY <1>2, <2>4 DEF Poll, FinishFunctors, serverVars
  <2> QED
    BY <1>3, <2>1, <2>2, <2>3, <2>4 DEF LoopStep
<1>4. ~BaseStep
  BY <1>2 DEF BaseStep, Start, NewConnetion, EnableReading, SetIndex, SetConnected,
              ConnectionCallback, Establish, DestroyServer, StopPoolLoop, StopLoop, serverVars
<1>5. ~StopBase /\ ~PeerConnects
  BY <1>2 DEF StopBase, StopLoop, PeerConnects, serverVars
<1>6. \A c \in Conns : ~HolderStep(c) /\ ~PeerStep(c)
  BY <1>2 DEF HolderStep, BeginCall, EndCall, Drop, DeadInv, PeerStep, PeerSends, PeerCloses,
              PeerResets, PeerReads, PeerActs, serverVars
<1>7. ~UNCHANGED vars
  BY <1>2 DEF vars, serverVars
<1> QED
  BY <1>3, <1>4, <1>5, <1>6, <1>7 DEF Next

LEMMA DeadStepKeeps ==
  ASSUME MaxCalls = 0, ServerInv, DeadInv, [Next]_vars
  PROVE  DeadInv'
<1>1. \A c \in Conns : holder'[c] = "none"
  <2>1. UNCHANGED holder
    <3>1. ASSUME NEW l \in AllLoops, LoopStep(l)
          PROVE  UNCHANGED holder
      BY <3>1 DEF LoopStep, Poll, HandleEvent, DoPendingFunctors, RunNext, FinishFunctors,
                  DestroyLoop, holderVars
    <3>2. ASSUME BaseStep
          PROVE  UNCHANGED holder
      BY <3>2 DEF BaseStep, Start, NewConnetion, EnableReading, SetIndex, SetConnected,
                  ConnectionCallback, DestroyServer, StopPoolLoop, StopLoop, holderVars
    <3>3. ASSUME NEW c \in Conns, HolderStep(c) \/ PeerStep(c)
          PROVE  UNCHANGED holder
      BY <3>3 DEF HolderStep, BeginCall, EndCall, Drop, DeadInv, PeerStep, PeerSends,
                  PeerCloses, PeerResets, PeerReads, PeerActs, holderVars
    <3>4. ASSUME StopBase \/ PeerConnects \/ UNCHANGED vars
          PROVE  UNCHANGED holder
      BY <3>4 DEF StopBase, StopLoop, PeerConnects, vars, holderVars
    <3> QED
      BY <3>1, <3>2, <3>3, <3>4 DEF Next
  <2> QED
    BY <2>1 DEF DeadInv
<1>2. ASSUME NEW m \in AllLoops, where'[m] = "destroyed"
      PROVE  pendingFunctors_'[m] = <<>>
  <2>1. CASE where[m] = "destroyed"
    <3>1. pendingFunctors_[m] = <<>> /\ Len(<<>>) = 0
      BY <2>1 DEF DeadInv
    <3>2. pendingFunctors_'[m] \in Seq(Functors(Conns))
      BY StepKeeps, StateParts DEF ServerInv, TypeOK, state, Servers
    <3>3. ~(Len(pendingFunctors_'[m]) > 0)
      BY <2>1, <3>1, QueuesGrow
    <3> QED
      BY <3>2, <3>3
  <2>2. CASE where[m] # "destroyed"
    <3>1. DestroyLoop(m)
      <4>1. ASSUME NEW l \in AllLoops, LoopStep(l)
            PROVE  DestroyLoop(m)
        BY <1>2, <2>2, <4>1 DEF LoopStep, Poll, HandleEvent, DoPendingFunctors, RunNext,
                                FinishFunctors, DestroyLoop, ServerInv, TypeOK
      <4>2. ~BaseStep
        BY <1>2, <2>2, LoopFacts
        DEF BaseStep, Start, NewConnetion, EnableReading, SetIndex, SetConnected,
            ConnectionCallback, Establish, DestroyServer, StopPoolLoop, StopLoop,
            ServerInv, TypeOK
      <4>3. \A c \in Conns : ~HolderStep(c) /\ ~PeerStep(c)
        BY <1>2, <2>2 DEF HolderStep, BeginCall, EndCall, Drop, PeerStep, PeerSends,
                          PeerCloses, PeerResets, PeerReads, PeerActs, loopVars
      <4>4. ~StopBase /\ ~PeerConnects /\ ~UNCHANGED vars
        BY <1>2, <2>2 DEF StopBase, StopLoop, PeerConnects, vars, loopVars
      <4> QED
        BY <4>1, <4>2, <4>3, <4>4 DEF Next
    <3> QED
      BY <3>1, StateParts DEF DestroyLoop, ServerInv
  <2> QED
    BY <2>1, <2>2
<1> QED
  BY <1>1, <1>2 DEF DeadInv

(* With no thread holding connections, the queue of a dead loop is empty.  *)
THEOREM DeadInvariant ==
  ASSUME MaxCalls = 0
  PROVE  Spec => [](ServerInv /\ DeadInv)
<1>1. Init => ServerInv /\ DeadInv
  BY InitHolds DEF DeadInv, Init
<1>2. (ServerInv /\ DeadInv) /\ [Next]_vars => (ServerInv /\ DeadInv)'
  BY StepKeeps, DeadStepKeeps
<1> QED
  BY <1>1, <1>2, PTL DEF Spec

(* When the base loop is gone every connection is freed, however the       *)
(* server was stopped and whatever accept and the peers had done: those of *)
(* the map, of functors never run, and those without a descriptor          *)
(* (~TcpServer, ~EventLoop).                                               *)
THEOREM NothingIsLeaked ==
  ASSUME MaxCalls = 0
  PROVE  Spec => []NothingLeaks
<1>1. ServerInv /\ DeadInv => NothingLeaks
  <2> SUFFICES ASSUME ServerInv, DeadInv, where[Base] = "destroyed", NEW c \in Conns
               PROVE  ~Held(c)
    BY DEF NothingLeaks
  <2>1. \A l \in AllLoops : where[l] = "destroyed" /\ pendingFunctors_[l] = <<>> /\ toRun[l] = <<>>
    BY DEF ServerInv, WhereInv, QueuesInv, DeadInv
  <2>2. \A l \in AllLoops : FunctorsOf(l) = {}
    BY <2>1 DEF FunctorsOf
  <2>3. connections_ = {} /\ holder[c] = "none" /\ where[Base] \notin Establishing
    BY DEF ServerInv, WhereInv, Gone, DeadInv, Establishing
  <2> QED
    BY <2>2, <2>3 DEF Held
<1> QED
  BY <1>1, DeadInvariant, PTL

(* A loop that is gone is handed no work, whichever loops were busy when   *)
(* the server was destroyed (stopLoop, ~EventLoopThread, QueueInLoop).     *)
THEOREM DeadLoopsGetNoWork ==
  ASSUME MaxCalls = 0
  PROVE  Spec => NoWorkForDeadLoops
<1>1. (ServerInv /\ DeadInv) /\ [Next]_vars =>
        [\A l \in AllLoops :
           Len(pendingFunctors_'[l]) > Len(pendingFunctors_[l]) =>
             where[l] # "destroyed"]_vars
  BY QueuesGrow
<1> QED
  BY <1>1, DeadInvariant, PTL DEF Spec, NoWorkForDeadLoops

-----------------------------------------------------------------------------
(* The round robin. *)

(* A connection stays on its loop and keeps its descriptor.                *)
LEMMA LoopsStay ==
  ASSUME ServerInv, [Next]_vars, ~NewConnetion
  PROVE  /\ \A d \in Conns : /\ conn'[d].loop = conn[d].loop
                             /\ conn'[d].open = conn[d].open
         /\ UNCHANGED <<nextConnectionId_, next_>>
<1> DEFINE Stay == \A d \in Conns : /\ conn'[d].loop = conn[d].loop
                                    /\ conn'[d].open = conn[d].open
<1>1. UNCHANGED conn => Stay
  OBVIOUS
<1>2. ASSUME NEW c \in Conns, NEW v, Becomes(v),
             Works(Conns, AllLoops, {"m"}, state, v, c)
      PROVE  Stay
  BY <1>2 DEF Works, Touches, Alike, Becomes, state
<1>3. \A d \in Conns : conn[d] \in Connections(AllLoops, {"m"})
  BY StateParts DEF ServerInv
<1>4. ASSUME NEW l \in AllLoops, LoopStep(l)
      PROVE  Stay
  <2>1. CASE Poll(l)
    <3> SUFFICES ASSUME NEW d \in Conns
                 PROVE  conn'[d].loop = conn[d].loop /\ conn'[d].open = conn[d].open
      OBVIOUS
    <3> DEFINE k == conn[d]
               r == Ready(d)
    <3>1. conn'[d] = k \/ conn'[d] = [k EXCEPT !.revents_ = r]
      BY <2>1 DEF Poll
    <3>2. k \in Connections(AllLoops, {"m"})
      BY <1>3
    <3> HIDE DEF k, r
    <3>3. conn'[d].loop = k.loop /\ conn'[d].open = k.open
      BY <3>1, <3>2 DEF Connections
    <3> QED
      BY <3>3 DEF k
  <2>2. CASE \E c \in Conns : HandleEvent(l, c)
    <3>1. PICK c \in Conns : HandleEvent(l, c)
      BY <2>2
    <3>2. CASE Held(c)
      <4>1. PICK v : Becomes(v) /\ Works(Conns, AllLoops, {"m"}, state, v, c)
        BY <3>1, <3>2, HandleEventWork
      <4> QED
        BY <1>2, <4>1
    <3>3. CASE ~Held(c)
      BY <3>1, <3>3 DEF HandleEvent, serverVars
    <3> QED
      BY <3>2, <3>3
  <2>3. CASE RunNext(l)
    <3> DEFINE c == toRun[l][at[l]].conn
    <3>1. PICK v : Becomes(v) /\ Works(Conns, AllLoops, {"m"}, state, v, c) /\ c \in Conns
      BY <2>3, NextFunctor
    <3> HIDE DEF c
    <3> QED
      BY <1>2, <3>1
  <2>4. CASE DoPendingFunctors(l) \/ FinishFunctors(l) \/ DestroyLoop(l)
    BY <2>4 DEF DoPendingFunctors, FinishFunctors, DestroyLoop, serverVars
  <2> QED
    BY <1>4, <2>1, <2>2, <2>3, <2>4 DEF LoopStep
<1>5. ASSUME BaseStep
      PROVE  Stay
  <2>1. CASE EnableReading \/ SetIndex \/ SetConnected \/ ConnectionCallback
    <3> DEFINE n == Newest
               k == conn[n]
    <3>1. n \in Conns
      BY <2>1, BoundsAssumption DEF ServerInv, AcceptInv, TypeOK, Newest, Conns, EnableReading,
         SetIndex, SetConnected, ConnectionCallback, Establish, Establishing
    <3>2. k \in Connections(AllLoops, {"m"})
      BY <1>3, <3>1
    <3> HIDE DEF n, k
    <3>3. PICK j : j.loop = k.loop /\ j.open = k.open /\ conn' = [conn EXCEPT ![n] = j]
      <4>1. CASE EnableReading
        <5> DEFINE j == EpollAdd([k EXCEPT !.events_ = @ \cup {"in"}])
        <5>1. j.loop = k.loop /\ j.open = k.open
          BY <3>2 DEF EpollAdd, Connections
        <5> QED
          BY <4>1, <5>1 DEF EnableReading, Establish, k, n
      <4>2. CASE SetIndex
        <5> DEFINE j == [k EXCEPT !.index_ = "kAdded"]
        <5>1. j.loop = k.loop /\ j.open = k.open
          BY <3>2 DEF Connections
        <5> QED
          BY <4>2, <5>1 DEF SetIndex, Establish, k, n
      <4>3. CASE SetConnected
        <5> DEFINE j == [k EXCEPT !.state_ = "kConnected"]
        <5>1. j.loop = k.loop /\ j.open = k.open
          BY <3>2 DEF Connections
        <5> QED
          BY <4>3, <5>1 DEF SetConnected, Establish, k, n
      <4>4. CASE ConnectionCallback
        <5> DEFINE j == [k EXCEPT !.context_ = @ \/ k.state_ = "kConnected"]
        <5>1. j.loop = k.loop /\ j.open = k.open
          BY <3>2 DEF Connections
        <5> QED
          BY <4>4, <5>1 DEF ConnectionCallback, Establish, k, n
      <4> QED
        BY <2>1, <4>1, <4>2, <4>3, <4>4
    <3> QED
      BY <3>1, <3>3, StateParts DEF ServerInv, k
  <2>2. CASE Start \/ DestroyServer \/ \E i \in 1..Len(Loops) : StopPoolLoop(i)
    BY <2>2 DEF Start, DestroyServer, StopPoolLoop, StopLoop, serverVars
  <2> QED
    BY <1>5, <2>1, <2>2 DEF BaseStep
<1>6. ASSUME NEW c \in Conns, HolderStep(c) \/ PeerStep(c)
      PROVE  Stay
  <2>1. CASE EndCall(c)
    <3>1. PICK v : Becomes(v) /\ Works(Conns, AllLoops, {"m"}, state, v, c)
      BY <2>1, EndCallWork
    <3> QED
      BY <1>2, <3>1
  <2>2. CASE ~EndCall(c)
    BY <1>6, <2>2 DEF HolderStep, BeginCall, Drop, PeerStep, PeerSends, PeerCloses, PeerResets,
                      PeerReads, PeerActs, serverVars
  <2> QED
    BY <2>1, <2>2
<1>7. ASSUME StopBase \/ PeerConnects \/ UNCHANGED vars
      PROVE  Stay
  BY <1>7 DEF StopBase, StopLoop, PeerConnects, serverVars, vars
<1>8. Stay
  BY <1>4, <1>5, <1>6, <1>7 DEF Next
<1>9. UNCHANGED <<nextConnectionId_, next_>>
  BY DEF Next, LoopStep, Poll, HandleEvent, DoPendingFunctors, RunNext, FinishFunctors,
         DestroyLoop, BaseStep, Start, EnableReading, SetIndex, SetConnected,
         ConnectionCallback, Establish, DestroyServer, StopPoolLoop, StopBase, StopLoop,
         PeerConnects, HolderStep, BeginCall, EndCall, Drop, PeerStep, PeerSends, PeerCloses,
         PeerResets, PeerReads, PeerActs, vars, acceptVars
<1> QED
  BY <1>8, <1>9

(* The connections a loop was dealt: q rounds of them, and one more when   *)
(* the round robin has passed it.                                          *)
Dealt(l) == {c \in Conns : Created(c) /\ conn[c].loop = l}

BalanceInv ==
  Loops # <<>> =>
    \E q \in Nat : \A i \in 1..Len(Loops) :
      Cardinality(Dealt(Loops[i])) = (IF i <= next_ THEN q + 1 ELSE q)

LEMMA DealtFinite == \A l : IsFiniteSet(Dealt(l))
<1>1. IsFiniteSet(Conns)
  BY FS_Interval, BoundsAssumption DEF Conns
<1> QED
  BY <1>1, FS_Subset DEF Dealt

LEMMA BalanceStep ==
  ASSUME ServerInv, BalanceInv, [Next]_vars
  PROVE  BalanceInv'
<1>1. CASE ~NewConnetion
  <2>1. /\ \A d \in Conns : conn'[d].loop = conn[d].loop
        /\ UNCHANGED <<nextConnectionId_, next_>>
    BY <1>1, LoopsStay
  <2>2. \A l : Dealt(l)' = Dealt(l)
    BY <2>1 DEF Dealt, Created
  <2> QED
    BY <2>1, <2>2 DEF BalanceInv
<1>2. CASE NewConnetion
  <2> SUFFICES ASSUME Loops # <<>> PROVE BalanceInv'
    BY DEF BalanceInv
  <2> DEFINE n == nextConnectionId_
             K == Len(Loops)
  <2>0. PICK j \in 1..K : j = next_ + 1
    <3>1. Len(Loops) # 0
      BY LoopsAssumption
    <3> QED
      BY <3>1, LoopFacts DEF ServerInv, TypeOK, AcceptInv
  <2>1. K \in Nat /\ next_ \in Nat /\ j = next_ + 1
    BY <2>0, LoopFacts DEF ServerInv, TypeOK
  <2>2. n \in Conns /\ ~Created(n) /\ n \in Nat
    BY <1>2, BoundsAssumption, LoopFacts
    DEF NewConnetion, ServerInv, ActiveInv, AcceptInv, TypeOK, Created, Conns
  <2>3. PICK open \in BOOLEAN : conn' = [conn EXCEPT ![n] = NewConnection(Loops[j], open)]
    BY <1>2, <2>0 DEF NewConnetion, NextLoop
  <2>4. /\ conn'[n].loop = Loops[j]
        /\ \A d \in Conns : d # n => conn'[d] = conn[d]
    BY <2>2, <2>3, StateParts DEF NewConnection, ServerInv
  <2>5. \A d \in Conns : Created(d)' <=> Created(d) \/ d = n
    BY <1>2, <2>2, BoundsAssumption DEF NewConnetion, Created, Conns
  <2>6. /\ Dealt(Loops[j])' = Dealt(Loops[j]) \cup {n}
        /\ n \notin Dealt(Loops[j])
        /\ \A i \in 1..K : i # j => Dealt(Loops[i])' = Dealt(Loops[i])
    <3>1. ASSUME NEW i \in 1..K
          PROVE  Dealt(Loops[i])' = {d \in Conns : (Created(d) \/ d = n) /\ conn'[d].loop = Loops[i]}
      BY <2>5 DEF Dealt
    <3>2. \A i \in 1..K : i # j => Loops[i] # Loops[j]
      BY LoopsAssumption
    <3>3. n \notin Dealt(Loops[j])
      BY <2>2 DEF Dealt
    <3>4. Dealt(Loops[j])' = Dealt(Loops[j]) \cup {n}
      BY <2>2, <2>4, <3>1 DEF Dealt
    <3>5. ASSUME NEW i \in 1..K, i # j
          PROVE  Dealt(Loops[i])' = Dealt(Loops[i])
      BY <2>2, <2>4, <3>1, <3>2, <3>5 DEF Dealt
    <3> QED
      BY <3>3, <3>4, <3>5
  <2>7. Cardinality(Dealt(Loops[j])') = Cardinality(Dealt(Loops[j])) + 1
    <3>1. IsFiniteSet(Dealt(Loops[j]))
      BY DealtFinite
    <3>2. Cardinality(Dealt(Loops[j]) \cup {n}) = Cardinality(Dealt(Loops[j])) + 1
      BY <2>6, <3>1, FS_AddElement
    <3> QED
      BY <2>6, <3>2
  <2>8. PICK q \in Nat : \A i \in 1..K :
          Cardinality(Dealt(Loops[i])) = (IF i <= next_ THEN q + 1 ELSE q)
    BY DEF BalanceInv
  <2>9. next_' = IF j >= K THEN 0 ELSE j
    BY <1>2, <2>0 DEF NewConnetion, AdvanceNext
  <2>10. \A i \in 1..K : Cardinality(Dealt(Loops[i])') = (IF i <= j THEN q + 1 ELSE q)
    <3> SUFFICES ASSUME NEW i \in 1..K
                 PROVE  Cardinality(Dealt(Loops[i])') = (IF i <= j THEN q + 1 ELSE q)
      OBVIOUS
    <3>1. CASE i = j
      BY <2>1, <2>7, <2>8, <3>1
    <3>2. CASE i # j
      BY <2>1, <2>6, <2>8, <3>2
    <3> QED
      BY <3>1, <3>2
  <2>11. CASE j >= K
    <3>1. PICK r \in Nat : r = q + 1
      OBVIOUS
    <3>2. \A i \in 1..K : Cardinality(Dealt(Loops[i])') = (IF i <= next_' THEN r + 1 ELSE r)
      BY <2>1, <2>9, <2>10, <2>11, <3>1
    <3> QED
      BY <3>2 DEF BalanceInv
  <2>12. CASE ~(j >= K)
    BY <2>1, <2>9, <2>10, <2>12 DEF BalanceInv
  <2> QED
    BY <2>11, <2>12
<1> QED
  BY <1>1, <1>2

(* No two loops of the pool differ by more than one in what they were      *)
(* dealt, however many loops and connections there are, and whichever      *)
(* connections fail or are gone (getNextLoop).                             *)
THEOREM LoadIsBalanced == Spec => []LoadBalanced
<1>1. Init => BalanceInv
  <2> SUFFICES ASSUME Init PROVE \A i \in 1..Len(Loops) :
                 Cardinality(Dealt(Loops[i])) = (IF i <= next_ THEN 0 + 1 ELSE 0)
    <3>1. 0 \in Nat
      OBVIOUS
    <3> QED
      BY <3>1 DEF BalanceInv
  <2>1. next_ = 0 /\ \A c \in Conns : ~Created(c)
    BY BoundsAssumption DEF Init, Created, Conns
  <2>2. \A l : Dealt(l) = {}
    BY <2>1 DEF Dealt
  <2>3. \A l : Cardinality(Dealt(l)) = 0
    BY <2>2, FS_EmptySet
  <2>4. \A i \in 1..Len(Loops) : ~(i <= next_)
    BY <2>1, LoopFacts
  <2> QED
    BY <2>3, <2>4
<1>2. ServerInv /\ BalanceInv /\ [Next]_vars => BalanceInv'
  BY BalanceStep
<1>3. BalanceInv => LoadBalanced
  <2> SUFFICES ASSUME BalanceInv, NEW l \in PoolLoops, NEW m \in PoolLoops
               PROVE  Cardinality(Dealt(l)) <= Cardinality(Dealt(m)) + 1
    BY DEF LoadBalanced, Dealt
  <2>1. PICK i \in 1..Len(Loops), j \in 1..Len(Loops) : l = Loops[i] /\ m = Loops[j]
    BY DEF PoolLoops
  <2>2. Loops # <<>>
    BY <2>1
  <2>3. PICK q \in Nat : \A k \in 1..Len(Loops) :
          Cardinality(Dealt(Loops[k])) = (IF k <= next_ THEN q + 1 ELSE q)
    BY <2>2 DEF BalanceInv
  <2> QED
    BY <2>1, <2>3
<1> QED
  BY <1>1, <1>2, <1>3, ServerInvariant, PTL DEF Spec
=============================================================================
