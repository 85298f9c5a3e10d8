# RabbitServer in TLA+

RabbitServer is a small network library in C++ modelled on muduo: event loops
on threads, TCP connections served by them, timers, and an HTTP server on top.
This directory holds TLA+ modules for it, TLC configurations that check them on
small instances, and proofs that TLAPS checks for instances of every size.

To check a run: `tlc -config EventLoop_loop.cfg MCEventLoop.tla`; to check
the proofs of a module: `tlapm EventLoop_proofs.tla`.  `PROJECT.json` lists the
components, the runs, the lines of source each definition stands for, the
hazards, and for every property a seeded fault (an operator `Fault...`) that
makes it fail.

## The system

| Component | State | Operations | Met by |
|---|---|---|---|
| EventLoop | quit_, callingPendingFunctors_, pendingFunctors_ under mutex_, activeChannels, the eventfd | loop, stop, RunInLoop, QueueInLoop, the timer functions | every other part; any thread hands it functors |
| Poller, Channel | the epoll set; events_, revents_, index_, writing_, tie_ of a channel | upDateChannel, removeChannel, enable.../disable..., handleEvent | the loop's thread; the base thread when a connection is established |
| Acceptor, Socket, TcpServer | connections_, nextConnectionId_ | start, accepting, newConnetion, the removal functions, the destructor | base loop; called back by connections |
| TcpConnection | state_, channel, outBuffer_, context_ | establish, send, closeConnection, handleRead/Write/Close/Hup, connectionDestroyed | its loop, the base loop, any thread that holds a ConnectionPtr |
| EventLoopThread, EventLoopThreadPool | loop_ under mutex_ and cond_, next_ | startLoop, the destructor, threadFunc, start, getNextLoop | the owner's thread and the one it starts |
| Thread, MutexLock, Condition | started_, holder_ | start, join, lock, unlock, wait, notify | EventLoop, EventLoopThread |
| TimerQueue, Timer | timers_, expiredTimers_, each timer's expiration and interval | addTimer, handleRead, the destructor | the loop's thread; others through RunInLoop |
| Buffer | a vector, readIndex_, writeIndex_; one static overflow array | append, readFd, retrieve | a connection's loop |
| HttpServer, HttpContext, HttpRequest, HttpResponse | the parser's state, kept in the connection's context_; a response under way | onConnection, onMessage, parseRequest, onRequest, appendToBuffer | callbacks of a connection |

What is hard in it: functors and wakeups race with a loop about to block; a
connection is established by one thread on a channel another one serves
already, and torn down in three hops between two threads; calls from other
threads test state_ and act later; the owner of a loop's thread and that thread
meet in a mutex, a condition and an object on the other's stack; the server, the
pool, its threads and the loops have to go in an order in which nobody waits
for ever or speaks to the dead; accept fails and its -1 is taken for a
descriptor; the kernel takes output in parts, with a close waiting behind it;
timers are added from everywhere against a clock that moves and can be set;
buffers count room by capacity and copy by size; a socket is closed with input
nobody has read.  `PROJECT.json` lists these hazards with their lines.

What makes the parts correct: a loop runs what it is handed, each functor once
and in order, and ends when told to; a connection is torn down exactly once, it
is watched while it is open, its channel leaves the epoll set before it dies,
its output is armed and arrives in order, and whole unless a buffer outgrows
its vector or the connection closes on unread input, it ends when either side
closes it, and it is not used after that; the server's end leaves neither
threads nor connections; startLoop returns a live loop and the destructor
returns; timers run in order while the clock is not set back, and are not used
after they are deleted; a buffer hands out what it was given while the size of
its vector is its capacity.

## The modules

| Module | Models |
|---|---|
| `TaskQueue` | the abstract executor: what QueueInLoop and RunInLoop promise |
| `EventLoop` | one loop, the threads that call it, eventfd and timerfd; implements `TaskQueue` |
| `Channel` | a channel and its entry in the epoll set, as operators |
| `TcpConnection` | the handlers and functors of a connection and TcpServer's removal functions, as operators on the server's state; extends `Channel` and `OutputBuffer` |
| `ConnectionLife` | the abstract connection: accepted, open, closed once, freed; input handed over while it is open |
| `TcpServer` | the base loop, the pool's loops, all connections, peers and one other thread for each connection, from start to the end of the base loop; composes `TcpConnection`, implements `ConnectionLife` |
| `Monitor` | MutexLock and Condition with holder_ |
| `EventLoopThread` | the owner and the thread it starts; extends `Monitor` |
| `Buffer` | the buffers of several threads and the array readFd shares |
| `OutputBuffer` | a Buffer that is only appended to and retrieved from, as outBuffer_ is, as operators |
| `HttpServer` | the HTTP parser, the responses and their way to the peer, over one connection of `TcpConnection`; extends it |
| `TimerQueue` | the timers of a loop and the threads that ask for some |
| `MC...` | the instances TLC checks |
| `..._proofs` | theorems and proofs |

Definitions keep the names of the code (with its spelling).  Places in the code
where a thread can be interrupted are values of a program counter; what no
other thread can observe in between is one step.

**EventLoop.**  The critical sections of mutex_ hold one statement, so each is
one step; the write of the eventfd that follows is another one.  The eventfd is
the one bit epoll sees.  A handler, a functor and the code before loop() may
queue functors, run them on the spot or stop the loop (`QueueFromLoop`,
`RunFromLoop`, `StopFromLoop`); other threads push and then wake
(`QueueFromCaller`, `StopFromCaller`, `Wakeup`).  `epoll_wait` reports all that
is ready or is interrupted.

**Channel, TcpConnection, TcpServer.**  A handler or a functor is one step of
its loop's thread, and an operator on a record with the whole state, so that
handlers that call handlers compose as in the code: handleHup is
connectionDestroyed followed by removeConnectionFromMap, which is a call or a
functor depending on the loop.  connectionEstablish is four steps, since its
channel is in another loop's epoll set after the first.  The message callback
may send and close (HttpServer::onMessage does).  Output is a sequence: the
kernel's send buffer takes `SendRoom` elements of it, write(2) takes what fits,
the rest goes through outBuffer_ and handleWrite.  outBuffer_ is a record of
`OutputBuffer`: the bytes that wait, with readIndex_ and the size and capacity
of the vector, so that append moves the bytes to the front, or makes the vector
grow, when the code does, and leaves `Nul` for the bytes the growth does not
copy (`Moved`).  In `TcpServer` a message is one or two elements that all look
alike, in `HttpServer` it is the reply itself.  Of the input, `TcpServer` knows
whether there is any.  A connection exists while the map, a queued functor, a
thread, or newConnetion holds it (`Held`).  A failed assertion ends the
process: the build in test/CMakeLists.txt is a debug build.

accept may fail, with the peer left in the backlog or gone (`AcceptConnection`);
the code goes on with descriptor -1, so there is a connection whose channel
epoll refuses (`open`).

**The beginning and the end.**  `Start` is TcpServer::start; that each
startLoop returns a live loop is what `EventLoopThread` shows.  The program
stops the base loop (`StopBase`), which ends after the iteration in hand.
~TcpServer then drops the map (`DestroyServer`) and the pool, whose
EventLoopThreads are destroyed one by one: each stops its loop and joins its
thread (`StopPoolLoop`, `DestroyLoop`, `Joined`), and the base loop goes last.
A loop takes its queued functors with it.

**Monitor, EventLoopThread.**  Every statement of startLoop, stopLoop and
threadFunc that touches shared state is a step, and so are acquiring the mutex,
setting holder_, clearing it, releasing, sleeping and waking, spuriously too.

**Buffer.**  The vector is its memory up to the capacity, and its size; a byte
is the number of its place in the stream.  readFd that overflows is two steps,
because the array it uses is shared by all threads.  After the indices have
crossed (possible after an overflowing readFd, see below) what happens to
memory is undefined, and no step is taken.  `OutputBuffer` is the same code
without readFd and the overflow, and without the memory, for the connections
that have a Buffer each.

**HttpServer.**  One established connection, with the handlers of
`TcpConnection`, and the thread of its loop: poll, read, write, functors.  A
stream is a sequence of lines, a message any piece of it; the line ends are
apart, so a piece may end inside a line and in the middle of a blank one.  Each
turn of parseRequest's loop is one step (`ParseRequest`); onMessage is the part
before it (`HandleMessage`) and the part after it (`OnMessage`).  Of the
headers of a request the Connection field is kept.  A reply is a sequence of
lines and of pieces of its body, built as appendToBuffer builds it
(`AppendToBuffer`), by a callback like the one in test/main.cpp
(`HttpCallback`).  The peer reads any amount at any time; `Found` counts the
replies it can tell apart in what it has read: a body of Content-Length pieces,
or, without that, all that comes to the end of the stream.

The stream ends when the last ConnectionPtr goes with the batch of functors, and
~Socket closes the descriptor (`FinishFunctors`).  If there is input that was
not read then, or if more comes later, the kernel sends a reset and drops what it
has not delivered, or some of it (`SendReset`); `closed` is what the peer is told.
`outgrown` records that outBuffer_ grew while bytes lay beyond its vector's
size.  The two are the ways for a reply to be lost, and OutputIntact and
RepliesReachPeer say that there is no third.  Two other buffers are taken for
plain sequences: that of a reply, whose lines fit a new Buffer (`LinesFit`), so
that only the append of the body makes it grow, from a vector without spare
capacity; and inBuffer_, which is one as long as a message with what was left
before it fits the vector of 1024 bytes, and beyond that has the overflow of
`Buffer`.

**TimerQueue.**  The clock may advance between any two steps, which matters as
addTimer and reset read it anew, and may be set back to any time before, since
Timestamp::now reads the time of day (`SetBack`).  A timer is one object: asked
for, queued, in the map, expired, run, put back or deleted.  A second is
`Second` ticks, to tell the cut interval from the one asked for.  addTimerRunAt
is asking with the distance of its time from the clock; a time already in the
past is turned away like every late one.

## The runs

| Run | Shows | States |
|---|---|---|
| EventLoop_loop | no lost wakeup, handleRead never blocks, the flag QueueInLoop tests is accurate; what is handed over runs; stop() ends the loop; the loop implements `TaskQueue`, with its fairness once the timerfd has expired | 28 452 |
| TcpServer_pool | a loop of the pool and two connections, accept may fail: watched while open, torn down exactly once, out of the epoll set before they die; a FIN leads to destruction; each connection implements `ConnectionLife`, with its fairness | 157 957 |
| TcpServer_holder | another thread sends and closes: output armed, no input after the close, assertions hold, closing ends the connection | 98 474 |
| TcpServer_shutdown | two loops, two connections, resets, failing accepts, the end at any moment: the types; connections dealt in turn; no functor for a loop that is gone; the threads are joined; no connection is left | 204 039 |
| EventLoopThread_handshake | startLoop returns a live loop, the destructor stops a live loop, both return; holder_ is accurate | 171 |
| Buffer_counts | append, readFd and retrieve in any order: no step loses count, but one; no byte lost or mixed up while size and capacity agree | 12 734 |
| HttpServer_replies | requests cut anywhere, output taken in parts: the replies the stream asks for, in order, none after the one that closes; their bytes go out in order, all of them but those a growing vector leaves behind and the end a reset drops; without these two each reaches a peer that reads, which can tell its end; a message that is let through has a reply; nothing of a request is left for the next; parseRequest returns; a request that comes alone is answered | 54 427 |
| TimerQueue_timers | each timer in one place, none used or deleted after its deletion; run in order until the clock is set back; a timer in the map runs | 250 213 |

**Bounds.** Two callers are enough for every pair of races at the eventfd,
which merges all writers; three functors, one of them queued before loop(), let
a batch, a functor queued meanwhile and an inline one coexist. A connection's
hops are between its loop and the base loop, and two connections on one loop
(TcpServer_pool) share its batches and its events; the loops of a pool meet
only in next_, in the map and at the end, so it is TcpServer_shutdown that has
two, each dealt one connection (next_ wraps to 0 after the second; that it did
not would show with the third only, for which there is the theorem
`LoadIsBalanced`). The properties of TcpServer_pool also pass with two loops,
in four minutes, and without a pool. The send buffer of these runs has one
place and messages one or two pieces, so that a message fits, fits in part, or
does not fit. One input for each peer and two calls of the other thread (send
then close, close then send, twice the same) give each order of send, close,
FIN and drain. Two timers with delays of one and two ticks, a second being two
ticks, each both repeated and not, over a clock of five ticks that is set back
once: a repeated one comes back at least once, and two of them meet in the map
and among the expired. The seven streams of MCHttpServer have one to three
requests, a method known or not, each version and Connection header the code
tells apart; they are cut in all possible ways. A reply has up to nine
elements, bodies of four pieces and empty ones, the send buffer two places and
a new vector six: a reply takes several writes, two and three replies wait
together, and in the stream `Kept` the second fills the capacity that the first
made and the third makes the vector grow and lose bytes. Requests that come
after the closing one are in four streams, read and unread when the socket is
closed. Of a reset TcpServer_pool and TcpServer_holder have none, so the race
of set_index (Poller.cpp:61), which takes one, is not in them, and in
TcpServer_shutdown no property is about it. The bounded steps say so in the
modules (`Bound:`). The buffer starts with two bytes and is given nine, which
makes it grow twice and more.

**Fairness.**  A loop's thread is weakly fair: it is a thread that does nothing
else and its handlers return.  A thread in the middle of wakeup() or of
QueueInLoop finishes.  Callers, peers and the program promise nothing more,
except where a property needs it: peers read what they are sent, since a close
waits for the output, and a thread that holds a ConnectionPtr finishes its call
and drops it at last.  `ConnectionLife` asks that input of an open connection
is handed over or the connection closed, and that a closed one is freed;
TcpServer_pool derives both from the fairness of the loops' threads.  Nobody
has to stop the base loop. The timerfd's first expiry is not assumed:
`KeepsExecuting` says what holds once it has come (a functor queued before
loop() writes no wakeup, and it is the timerfd, which nobody reads and so stays
ready, that ends the poll). EventLoopThread also assumes that a thread is not
overtaken at the mutex for ever (strong fairness of its acquisition): else a
thread woken spuriously again and again could starve the other.  TimerQueue
assumes that time passes and, strongly, that queued functors run between two
calls of handleRead.

## What the code does not do

Each of these runs ends in a counterexample, against a statement in the code's
own comments or assertions.

| Run | The statement | What happens |
|---|---|---|
| TcpServer_reset_assert | `assert(it != connections_.end())`, TcpServer.cpp:113 | handleHup removes a connection whose removal is under way |
| TcpServer_late_send | the owner does not die while its event is handled, Channel.h:129 | a sendInLoop after connectionDestroyed registers the channel again |
| EventLoopThread_early_stop | `assert(quit_ == false)`, EventLoop.cpp:47 | the owner stops the loop before its thread enters loop() |
| Buffer_shared | retrieve what was appended, Buffer.h:18 | threads share the overflow array |

More of the kind is in the modules, without a run of its own:

- ~TcpServer drops connections_ before the pool's threads are joined, while a
  loop may have a channel of theirs in hand: with `Faults = {"shutdown"}` and a
  pool, OwnerOutlivesEvents fails.  Without a pool everything is one thread and
  it holds.
- A connection accept gave no descriptor stays in the map, never closed, until
  the server goes.  (`OpenIsServed` and `FinEndsConnection` are about the
  others; `NothingLeaks` has it freed in the end.)
- A send from another thread binds a pointer to the caller's bytes, not a copy
  (TcpConnection.cpp:149): sendInLoop finds there what is there by then, which
  the model leaves open (`RunFunctor`).
- With a pool, input may be handled before the base thread has run the
  connection callback, and HttpServer::onMessage then dereferences a NULL
  context.  `OpenIsServed` has the context only from the end of newConnetion
  on.
- writeableBytes counts the vector's capacity, but a growth copies only its
  size (`Resize`, `Moved`): bytes stored in between are lost.  With one thread,
  `AppendSizes = {1}` and `ReadSizes = {}`, BytesIntact fails.  It happens to
  replies that wait together in outBuffer_: after appends of 1100, 900 and 100
  bytes those from the 1101st to the 2000th are zero.  (`OutputIntact` and
  `RepliesReachPeer` except it, by `outgrown`.)
- A connection that closes after its reply does not read what its peer has sent
  meanwhile, pipelined requests for instance.  close(2) then resets the
  connection, and the end of the reply may not reach the peer (`SendReset`).
- Timers go by the time of day.  When that is set back, a timer asked for then may
  be due before one that has run already (`SetBack`), and those in the map
  wait the longer.
- onMessage looks four bytes back from the end of a buffer that may hold fewer
  (HttpServer.cpp:52), in memory that is not the buffer's; `EndsBlank` assumes
  that no line ends are found there.
- A request line refused for its version leaves method_ set and the line in the
  buffer.  If the 400 waits for room, the connection goes on reading, and the
  next message that ends in a blank line makes setMethod's assertion fail
  (`SetMethodFails`).
- Of several requests that come in one message one is answered; each of the
  others waits for a further message (`OnMessage`).  RepliesInOrder says that
  the replies are the right ones, not that they come.
- A readFd that overflows a vector with more capacity than size sets
  writeIndex_ to the size although readv filled the capacity
  (`ReadFdOverflows`).  It is the step CountsKept makes an exception for.
- addTimer reads the clock again and drops a timer already due; nobody looks
  at what it returns, so "run after delay seconds" (EventLoop.h:38) is not kept
  for a timer the loop comes to late (`AddTimer`).
- Timer keeps the interval in an int: "every interval seconds" (EventLoop.h:40)
  becomes every whole second (`ToInt`).

Limits of the passing runs follow from the code as well.  TeardownOnce
is about connections nobody resets, no other thread holds and no shutdown cuts
short: the first two counterexamples above are how each of these breaks it.
CloseEndsConnection speaks of connections in kConnected: a closeConnection that
runs while the base thread is still in connectionEstablish is swallowed by
handleClose.

## The proofs

**EventLoop_proofs**, for any sets of callers, functors and channels.
`TypeCorrect` is the type invariant.  NoLostWakeup is not inductive: nothing in
it says what leads to the poll.  `LoopInv` adds that announced work is
signalled *unless the loop has still to take it in this iteration*
(`WorkAnnounced`), that a batch is held only while it runs
(`BatchOnlyWhileRunning`), and that callingPendingFunctors_ tells where the
thread is, which is what QueueInLoop relies on when it writes no wakeup.
`LoopInvariant` proves it, `WakeupsNotLost`, `ReadNeverBlocks` and
`FlagAccurate` follow.  `ImplementsExecutor` shows that each step, with queue
the concatenation of toRun and pendingFunctors_, is a step of `TaskQueue` or
leaves it unchanged: the safety part of the refinement, ImplementsTaskQueue.

**EventLoopThread_proofs.**  `HandshakeInv` relates where a thread is in its
program to where it is in the monitor (`PlacesAgree`), loop_ to the life of the
loop (`LoopPublished`), and adds that nobody stops the loop before startLoop
has returned it (`NotStoppedYet`), without which startLoop's unlocked read of
loop_ could return NULL.  `MonitorActionKeeps` proves once for the monitor's
steps that mutual exclusion and the accuracy of holder_ are kept.
`HolderCorrect`, `StartGivesLoop` and `StopsLiveLoop` follow.

**Buffer_proofs**, for buffers of any size, any amounts and any number of
threads.  Lemmas say what Compact, Resize, EnsureWritebale, append, a read that
fits, one that overflows and retrieve keep.  `CountsAreKept` is the action
property CountsKept: a buffer whose indices are in order and which counts what
it was given and not yet handed out is such a buffer after every step, but for
the overflowing readFd described above.  It needs `BufferInv`, which holds even
after the indices have gone wrong and says that extrabuf holds at least what
waits in it.  `TypeCorrect` adds that a vector is its memory up to its capacity
all the time; `TypeInv` counts what waits in extrabuf against the bound on what
is given.  `AppendInRange` and `AppendCountsExactly` draw the conclusion for
a buffer that is appended to and retrieved from only, as outBuffer_ is: under
the assumption `ReadSizes = {}` its indices are always in range and its count
exact.  `FullVectorsKeepBytes` is about the bytes themselves (`Holds`): under the
assumption that no two threads share extrabuf, which Buffer_shared shows to be
needed, FullVectorKeepsBytes.  Its invariant is that what waits in extrabuf are
the bytes that come next (`Waits`); a lemma for each operation says that it
leaves every byte at its place behind readIndex_, and Resize is the one that
needs size and capacity to agree.

**TimerQueue_proofs**, for any timers, delays and lengths of a second. OnePlace
needs `Placed`: a timer asked for is a new one, running is set exactly during a
callback, and outside handleRead no timer is left in expiredTimers_.
FiresInOrder needs `Ordered`: what ran was due before all that is left, and
what expired before all that is in the map, as long as the clock was not set
back.  It is kept because addTimer turns away what lies before the clock and
getExpiredTimers takes all that does. `TimersInvariant` proves the three
together with the type invariant; `TypeCorrect`, `TimersInOnePlace` and
`TimersFireInOrder` follow.

**TcpServer_proofs**, for any number of loops and connections and whatever the
peers, the program, accept and other threads do.  None of the run's invariants
is inductive.  `ServerInv` adds to the types where things are: a functor waits
in the queue of the loop that is to run it (`QueuesInv`), a channel is reported
to the loop of its connection (`ActiveInv`), the numbers of connections made
and announced fit together (`AcceptInv`), and the loops begin and end in order
(`WhereInv`).  `TypeCorrect` and `LoadIsBalanced` need no more; LoadBalanced
counts, so `LoadIsBalanced` carries with it which connections getNextLoop has
dealt to which loop.  Once no thread outside the server holds a connection
(`MaxCalls = 0`), loops that are gone have no functors left (`DeadInv`), and
`NothingIsLeaked` and `DeadLoopsGetNoWork` follow, the latter with a lemma that
says who queues and when.

**TcpServerLife_proofs**, about a single connection.  `LifeInv` says of each
one what its channel and its entry in the epoll set are in each state
(`ChannelInv`), which of its functors may wait, and of which at most one
(`QueueInv`), how far newConnetion is with it (`StageInv`, `NewestInv`: a
connection is on its loop's epoll set, and may be read, closed and half torn
down, before its thread goes on establishing it), and that input was reported
only of what is not closed (`ReportInv`).  `Good` is stated of a state, its
queues and the functors still to run, so that handlers which call handlers are
proved as they compose: for each handler there is a lemma that it keeps `Good`
for its own connection, and `OtherGood` for the others.  What follows:

- `NoAssertionFails`, `OpenConnectionsServed`, `ClosedConnectionsReadNothing`,
  with failing accepts, other threads and shutdowns;
- `OutputIsArmed`, with `OpenInv`, that every connection has a descriptor;
- `ConnectionsLive`: the initial state is one of `ConnectionLife`, and each
  step is one of its steps or none, the safety part of ImplementsLife.  It needs
  `UpInv`, that the base loop stays, and from it that what is not closed is in
  the map;
- `TornDownOnce`, with `TornInv`: a closed connection has exactly one removal
  on its way while it is in the map, and exactly one destruction after that,
  until its channel is out of the epoll set.

What they assume of the constants is what the code needs:

| Assumption | Where | Because |
|---|---|---|
| `"reset" \notin Faults` | all of TcpServerLife_proofs | handleHup may remove a connection whose removal is queued, and removeConnectionInLoop's assertion fails (TcpServer_reset_assert) |
| `"accept" \notin Faults` | OutputIsArmed | a connection on descriptor -1 has output that epoll never hears of |
| `"shutdown" \notin Faults` | ConnectionsLive, TornDownOnce | ~TcpServer drops the map with connections open in it |
| `MaxCalls = 0` | NothingIsLeaked, DeadLoopsGetNoWork, TornDownOnce | a thread that still holds a connection queues for a loop that is gone, or sends after connectionDestroyed (TcpServer_late_send) |

`TcpConnection_proofs` has the lemmas both rest on, for any sets of connections,
loops and bytes: that each handler, functor and removal keeps the types, leaves
alone every connection but its own and only appends to queues, and what it
appends.

**HttpServer_proofs**, for any set of streams, any pages, any way a stream is
cut into messages and any amount each write takes.  `HttpInv` adds to the types
that only functors that close the connection are queued, and none while a
message is handled (`QueueInv`); that a message being parsed ends in a line end
in front of which, if there is anything, is another one (`EndsInLine`), which
every line the parser takes preserves, so that it never runs out of lines
before it has a request or refuses one (`ParseInv`); and that what the peer has
read, what the kernel holds and what waits are a copy of the bytes of the
replies joined (`OutputInv`): the same in each place, or Nul there if
outBuffer_ has outgrown its vector (`Copies`), and after a reset a copy of
their beginning (`Starts`).  A connection out of the map writes no more
(`Shut`), so nothing is sent after a reset.  The invariant rests on a lemma for
each handler and functor of the connection, which says what it does to the
output (`Keeps`, `Sends`), and these on one about write, that what it takes and
what is kept are the whole and nothing is written past output that waits, and
one about append, that what it leaves behind is a copy, with no Nul unless
bytes lay beyond the size of a vector that grows (`PutCopies`).  The library's
FlattenSeq, by which the bytes of streams and replies are joined, is recursive;
what it returns is proved by induction over the set of the lengths for which it
is so (`Induction`, from WFMin and the order of the natural numbers).
`TypeCorrect`, `EveryMessageReplied`, `ContextIsClean` and `OutputIsIntact`
follow.

`RepliesAreInOrder` needs to know where in its stream the parser stands.
`ReplyInv` says that, unless the connection is closing, there is a line such
that the replies sent, followed by those the lines from there on ask for, are
all the replies of the stream, and that the parser is at the request on this
line (`Stands`): between requests, within its headers, past the last of them or
about to refuse it.  In each case the buffer followed by what has not been read
is the bytes of the lines still to be parsed (`StandsAt`), which is why it does
not matter where the stream was cut, and the context holds what the lines of
the request said so far (`Parsed`).  Once the connection closes, the replies
are a prefix of those asked for, and no more are sent.  The lemmas find the
parser's next line at the front of what is left of the stream (`LineFound`) and
unfold the recursion of `Replies`, which runs from the last line to the first,
by `Induction` once more (`LaterExists`, `LaterIs`).

The other assumptions are those of the modules, about their constants: of
OutputBuffer, that a new vector has room (`InitSizeAssumption`); of HttpServer,
that it has room for the lines of a reply (`LinesFit`), that streams consist of
the lines the parser tells apart (`StreamsAssumption`) and that pages have
words for paths and natural numbers for lengths (`PagesAssumption`).

Left to TLC are the liveness properties (HandedOverRuns, StopEndsLoop,
KeepsExecuting, FinEndsConnection, CloseEndsConnection, ShutdownEnds,
CallsReturn, InsertedRuns, RequestsAnswered, RepliesReachPeer and the fair half
of ImplementsLife), since liveness under fairness is beyond the prover. Every
invariant and every other action property of the passing runs is a theorem,
some under the assumptions of the table above and FullVectorKeepsBytes under
that of a single thread.

## Not modelled

NetAddr and IgnoreSigPipe have no state; the functions of Socket other than
accept and the close of the descriptor set options or call bind, listen and
connect.  Names, logging and thread ids are left out, as are functions without
a caller (getLoopForHash, getAllLoops, waitForSeconds, notifyAll,
disableReading, retrieveAsString, retrieveAllAsString, findEOF).  That the
bytes of Buffer are those it was given is checked in `Buffer`; inBuffer_ is a
sequence in `HttpServer` (see there), and `TcpServer` knows only whether there
is input.  `http/http_util.h` is another library's header that nothing
includes, and makes a fifth of the repository's lines.

## Plan

Done: TaskQueue and EventLoop (with proofs), Channel, TcpConnection and
TcpServer from start to end with a failing accept (with proofs), ConnectionLife
and the refinement (its safety part proved), the stream of output through
OutputBuffer to a socket that may be reset, Monitor and EventLoopThread (with
proofs), Buffer (with proofs), TimerQueue (with proofs), HttpServer with its
responses (with proofs).  To come: the part of the liveness properties that is
safety, for any constants. A connection on which nothing is left to do, the
buffer read, no functor queued and no output held back, has sent every reply
that its stream asks for; a loop that waits in its poll with no descriptor
ready has run every functor it was given.
