------------------------------ MODULE EventLoop ------------------------------
(***************************************************************************)
(* One EventLoop: the thread that runs EventLoop::loop, the threads that   *)
(* call QueueInLoop, RunInLoop and stop on it, and the kernel objects      *)
(* between them (epoll set, eventfd, timerfd).                             *)
(*                                                                         *)
(* A critical section of mutex_ holds one statement, push_back or swap, so *)
(* it is one step here.  What happens outside it is a step of its own: a   *)
(* caller pushes its functor, releases mutex_, and only then writes the    *)
(* eventfd.  The eventfd is its one observable bit, "the counter is not    *)
(* zero".                                                                  *)
(***************************************************************************)
EXTENDS Sequences, Functions

CONSTANTS
  Callers,        \* threads other than the loop's own
  Functors,       \* the callbacks handed over; each is handed over once
  Early,          \* those the loop's own thread hands over before loop()
  Channels,       \* the channels the program registers
  wakeupChannel,  \* wakeupChannel_, on the eventfd
  timerChannel    \* TimerQueue::timerChannel_, on the timerfd

ASSUME EarlyAssumption == Early \subseteq Functors
ASSUME ChannelAssumption ==
  /\ wakeupChannel \notin Channels \cup {timerChannel}
  /\ timerChannel \notin Channels

VARIABLES
  quit_,
  callingPendingFunctors_,
  pendingFunctors_,
  toRun,           \* doPendingFunctors's local vector, what is left of it
  activeChannels,  \* the part of the vector loop() has not reached yet
  ready,           \* channels, wakeupChannel apart, whose descriptor is ready
  wakeup_fd_,      \* the eventfd's counter is not zero
  loopPC,          \* where the loop's thread is
  callerPC,        \* where each caller is
  ran              \* history: the functors run so far, in order

vars == <<quit_, callingPendingFunctors_, pendingFunctors_, toRun,
          activeChannels, ready, wakeup_fd_, loopPC, callerPC, ran>>
queues == <<pendingFunctors_, toRun, ran>>

LoopPC == {"start", "check", "poll", "dispatch", "handler", "run", "functor",
           "exited", "aborted"}

(* The places where the loop's thread runs the program's own code: before  *)
(* loop(), in a channel's handler or a timer, and in a functor.            *)
UserCode == {"start", "handler", "functor"}

TypeOK ==
  /\ quit_ \in BOOLEAN
  /\ callingPendingFunctors_ \in BOOLEAN
  /\ pendingFunctors_ \in Seq(Functors)
  /\ toRun \in Seq(Functors)
  /\ activeChannels \subseteq Channels \cup {wakeupChannel, timerChannel}
  /\ ready \subseteq Channels \cup {timerChannel}
  /\ wakeup_fd_ \in BOOLEAN
  /\ loopPC \in LoopPC
  /\ callerPC \in [Callers -> {"idle", "wakeup"}]
  /\ ran \in Seq(Functors)

Init ==
  /\ quit_ = FALSE
  /\ callingPendingFunctors_ = FALSE
  /\ pendingFunctors_ = <<>>
  /\ toRun = <<>>
  /\ activeChannels = {}
  /\ ready = {}
  /\ wakeup_fd_ = FALSE
  /\ loopPC = "start"
  /\ callerPC = [t \in Callers |-> "idle"]
  /\ ran = <<>>

(* Bound: a functor is handed over once.                                   *)
MayHandOver(f) == f \notin Range(pendingFunctors_ \o toRun \o ran)

-----------------------------------------------------------------------------
(* The loop's thread. *)

(* loop() asserts that nobody stopped the loop before it began.            *)
EnterLoop ==
  /\ loopPC = "start"
  /\ loopPC' = IF quit_ THEN "aborted" ELSE "check"
  /\ UNCHANGED <<quit_, callingPendingFunctors_, queues, activeChannels,
                 ready, wakeup_fd_, callerPC>>

CheckQuit ==
  /\ loopPC = "check"
  /\ loopPC' = IF quit_ THEN "exited" ELSE "poll"
  /\ UNCHANGED <<quit_, callingPendingFunctors_, queues, activeChannels,
                 ready, wakeup_fd_, callerPC>>

(* Seeded faults: handleRead called on every iteration, and the timerfd's  *)
(* channel not registered.                                                 *)
FaultReadEveryTime == ready \cup {wakeupChannel}
FaultTimerNotPolled ==
  (ready \ {timerChannel}) \cup {c \in {wakeupChannel} : wakeup_fd_}

(* The channels epoll_wait reports.                                        *)
ReadyChannels == ready \cup {c \in {wakeupChannel} : wakeup_fd_}

(* epoll_wait without a timeout: blocks until a descriptor is ready, then  *)
(* reports all of them (Bound: fewer than InitEventsNum are ready at once, *)
(* beyond it the rest is reported by the next call).                       *)
Poll ==
  /\ loopPC = "poll"
  /\ activeChannels' = ReadyChannels
  /\ activeChannels' # {}
  /\ loopPC' = "dispatch"
  /\ UNCHANGED <<quit_, callingPendingFunctors_, queues, ready, wakeup_fd_,
                 callerPC>>

(* A signal interrupts epoll_wait: Poll returns with no active channel.    *)
PollInterrupted ==
  /\ loopPC = "poll"
  /\ activeChannels' = {}
  /\ loopPC' = "dispatch"
  /\ UNCHANGED <<quit_, callingPendingFunctors_, queues, ready, wakeup_fd_,
                 callerPC>>

(* EventLoop::handleRead.  The eventfd is a blocking one: read waits for   *)
(* the counter to be positive and resets it.                               *)
HandleWakeup ==
  /\ loopPC = "dispatch"
  /\ wakeupChannel \in activeChannels
  /\ wakeup_fd_
  /\ wakeup_fd_' = FALSE
  /\ activeChannels' = activeChannels \ {wakeupChannel}
  /\ UNCHANGED <<quit_, callingPendingFunctors_, queues, ready, loopPC,
                 callerPC>>

(* handleEvent of another channel calls into the program.  A handler may   *)
(* leave its descriptor ready; TimerQueue::handleRead always does, for it  *)
(* never reads the timerfd.                                                *)
HandleEvent(ch) ==
  /\ loopPC = "dispatch"
  /\ ch \in activeChannels \ {wakeupChannel}
  /\ activeChannels' = activeChannels \ {ch}
  /\ \/ UNCHANGED ready
     \/ ch # timerChannel /\ ready' = ready \ {ch}
  /\ loopPC' = "handler"
  /\ UNCHANGED <<quit_, callingPendingFunctors_, queues, wakeup_fd_, callerPC>>

HandlerReturns ==
  /\ loopPC = "handler"
  /\ loopPC' = "dispatch"
  /\ UNCHANGED <<quit_, callingPendingFunctors_, queues, activeChannels,
                 ready, wakeup_fd_, callerPC>>

(* Seeded fault: the pending functors cleared before the swap.             *)
FaultClearFirst ==
  /\ loopPC = "dispatch"
  /\ activeChannels = {}
  /\ callingPendingFunctors_' = TRUE
  /\ toRun' = <<>>
  /\ pendingFunctors_' = <<>>
  /\ loopPC' = "run"
  /\ UNCHANGED <<quit_, activeChannels, ready, wakeup_fd_, callerPC, ran>>

(* doPendingFunctors up to its loop: the pending functors are swapped into *)
(* a local vector under mutex_.                                            *)
DoPendingFunctors ==
  /\ loopPC = "dispatch"
  /\ activeChannels = {}
  /\ callingPendingFunctors_' = TRUE
  /\ toRun' = pendingFunctors_
  /\ pendingFunctors_' = <<>>
  /\ loopPC' = "run"
  /\ UNCHANGED <<quit_, activeChannels, ready, wakeup_fd_, callerPC, ran>>

(* Seeded fault: the batch run from its back.                              *)
FaultRunLast ==
  /\ loopPC = "run"
  /\ toRun # <<>>
  /\ ran' = Append(ran, toRun[Len(toRun)])
  /\ toRun' = SubSeq(toRun, 1, Len(toRun) - 1)
  /\ loopPC' = "functor"
  /\ UNCHANGED <<quit_, callingPendingFunctors_, pendingFunctors_,
                 activeChannels, ready, wakeup_fd_, callerPC>>

(* One turn of the loop over the batch.                                    *)
RunFunctor ==
  /\ loopPC = "run"
  /\ toRun # <<>>
  /\ ran' = Append(ran, Head(toRun))
  /\ toRun' = Tail(toRun)
  /\ loopPC' = "functor"
  /\ UNCHANGED <<quit_, callingPendingFunctors_, pendingFunctors_,
                 activeChannels, ready, wakeup_fd_, callerPC>>

FunctorReturns ==
  /\ loopPC = "functor"
  /\ loopPC' = "run"
  /\ UNCHANGED <<quit_, callingPendingFunctors_, queues, activeChannels,
                 ready, wakeup_fd_, callerPC>>

(* Seeded fault: callingPendingFunctors_ left set.                         *)
FaultFlagLeftSet ==
  /\ loopPC = "run"
  /\ toRun = <<>>
  /\ loopPC' = "check"
  /\ UNCHANGED <<quit_, callingPendingFunctors_, queues, activeChannels,
                 ready, wakeup_fd_, callerPC>>

FinishFunctors ==
  /\ loopPC = "run"
  /\ toRun = <<>>
  /\ callingPendingFunctors_' = FALSE
  /\ loopPC' = "check"
  /\ UNCHANGED <<quit_, queues, activeChannels, ready, wakeup_fd_, callerPC>>

(* Seeded fault: the second half of QueueInLoop's test missing.            *)
FaultOwnThreadNeverWakes == FALSE

(* What QueueInLoop tests when it runs on the loop's own thread.           *)
OwnThreadWakes == callingPendingFunctors_

(* QueueInLoop on the loop's own thread writes the eventfd only while      *)
(* functors run: a handler's functor is run later in the same iteration.   *)
QueueFromLoop(f) ==
  /\ loopPC \in UserCode
  /\ f \in Early <=> loopPC = "start"
  /\ MayHandOver(f)
  /\ pendingFunctors_' = Append(pendingFunctors_, f)
  /\ wakeup_fd_' = (wakeup_fd_ \/ OwnThreadWakes)
  /\ UNCHANGED <<quit_, callingPendingFunctors_, toRun, ran, activeChannels,
                 ready, loopPC, callerPC>>

(* RunInLoop on the loop's own thread calls the functor on the spot.       *)
RunFromLoop(f) ==
  /\ loopPC \in UserCode
  /\ f \notin Early
  /\ MayHandOver(f)
  /\ ran' = Append(ran, f)
  /\ UNCHANGED <<quit_, callingPendingFunctors_, pendingFunctors_, toRun,
                 activeChannels, ready, wakeup_fd_, loopPC, callerPC>>

(* stop() on the loop's own thread only sets the flag.                     *)
StopFromLoop ==
  /\ loopPC \in UserCode
  /\ quit_' = TRUE
  /\ UNCHANGED <<callingPendingFunctors_, queues, activeChannels, ready,
                 wakeup_fd_, loopPC, callerPC>>

-----------------------------------------------------------------------------
(* The other threads. *)

(* QueueInLoop, and RunInLoop which calls it: push under mutex_ ...        *)
QueueFromCaller(t, f) ==
  /\ callerPC[t] = "idle"
  /\ f \notin Early
  /\ MayHandOver(f)
  /\ pendingFunctors_' = Append(pendingFunctors_, f)
  /\ callerPC' = [callerPC EXCEPT ![t] = "wakeup"]
  /\ UNCHANGED <<quit_, callingPendingFunctors_, toRun, ran, activeChannels,
                 ready, wakeup_fd_, loopPC>>

(* Seeded fault: stop() without its wakeup.                                *)
FaultStopSilently(t) ==
  /\ callerPC[t] = "idle"
  /\ quit_' = TRUE
  /\ UNCHANGED <<callingPendingFunctors_, queues, activeChannels, ready,
                 wakeup_fd_, loopPC, callerPC>>

(* stop(): the flag first ...                                              *)
StopFromCaller(t) ==
  /\ callerPC[t] = "idle"
  /\ quit_' = TRUE
  /\ callerPC' = [callerPC EXCEPT ![t] = "wakeup"]
  /\ UNCHANGED <<callingPendingFunctors_, queues, activeChannels, ready,
                 wakeup_fd_, loopPC>>

(* Seeded fault: the eventfd taken for a channel whose handler leaves it   *)
(* ready.                                                                  *)
FaultWakeupAsEvent(t) ==
  /\ callerPC[t] = "wakeup"
  /\ ready' = ready \cup {wakeupChannel}
  /\ callerPC' = [callerPC EXCEPT ![t] = "idle"]
  /\ UNCHANGED <<quit_, callingPendingFunctors_, queues, activeChannels,
                 wakeup_fd_, loopPC>>

(* ... and then wakeup() writes the eventfd.                               *)
Wakeup(t) ==
  /\ callerPC[t] = "wakeup"
  /\ wakeup_fd_' = TRUE
  /\ callerPC' = [callerPC EXCEPT ![t] = "idle"]
  /\ UNCHANGED <<quit_, callingPendingFunctors_, queues, activeChannels,
                 ready, loopPC>>

-----------------------------------------------------------------------------
(* The kernel. *)

EventArrives(ch) ==
  /\ ch \in Channels
  /\ ready' = ready \cup {ch}
  /\ UNCHANGED <<quit_, callingPendingFunctors_, queues, activeChannels,
                 wakeup_fd_, loopPC, callerPC>>

(* The periodic timer TimerQueueStart arms expires for the first time.     *)
TimerExpires ==
  /\ timerChannel \notin ready
  /\ ready' = ready \cup {timerChannel}
  /\ UNCHANGED <<quit_, callingPendingFunctors_, queues, activeChannels,
                 wakeup_fd_, loopPC, callerPC>>

-----------------------------------------------------------------------------
(* One thread runs these, one after the other, for as long as it can.      *)
LoopStep ==
  \/ EnterLoop
  \/ CheckQuit
  \/ Poll
  \/ HandleWakeup
  \/ \E ch \in Channels \cup {timerChannel} : HandleEvent(ch)
  \/ HandlerReturns
  \/ DoPendingFunctors
  \/ RunFunctor
  \/ FunctorReturns
  \/ FinishFunctors

UserStep ==
  \/ \E f \in Functors : QueueFromLoop(f) \/ RunFromLoop(f)
  \/ StopFromLoop

CallerStep ==
  \E t \in Callers :
    \/ \E f \in Functors : QueueFromCaller(t, f)
    \/ StopFromCaller(t)
    \/ Wakeup(t)

KernelStep ==
  \/ PollInterrupted
  \/ \E ch \in Channels : EventArrives(ch)
  \/ TimerExpires

Next == LoopStep \/ UserStep \/ CallerStep \/ KernelStep

(* The loop's thread runs whenever it is not blocked, the program's        *)
(* handlers and functors return, and a caller inside wakeup() finishes it. *)
(* Nothing else is promised: nobody has to call, no event has to arrive.   *)
Fairness ==
  /\ WF_vars(LoopStep)
  /\ \A t \in Callers : WF_vars(Wakeup(t))

Spec == Init /\ [][Next]_vars /\ Fairness

-----------------------------------------------------------------------------
(* Properties. *)

(* A wakeup is under way or already readable.                              *)
Signalled == wakeup_fd_ \/ \E t \in Callers : callerPC[t] = "wakeup"

Stopped == loopPC \in {"exited", "aborted"}

(* No wakeup is lost: when the loop's thread is at the blocking epoll_wait *)
(* with work handed over since loop() began, or with quit_ set, the        *)
(* eventfd is readable or its writer is on its way (QueueInLoop, stop).    *)
NoLostWakeup ==
  loopPC = "poll" =>
    /\ (\E f \in Range(pendingFunctors_) : f \notin Early) => Signalled
    /\ quit_ => Signalled

(* handleRead never blocks the loop on the eventfd: the wakeup channel is  *)
(* active only while the counter is positive.                              *)
WakeupReadNeverBlocks == wakeupChannel \in activeChannels => wakeup_fd_

(* The flag QueueInLoop tests tells where the loop's thread really is, so  *)
(* a functor queued by a functor always comes with a wakeup.               *)
CallingFlagAccurate ==
  callingPendingFunctors_ <=> loopPC \in {"run", "functor"}

(* Why: work handed over since loop() began is announced, unless the loop  *)
(* is still to take it in this iteration; and the loop holds a batch only  *)
(* while it runs it.                                                       *)
WorkAnnounced ==
  /\ (\E f \in Range(pendingFunctors_) : f \notin Early) =>
        Signalled \/ loopPC \in {"dispatch", "handler"}
  /\ loopPC = "poll" /\ quit_ => Signalled

BatchOnlyWhileRunning == toRun # <<>> => loopPC \in {"run", "functor"}

LoopInv ==
  /\ TypeOK
  /\ WorkAnnounced
  /\ BatchOnlyWhileRunning
  /\ WakeupReadNeverBlocks
  /\ CallingFlagAccurate

(* A functor handed over after loop() began is run, even if no descriptor  *)
(* other than the eventfd ever becomes ready, unless the loop ends first.  *)
HandedOverRuns ==
  \A f \in Functors \ Early :
    (f \in Range(pendingFunctors_)) ~> (f \in Range(ran) \/ Stopped)

(* stop() ends the loop, from whichever thread it is called.               *)
StopEndsLoop == quit_ ~> Stopped

(* The loop implements the abstract executor: functors of the swapped      *)
(* vector come before the ones queued since.                               *)
Executor == INSTANCE TaskQueue WITH
  Task <- Functors,
  queue <- toRun \o pendingFunctors_,
  closed <- Stopped

ImplementsTaskQueue == Executor!SafeSpec

(* It also keeps the executor's promise to go on while tasks are queued,   *)
(* once the timerfd has expired.  Without that a functor the loop's own    *)
(* thread queued before loop() may wait: QueueInLoop wrote no wakeup for   *)
(* it, and the timerfd's expiry ends the poll it waits behind.             *)
KeepsExecuting == <>(timerChannel \in ready) => Executor!Fairness
=============================================================================
