------------------------------ MODULE TimerQueue ------------------------------
(***************************************************************************)
(* One TimerQueue: the loop's thread, which adds and runs timers, and the  *)
(* other threads that ask for timers with EventLoop's addTimerRun...       *)
(* functions.  Whoever asks allocates the Timer and reads the clock; it is *)
(* addTimer, on the loop's thread, that reads the clock again and inserts  *)
(* the timer or not.  The clock may move on between any two steps, and be  *)
(* set back.                                                               *)
(*                                                                         *)
(* The timerfd is never read, so handleRead runs on every iteration once   *)
(* its first period is over (module EventLoop); here it may run whenever   *)
(* the loop is between two handlers.                                       *)
(***************************************************************************)
EXTENDS Integers

CONSTANTS
  Timers,      \* the Timer objects; each is asked for once
  Second,      \* the number of clock ticks in a second
  Delays,      \* the delays and intervals asked for, in ticks
  MaxTime,     \* Bound: the clock stops there
  MaxSetBacks, \* Bound: how often it is set back
  NoTimer

ASSUME TimeAssumption ==
  /\ Second \in Nat \ {0}
  /\ Delays \subseteq Nat
  /\ MaxTime \in Nat
  /\ MaxSetBacks \in Nat
ASSUME NoTimerAssumption == NoTimer \notin Timers

VARIABLES
  now,             \* the clock
  allocated,       \* the Timer objects created so far
  timer,           \* each Timer's members
  pending,         \* timers whose addTimer is queued in the loop
  adding,          \* the timer addTimer is called with
  timers_,
  expiredTimers_,  \* those resetTimers has not reached yet
  running,         \* the timer resetTimers has reached
  pc,              \* where the loop's thread is
  deleted,         \* timers deleted
  lastRun,         \* history: the expiration of the last timer run
  setBacks         \* history: how often the clock was set back

vars == <<now, allocated, timer, pending, adding, timers_, expiredTimers_, running, pc,
          deleted, lastRun, setBacks>>

PC == {"loop", "resetTimers", "callback", "destroyed"}

TypeOK ==
  /\ now \in 0..MaxTime
  /\ allocated \subseteq Timers
  /\ timer \in [Timers -> [expiration_ : Nat, repeat_ : BOOLEAN, interval_ : Nat]]
  /\ pending \subseteq Timers
  /\ adding \in Timers \cup {NoTimer}
  /\ timers_ \subseteq Timers
  /\ expiredTimers_ \subseteq Timers
  /\ running \in Timers \cup {NoTimer}
  /\ pc \in PC
  /\ deleted \subseteq Timers
  /\ lastRun \in Nat
  /\ setBacks \in 0..MaxSetBacks

Init ==
  /\ now = 0
  /\ timer = [t \in Timers |-> [expiration_ |-> 0, repeat_ |-> FALSE,
                               interval_ |-> 0]]
  /\ allocated = {}
  /\ pending = {}
  /\ adding = NoTimer
  /\ timers_ = {}
  /\ expiredTimers_ = {}
  /\ running = NoTimer
  /\ pc = "loop"
  /\ deleted = {}
  /\ lastRun = 0
  /\ setBacks = 0

(* Where a timer that is still of use can be.                              *)
Reachable ==
  pending \cup timers_ \cup expiredTimers_ \cup ({adding, running} \ {NoTimer})

-----------------------------------------------------------------------------
(* The clock. *)

Tick ==
  /\ now < MaxTime
  /\ now' = now + 1
  /\ UNCHANGED <<allocated, timer, pending, adding, timers_, expiredTimers_,
                 running, pc, deleted, lastRun, setBacks>>

(* Timestamp::now reads the time of day, which can be set.                 *)
SetBack ==
  /\ setBacks < MaxSetBacks
  /\ now' \in 0..(now - 1)
  /\ setBacks' = setBacks + 1
  /\ UNCHANGED <<allocated, timer, pending, adding, timers_, expiredTimers_,
                 running, pc, deleted, lastRun>>

-----------------------------------------------------------------------------
(* Asking for a timer. *)

(* Seeded fault: an interval that ends one tick early, below zero for a    *)
(* fraction of a second.                                                   *)
FaultOneEarly(d) == (d \div Second) * Second - 1

(* Timer's interval_ is an int: the fraction of a second is cut off.       *)
ToInt(d) == (d \div Second) * Second

(* Timestamp::nowAfter, in ticks rather than microseconds.                 *)
NowAfter(d) == now + d

(* Bound: a Timer is created once.                                         *)
Allocate(t, delay, repeat) ==
  /\ t \notin allocated
  /\ allocated' = allocated \cup {t}
  /\ timer' = [timer EXCEPT ![t] =
                 [expiration_ |-> NowAfter(delay), repeat_ |-> repeat,
                  interval_ |-> IF repeat THEN ToInt(delay) ELSE 0]]

(* addTimerRunAfter and addTimerRunEvery on another thread: RunInLoop      *)
(* queues addTimer.                                                        *)
AskFromThread(t, delay, repeat) ==
  /\ pc # "destroyed"
  /\ Allocate(t, delay, repeat)
  /\ pending' = pending \cup {t}
  /\ UNCHANGED <<now, adding, timers_, expiredTimers_, running, pc, deleted,
                 lastRun, setBacks>>

(* On the loop's thread, in a callback or another handler, it calls it.    *)
AskFromLoop(t, delay, repeat) ==
  /\ pc \in {"loop", "callback"}
  /\ adding = NoTimer
  /\ Allocate(t, delay, repeat)
  /\ adding' = t
  /\ UNCHANGED <<now, pending, timers_, expiredTimers_, running, pc, deleted,
                 lastRun, setBacks>>

(* doPendingFunctors reaches the functor.                                  *)
RunPending(t) ==
  /\ pc = "loop"
  /\ adding = NoTimer
  /\ t \in pending
  /\ pending' = pending \ {t}
  /\ adding' = t
  /\ UNCHANGED <<now, allocated, timer, timers_, expiredTimers_, running, pc,
                 deleted, lastRun, setBacks>>

(* Seeded fault: a timer inserted whether or not its time has passed.      *)
FaultAddAnyway ==
  /\ adding # NoTimer
  /\ timers_' = timers_ \cup {adding}
  /\ adding' = NoTimer
  /\ UNCHANGED <<now, allocated, timer, pending, expiredTimers_, running, pc,
                 deleted, lastRun, setBacks>>

(* A timer whose time has passed is not inserted, and addTimer's result,   *)
(* false, is not looked at.                                                *)
AddTimer ==
  /\ adding # NoTimer
  /\ timers_' = timers_ \cup {t \in {adding} : timer[t].expiration_ >= now}
  /\ adding' = NoTimer
  /\ UNCHANGED <<now, allocated, timer, pending, expiredTimers_, running, pc,
                 deleted, lastRun, setBacks>>

-----------------------------------------------------------------------------
(* handleRead. *)

Expired == {t \in timers_ : timer[t].expiration_ < now}

(* Seeded faults: the expired timers left in the map, and all of the map   *)
(* erased.                                                                 *)
FaultNotErased ==
  /\ pc = "loop"
  /\ adding = NoTimer
  /\ expiredTimers_' = Expired
  /\ pc' = "resetTimers"
  /\ UNCHANGED <<now, allocated, timer, pending, adding, timers_, running,
                 deleted, lastRun, setBacks>>

FaultEraseAll ==
  /\ pc = "loop"
  /\ adding = NoTimer
  /\ expiredTimers_' = Expired
  /\ timers_' = {}
  /\ pc' = "resetTimers"
  /\ UNCHANGED <<now, allocated, timer, pending, adding, running, deleted,
                 lastRun, setBacks>>

(* getExpiredTimers: lower_bound(now), so a timer due now is not taken.    *)
GetExpiredTimers ==
  /\ pc = "loop"
  /\ adding = NoTimer
  /\ expiredTimers_' = Expired
  /\ timers_' = timers_ \ Expired
  /\ pc' = "resetTimers"
  /\ UNCHANGED <<now, allocated, timer, pending, adding, running, deleted,
                 lastRun, setBacks>>

(* The map is ordered by expiration, equal ones in any order here.         *)
RunTimer(t) ==
  /\ pc = "resetTimers"
  /\ adding = NoTimer
  /\ t \in expiredTimers_
  /\ \A s \in expiredTimers_ : timer[t].expiration_ <= timer[s].expiration_
  /\ expiredTimers_' = expiredTimers_ \ {t}
  /\ running' = t
  /\ lastRun' = timer[t].expiration_
  /\ pc' = "callback"
  /\ UNCHANGED <<now, allocated, timer, pending, adding, timers_, deleted,
                 setBacks>>

(* The callback returns: a repeated timer is reset, and addTimer comes     *)
(* next with another look at the clock; another one is deleted.            *)
CallbackReturns ==
  /\ pc = "callback"
  /\ adding = NoTimer
  /\ IF timer[running].repeat_
     THEN /\ timer' = [timer EXCEPT ![running].expiration_ =
                                     NowAfter(timer[running].interval_)]
          /\ adding' = running
          /\ UNCHANGED deleted
     ELSE /\ deleted' = deleted \cup {running}
          /\ UNCHANGED <<timer, adding>>
  /\ running' = NoTimer
  /\ pc' = "resetTimers"
  /\ UNCHANGED <<now, allocated, pending, timers_, expiredTimers_, lastRun,
                 setBacks>>

FinishRead ==
  /\ pc = "resetTimers"
  /\ adding = NoTimer
  /\ expiredTimers_ = {}
  /\ pc' = "loop"
  /\ UNCHANGED <<now, allocated, timer, pending, adding, timers_,
                 expiredTimers_, running, deleted, lastRun, setBacks>>

(* ~EventLoop: ~TimerQueue deletes the timers in the map, the functors     *)
(* still queued go without having run.                                     *)
Destroy ==
  /\ pc = "loop"
  /\ adding = NoTimer
  /\ deleted' = deleted \cup timers_
  /\ timers_' = {}
  /\ pending' = {}
  /\ pc' = "destroyed"
  /\ UNCHANGED <<now, allocated, timer, adding, expiredTimers_, running,
                 lastRun, setBacks>>

-----------------------------------------------------------------------------
LoopStep ==
  \/ AddTimer
  \/ GetExpiredTimers
  \/ \E t \in Timers : RunTimer(t)
  \/ CallbackReturns
  \/ FinishRead

Ask ==
  \E t \in Timers, delay \in Delays, repeat \in BOOLEAN :
    AskFromThread(t, delay, repeat) \/ AskFromLoop(t, delay, repeat)

Next ==
  \/ Tick
  \/ SetBack
  \/ Ask
  \/ \E t \in Timers : RunPending(t)
  \/ LoopStep
  \/ Destroy

(* Time passes; the loop's thread runs, calls handleRead again and again   *)
(* and runs what is queued.                                                *)
Fairness ==
  /\ WF_vars(Tick)
  /\ WF_vars(LoopStep)
  /\ \A t \in Timers : SF_vars(RunPending(t))

Spec == Init /\ [][Next]_vars /\ Fairness

-----------------------------------------------------------------------------
(* Properties. *)

(* No timer is used after it was deleted, and none is deleted twice: a     *)
(* Timer is in one place at a time, whatever the callbacks add while       *)
(* resetTimers goes through expiredTimers_.                                *)
OnePlace ==
  /\ deleted \cap Reachable = {}
  /\ \A t \in timers_ : t \notin pending \cup expiredTimers_ \cup {adding, running}
  /\ \A t \in expiredTimers_ : t \notin pending \cup {adding, running}
  /\ adding \notin pending /\ running \notin pending
  /\ adding = running => adding = NoTimer

(* Timers run in the order of their expirations, across calls of           *)
(* handleRead as well, as long as the clock is not set back: nothing is    *)
(* inserted behind a timer that has run.  (For this addTimer turns away    *)
(* timers whose time has passed.)                                          *)
FiresInOrder ==
  [][running' \in Timers \ {running} =>
       setBacks > 0 \/ lastRun <= timer[running'].expiration_]_vars

(* A timer in the map is run once the clock is past its time, also one the *)
(* clock was set back from, unless the loop is destroyed before.           *)
InsertedRuns ==
  \A t \in Timers :
    (t \in timers_ /\ timer[t].expiration_ < MaxTime)
      ~> (running = t \/ pc = "destroyed")
=============================================================================
