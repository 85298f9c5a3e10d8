-------------------------- MODULE TimerQueue_proofs ---------------------------
(***************************************************************************)
(* Theorems about TimerQueue, for any set of timers, any delays and any    *)
(* length of a second.                                                     *)
(***************************************************************************)
EXTENDS TimerQueue, TLAPS

(* What OnePlace needs to be inductive: timers that are asked for are new, *)
(* running is set during a callback, and expiredTimers_ is handleRead's    *)
(* own.                                                                    *)
Placed ==
  /\ Reachable \cup deleted \subseteq allocated
  /\ pc = "callback" <=> running # NoTimer
  /\ pc \in {"loop", "destroyed"} => expiredTimers_ = {}

(* Why timers run in order while the clock is not set back: what has run   *)
(* is due before all that is left, what has expired before all that is in  *)
(* the map.                                                                *)
Ordered ==
  setBacks = 0 =>
    /\ lastRun <= now
    /\ \A t \in timers_ \cup expiredTimers_ : lastRun <= timer[t].expiration_
    /\ \A t \in expiredTimers_ :
         /\ timer[t].expiration_ < now
         /\ \A s \in timers_ : timer[t].expiration_ <= timer[s].expiration_

TimersInv == TypeOK /\ OnePlace /\ Placed /\ Ordered

-----------------------------------------------------------------------------
(* An interval cut to whole seconds is a natural number.                   *)
LEMMA ToIntNat == ASSUME NEW d \in Nat PROVE ToInt(d) \in Nat
BY TimeAssumption DEF ToInt

(* Asking for a timer keeps the Timer objects well typed.                  *)
LEMMA AllocateTyped ==
  ASSUME TypeOK,
         NEW t \in Timers, NEW delay \in Delays, NEW repeat \in BOOLEAN,
         Allocate(t, delay, repeat)
  PROVE  /\ allocated' \subseteq Timers
         /\ timer' \in [Timers -> [expiration_ : Nat, repeat_ : BOOLEAN,
                                   interval_ : Nat]]
<1>1. ToInt(delay) \in Nat
  BY ToIntNat, TimeAssumption
<1>2. NowAfter(delay) \in Nat
  BY TimeAssumption DEF NowAfter, TypeOK
<1> QED
  BY <1>1, <1>2 DEF Allocate, TypeOK

(* Every step keeps the state well typed.                                  *)
LEMMA TypeInductive == TypeOK /\ Placed /\ [Next]_vars => TypeOK'
<1> SUFFICES ASSUME TypeOK, Placed, [Next]_vars
             PROVE  TypeOK'
  OBVIOUS
<1> USE TimeAssumption DEF PC
<1>1. CASE Tick
  BY <1>1 DEF Tick, TypeOK
<1>12. CASE SetBack
  BY <1>12 DEF SetBack, TypeOK
<1>2. ASSUME NEW t \in Timers, NEW delay \in Delays, NEW repeat \in BOOLEAN,
             AskFromThread(t, delay, repeat)
      PROVE  TypeOK'
  <2>1. Allocate(t, delay, repeat)
    BY <1>2 DEF AskFromThread
  <2> QED
    BY <1>2, <2>1, AllocateTyped DEF AskFromThread, TypeOK
<1>3. ASSUME NEW t \in Timers, NEW delay \in Delays, NEW repeat \in BOOLEAN,
             AskFromLoop(t, delay, repeat)
      PROVE  TypeOK'
  <2>1. Allocate(t, delay, repeat)
    BY <1>3 DEF AskFromLoop
  <2> QED
    BY <1>3, <2>1, AllocateTyped DEF AskFromLoop, TypeOK
<1>4. ASSUME NEW t \in Timers, RunPending(t)
      PROVE  TypeOK'
  BY <1>4 DEF RunPending, TypeOK
<1>5. CASE AddTimer
  BY <1>5 DEF AddTimer, TypeOK
<1>6. CASE GetExpiredTimers
  BY <1>6 DEF GetExpiredTimers, Expired, TypeOK
<1>7. ASSUME NEW t \in Timers, RunTimer(t)
      PROVE  TypeOK'
  BY <1>7 DEF RunTimer, TypeOK
<1>8. CASE CallbackReturns
  <2>1. running \in Timers
    BY <1>8 DEF CallbackReturns, Placed, TypeOK
  <2>2. NowAfter(timer[running].interval_) \in Nat
    BY <2>1 DEF NowAfter, TypeOK
  <2>3. timer' \in [Timers -> [expiration_ : Nat, repeat_ : BOOLEAN, interval_ : Nat]]
    <3>1. CASE timer[running].repeat_
      BY <1>8, <2>1, <2>2, <3>1 DEF CallbackReturns, TypeOK
    <3>2. CASE ~timer[running].repeat_
      BY <1>8, <3>2 DEF CallbackReturns, TypeOK
    <3> QED
      BY <3>1, <3>2
  <2>4. adding' \in Timers \cup {NoTimer} /\ deleted' \subseteq Timers
    BY <1>8, <2>1 DEF CallbackReturns, TypeOK
  <2> QED
    BY <1>8, <2>3, <2>4 DEF CallbackReturns, TypeOK
<1>9. CASE FinishRead
  BY <1>9 DEF FinishRead, TypeOK
<1>10. CASE Destroy
  BY <1>10 DEF Destroy, TypeOK
<1>11. CASE UNCHANGED vars
  BY <1>11 DEF vars, TypeOK
<1> QED
  BY <1>1, <1>2, <1>3, <1>4, <1>5, <1>6, <1>7, <1>8, <1>9, <1>10, <1>11, <1>12
  DEF Next, Ask, LoopStep

(* Every step leaves a timer in one place at most, and nowhere once it is  *)
(* deleted.                                                                *)
LEMMA PlacesInductive ==
  TypeOK /\ OnePlace /\ Placed /\ [Next]_vars => OnePlace' /\ Placed'
<1> SUFFICES ASSUME TypeOK, OnePlace, Placed, [Next]_vars
             PROVE  OnePlace' /\ Placed'
  OBVIOUS
<1> USE NoTimerAssumption DEF TypeOK, PC, OnePlace, Placed, Reachable
<1>1. CASE Tick
  BY <1>1 DEF Tick
<1>12. CASE SetBack
  BY <1>12 DEF SetBack
<1>2. ASSUME NEW t \in Timers, NEW delay \in Delays, NEW repeat \in BOOLEAN,
             AskFromThread(t, delay, repeat)
      PROVE  OnePlace' /\ Placed'
  BY <1>2 DEF AskFromThread, Allocate
<1>3. ASSUME NEW t \in Timers, NEW delay \in Delays, NEW repeat \in BOOLEAN,
             AskFromLoop(t, delay, repeat)
      PROVE  OnePlace' /\ Placed'
  BY <1>3 DEF AskFromLoop, Allocate
<1>4. ASSUME NEW t \in Timers, RunPending(t)
      PROVE  OnePlace' /\ Placed'
  BY <1>4 DEF RunPending
<1>5. CASE AddTimer
  BY <1>5 DEF AddTimer
<1>6. CASE GetExpiredTimers
  BY <1>6 DEF GetExpiredTimers, Expired
<1>7. ASSUME NEW t \in Timers, RunTimer(t)
      PROVE  OnePlace' /\ Placed'
  BY <1>7 DEF RunTimer
<1>8. CASE CallbackReturns
  <2>1. CASE timer[running].repeat_
    BY <1>8, <2>1 DEF CallbackReturns
  <2>2. CASE ~timer[running].repeat_
    BY <1>8, <2>2 DEF CallbackReturns
  <2> QED
    BY <2>1, <2>2
<1>9. CASE FinishRead
  BY <1>9 DEF FinishRead
<1>10. CASE Destroy
  BY <1>10 DEF Destroy
<1>11. CASE UNCHANGED vars
  BY <1>11 DEF vars
<1> QED
  BY <1>1, <1>2, <1>3, <1>4, <1>5, <1>6, <1>7, <1>8, <1>9, <1>10, <1>11, <1>12
  DEF Next, Ask, LoopStep

(* Every step keeps the expirations in order: addTimer turns away what     *)
(* lies before the clock, and getExpiredTimers takes all that does.        *)
LEMMA OrderInductive ==
  TypeOK /\ OnePlace /\ Placed /\ Ordered /\ [Next]_vars => Ordered'
<1> SUFFICES ASSUME TypeOK, OnePlace, Placed, Ordered, [Next]_vars
             PROVE  Ordered'
  OBVIOUS
<1> USE TimeAssumption DEF TypeOK, Ordered
<1>1. CASE Tick
  BY <1>1 DEF Tick
<1>12. CASE SetBack
  BY <1>12 DEF SetBack
<1>2. ASSUME NEW t \in Timers, NEW delay \in Delays, NEW repeat \in BOOLEAN,
             Allocate(t, delay, repeat),
             UNCHANGED <<now, timers_, expiredTimers_, lastRun, setBacks>>
      PROVE  Ordered'
  <2>1. t \notin timers_ \cup expiredTimers_
    BY <1>2 DEF Allocate, Placed, Reachable
  <2>2. \A s \in Timers \ {t} : timer'[s] = timer[s]
    BY <1>2 DEF Allocate
  <2> QED
    BY <1>2, <2>1, <2>2
<1>3. ASSUME NEW t \in Timers, NEW delay \in Delays, NEW repeat \in BOOLEAN,
             AskFromThread(t, delay, repeat) \/ AskFromLoop(t, delay, repeat)
      PROVE  Ordered'
  BY <1>2, <1>3 DEF AskFromThread, AskFromLoop
<1>4. ASSUME NEW t \in Timers, RunPending(t)
      PROVE  Ordered'
  BY <1>4 DEF RunPending
<1>5. CASE AddTimer
  <2>1. \A s \in timers_' \ timers_ : timer[s].expiration_ >= now
    BY <1>5 DEF AddTimer
  <2>2. \A s \in timers_' : timer[s].expiration_ \in Nat
    BY <1>5 DEF AddTimer
  <2> QED
    BY <1>5, <2>1, <2>2 DEF AddTimer
<1>6. CASE GetExpiredTimers
  BY <1>6 DEF GetExpiredTimers, Expired
<1>7. ASSUME NEW t \in Timers, RunTimer(t)
      PROVE  Ordered'
  BY <1>7 DEF RunTimer
<1>8. CASE CallbackReturns
  <2>1. running \in Timers /\ running \notin timers_ \cup expiredTimers_
    BY <1>8 DEF CallbackReturns, OnePlace, Placed
  <2>2. \A s \in Timers \ {running} : timer'[s] = timer[s]
    BY <1>8 DEF CallbackReturns
  <2> QED
    BY <1>8, <2>1, <2>2 DEF CallbackReturns
<1>9. CASE FinishRead
  BY <1>9 DEF FinishRead
<1>10. CASE Destroy
  BY <1>10 DEF Destroy
<1>11. CASE UNCHANGED vars
  BY <1>11 DEF vars
<1> QED
  BY <1>1, <1>3, <1>4, <1>5, <1>6, <1>7, <1>8, <1>9, <1>10, <1>11, <1>12
  DEF Next, Ask, LoopStep

-----------------------------------------------------------------------------
(* The inductive invariant: the state is well typed, each timer is in one  *)
(* place, and the expirations are in order.                                *)
THEOREM TimersInvariant == Spec => []TimersInv
<1>1. Init => TimersInv
  <2> SUFFICES ASSUME Init PROVE TimersInv
    OBVIOUS
  <2>1. TypeOK
    BY TimeAssumption DEF Init, TypeOK, PC
  <2>2. OnePlace /\ Placed
    BY NoTimerAssumption DEF Init, OnePlace, Placed, Reachable
  <2>3. Ordered
    BY DEF Init, Ordered
  <2> QED
    BY <2>1, <2>2, <2>3 DEF TimersInv
<1>2. TimersInv /\ [Next]_vars => TimersInv'
  BY TypeInductive, PlacesInductive, OrderInductive DEF TimersInv
<1> QED
  BY <1>1, <1>2, PTL DEF Spec

(* The state is well typed in every reachable state.                       *)
THEOREM TypeCorrect == Spec => []TypeOK
<1>1. TimersInv => TypeOK
  BY DEF TimersInv
<1> QED
  BY <1>1, TimersInvariant, PTL

(* However the callbacks of timers add timers while resetTimers goes       *)
(* through the expired ones, and wherever the clock is set back to, none   *)
(* is used after its deletion or in two places at a time.                  *)
THEOREM TimersInOnePlace == Spec => []OnePlace
<1>1. TimersInv => OnePlace
  BY DEF TimersInv
<1> QED
  BY <1>1, TimersInvariant, PTL

(* Timers run in the order of their expirations, whoever asks for them,    *)
(* until the clock is set back.                                            *)
THEOREM TimersFireInOrder == Spec => FiresInOrder
<1> DEFINE Due == running' \in Timers \ {running} =>
                     setBacks > 0 \/ lastRun <= timer[running'].expiration_
<1>1. TimersInv /\ [Next]_vars => [Due]_vars
  <2> SUFFICES ASSUME TimersInv, [Next]_vars, running' \in Timers \ {running}
               PROVE  setBacks > 0 \/ lastRun <= timer[running'].expiration_
    OBVIOUS
  <2>1. CASE \E t \in Timers : RunTimer(t)
    BY <2>1 DEF RunTimer, TimersInv, Ordered, TypeOK
  <2>2. CASE CallbackReturns
    BY <2>2, NoTimerAssumption DEF CallbackReturns
  <2>3. CASE running' = running
    BY <2>3
  <2>4. running' = running \/ CallbackReturns \/ \E t \in Timers : RunTimer(t)
    BY DEF Next, Ask, LoopStep, Tick, SetBack, AskFromThread, AskFromLoop, RunPending, AddTimer,
           GetExpiredTimers, FinishRead, Destroy, vars
  <2> QED
    BY <2>1, <2>2, <2>3, <2>4
<1> QED
  BY <1>1, TimersInvariant, PTL DEF Spec, FiresInOrder
=============================================================================
