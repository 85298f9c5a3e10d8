--------------------------- MODULE EventLoop_proofs ---------------------------
(***************************************************************************)
(* Theorems about EventLoop, for any sets of callers, functors and         *)
(* channels.                                                               *)
(***************************************************************************)
EXTENDS EventLoop, SequenceTheorems, TLAPS

(* The state is well typed in every reachable state: what QueueInLoop,     *)
(* doPendingFunctors and Poll store stays in the sets they draw from.      *)
THEOREM TypeCorrect == Spec => []TypeOK
<1>1. Init => TypeOK
  <2> SUFFICES ASSUME Init PROVE TypeOK
    OBVIOUS
  <2>1. <<>> \in Seq(Functors)
    OBVIOUS
  <2>2. callerPC \in [Callers -> {"idle", "wakeup"}]
    BY DEF Init
  <2> QED
    BY <2>1, <2>2 DEF Init, TypeOK, LoopPC
<1>2. TypeOK /\ [Next]_vars => TypeOK'
  <2> SUFFICES ASSUME TypeOK, [Next]_vars
               PROVE  TypeOK'
    OBVIOUS
  <2> USE DEF TypeOK, LoopPC, queues
  <2>1. CASE EnterLoop
    BY <2>1 DEF EnterLoop
  <2>2. CASE CheckQuit
    BY <2>2 DEF CheckQuit
  <2>3. CASE Poll
    BY <2>3 DEF Poll, ReadyChannels
  <2>4. CASE PollInterrupted
    BY <2>4 DEF PollInterrupted
  <2>5. CASE HandleWakeup
    BY <2>5 DEF HandleWakeup
  <2>6. ASSUME NEW ch \in Channels \cup {timerChannel}, HandleEvent(ch)
        PROVE  TypeOK'
    BY <2>6 DEF HandleEvent
  <2>7. CASE HandlerReturns
    BY <2>7 DEF HandlerReturns
  <2>8. CASE DoPendingFunctors
    BY <2>8 DEF DoPendingFunctors
  <2>9. CASE RunFunctor
    BY <2>9 DEF RunFunctor
  <2>10. CASE FunctorReturns
    BY <2>10 DEF FunctorReturns
  <2>11. CASE FinishFunctors
    BY <2>11 DEF FinishFunctors
  <2>12. ASSUME NEW f \in Functors, QueueFromLoop(f)
         PROVE  TypeOK'
    BY <2>12 DEF QueueFromLoop
  <2>13. ASSUME NEW f \in Functors, RunFromLoop(f)
         PROVE  TypeOK'
    BY <2>13 DEF RunFromLoop
  <2>14. CASE StopFromLoop
    BY <2>14 DEF StopFromLoop
  <2>15. ASSUME NEW t \in Callers, NEW f \in Functors, QueueFromCaller(t, f)
         PROVE  TypeOK'
    BY <2>15 DEF QueueFromCaller
  <2>16. ASSUME NEW t \in Callers, StopFromCaller(t)
         PROVE  TypeOK'
    BY <2>16 DEF StopFromCaller
  <2>17. ASSUME NEW t \in Callers, Wakeup(t)
         PROVE  TypeOK'
    BY <2>17 DEF Wakeup
  <2>18. ASSUME NEW ch \in Channels, EventArrives(ch)
         PROVE  TypeOK'
    BY <2>18 DEF EventArrives
  <2>19. CASE TimerExpires
    BY <2>19 DEF TimerExpires
  <2>20. CASE UNCHANGED vars
    BY <2>20 DEF vars
  <2> QED
    BY <2>1, <2>2, <2>3, <2>4, <2>5, <2>6, <2>7, <2>8, <2>9, <2>10, <2>11,
       <2>12, <2>13, <2>14, <2>15, <2>16, <2>17, <2>18, <2>19, <2>20
    DEF Next, LoopStep, UserStep, CallerStep, KernelStep
<1> QED
  BY <1>1, <1>2, PTL DEF Spec

-----------------------------------------------------------------------------
(* What the sequences of functors do under the loop's operations.          *)

LEMMA RangeOfAppend ==
  ASSUME NEW S, NEW s \in Seq(S), NEW e \in S
  PROVE  Range(Append(s, e)) = Range(s) \cup {e}
<1>1. /\ DOMAIN s = 1..Len(s)
      /\ Len(s) \in Nat
      /\ DOMAIN Append(s, e) = 1..(Len(s) + 1)
      /\ \A i \in 1..Len(s) : Append(s, e)[i] = s[i]
      /\ Append(s, e)[Len(s) + 1] = e
  OBVIOUS
<1>2. ASSUME NEW x \in Range(Append(s, e)) PROVE x \in Range(s) \cup {e}
  <2>1. PICK i \in 1..(Len(s) + 1) : x = Append(s, e)[i]
    BY <1>1 DEF Range
  <2>2. i \in 1..Len(s) \/ i = Len(s) + 1
    BY <1>1
  <2> QED
    BY <1>1, <2>1, <2>2 DEF Range
<1>3. ASSUME NEW x \in Range(s) PROVE x \in Range(Append(s, e))
  <2>1. PICK i \in 1..Len(s) : x = s[i]
    BY <1>1 DEF Range
  <2>2. i \in 1..(Len(s) + 1)
    BY <1>1
  <2> QED
    BY <1>1, <2>1, <2>2 DEF Range
<1>4. e \in Range(Append(s, e))
  <2>1. Len(s) + 1 \in 1..(Len(s) + 1)
    BY <1>1
  <2> QED
    BY <1>1, <2>1 DEF Range
<1> QED
  BY <1>2, <1>3, <1>4

LEMMA RangeOfEmpty == Range(<<>>) = {}
  BY DEF Range
-----------------------------------------------------------------------------
(* In every reachable state of the loop no wakeup is lost, the wakeup      *)
(* channel's read does not block, and callingPendingFunctors_ tells the    *)
(* truth (QueueInLoop, stop, handleRead, doPendingFunctors).  NoLostWakeup *)
(* is not inductive: between polls the work may be announced by the loop's *)
(* own position only, which WorkAnnounced says.                            *)
THEOREM LoopInvariant == Spec => []LoopInv
<1>1. Init => LoopInv
  <2> SUFFICES ASSUME Init PROVE LoopInv
    OBVIOUS
  <2>1. TypeOK
    <3>1. <<>> \in Seq(Functors)
      OBVIOUS
    <3>2. callerPC \in [Callers -> {"idle", "wakeup"}]
      BY DEF Init
    <3> QED
      BY <3>1, <3>2 DEF Init, TypeOK, LoopPC
  <2>2. WorkAnnounced /\ BatchOnlyWhileRunning
    BY RangeOfEmpty DEF Init, WorkAnnounced, BatchOnlyWhileRunning
  <2> QED
    BY <2>1, <2>2 DEF Init, LoopInv, WakeupReadNeverBlocks, CallingFlagAccurate
<1>2. LoopInv /\ TypeOK' /\ [Next]_vars => LoopInv'
  <2> SUFFICES ASSUME LoopInv, TypeOK', [Next]_vars
               PROVE  LoopInv'
    OBVIOUS
  <2> USE ChannelAssumption
      DEF LoopInv, TypeOK, WorkAnnounced, BatchOnlyWhileRunning,
          WakeupReadNeverBlocks, CallingFlagAccurate, Signalled, LoopPC, queues
  <2>1. CASE EnterLoop
    BY <2>1 DEF EnterLoop
  <2>2. CASE CheckQuit
    BY <2>2 DEF CheckQuit
  <2>3. CASE Poll
    BY <2>3 DEF Poll, ReadyChannels
  <2>4. CASE PollInterrupted
    BY <2>4 DEF PollInterrupted
  <2>5. CASE HandleWakeup
    BY <2>5 DEF HandleWakeup
  <2>6. ASSUME NEW ch \in Channels \cup {timerChannel}, HandleEvent(ch)
        PROVE  LoopInv'
    BY <2>6 DEF HandleEvent
  <2>7. CASE HandlerReturns
    BY <2>7 DEF HandlerReturns
  <2>8. CASE DoPendingFunctors
    BY <2>8, RangeOfEmpty DEF DoPendingFunctors
  <2>9. CASE RunFunctor
    BY <2>9 DEF RunFunctor
  <2>10. CASE FunctorReturns
    BY <2>10 DEF FunctorReturns
  <2>11. CASE FinishFunctors
    BY <2>11 DEF FinishFunctors
  <2>12. ASSUME NEW f \in Functors, QueueFromLoop(f)
         PROVE  LoopInv'
    <3>1. Range(pendingFunctors_') = Range(pendingFunctors_) \cup {f}
      BY <2>12, RangeOfAppend DEF QueueFromLoop
    <3>2. loopPC = "start" \/ loopPC = "handler" \/ loopPC = "functor"
      BY <2>12 DEF QueueFromLoop, UserCode
    <3>3. WorkAnnounced'
      BY <2>12, <3>1, <3>2 DEF QueueFromLoop, OwnThreadWakes
    <3> QED
      BY <2>12, <3>3 DEF QueueFromLoop, OwnThreadWakes
  <2>13. ASSUME NEW f \in Functors, RunFromLoop(f)
         PROVE  LoopInv'
    BY <2>13 DEF RunFromLoop
  <2>14. CASE StopFromLoop
    BY <2>14 DEF StopFromLoop, UserCode
  <2>15. ASSUME NEW t \in Callers, NEW f \in Functors, QueueFromCaller(t, f)
         PROVE  LoopInv'
    <3>1. callerPC'[t] = "wakeup"
      BY <2>15 DEF QueueFromCaller
    <3> QED
      BY <2>15, <3>1 DEF QueueFromCaller
  <2>16. ASSUME NEW t \in Callers, StopFromCaller(t)
         PROVE  LoopInv'
    <3>1. callerPC'[t] = "wakeup"
      BY <2>16 DEF StopFromCaller
    <3> QED
      BY <2>16, <3>1 DEF StopFromCaller
  <2>17. ASSUME NEW t \in Callers, Wakeup(t)
         PROVE  LoopInv'
    BY <2>17 DEF Wakeup
  <2>18. ASSUME NEW ch \in Channels, EventArrives(ch)
         PROVE  LoopInv'
    BY <2>18 DEF EventArrives
  <2>19. CASE TimerExpires
    BY <2>19 DEF TimerExpires
  <2>20. CASE UNCHANGED vars
    BY <2>20 DEF vars
  <2> QED
    BY <2>1, <2>2, <2>3, <2>4, <2>5, <2>6, <2>7, <2>8, <2>9, <2>10, <2>11,
       <2>12, <2>13, <2>14, <2>15, <2>16, <2>17, <2>18, <2>19, <2>20
    DEF Next, LoopStep, UserStep, CallerStep, KernelStep
<1> QED
  BY <1>1, <1>2, TypeCorrect, PTL DEF Spec

(* No wakeup is lost (QueueInLoop, stop and wakeup against epoll_wait).    *)
THEOREM WakeupsNotLost == Spec => []NoLostWakeup
<1>1. LoopInv => NoLostWakeup
  BY DEF LoopInv, WorkAnnounced, NoLostWakeup
<1> QED
  BY <1>1, LoopInvariant, PTL

(* handleRead never blocks the loop's thread on the eventfd.               *)
THEOREM ReadNeverBlocks == Spec => []WakeupReadNeverBlocks
<1>1. LoopInv => WakeupReadNeverBlocks
  BY DEF LoopInv
<1> QED
  BY <1>1, LoopInvariant, PTL

(* callingPendingFunctors_ tells where the loop's thread is, so what a     *)
(* functor queues is announced (QueueInLoop).                              *)
THEOREM FlagAccurate == Spec => []CallingFlagAccurate
<1>1. LoopInv => CallingFlagAccurate
  BY DEF LoopInv
<1> QED
  BY <1>1, LoopInvariant, PTL

-----------------------------------------------------------------------------
(* The loop implements the executor.                                       *)

LEMMA ConcatAppend ==
  ASSUME NEW S, NEW s \in Seq(S), NEW t \in Seq(S), NEW e \in S
  PROVE  s \o Append(t, e) = Append(s \o t, e)
<1> DEFINE l == s \o Append(t, e)
           r == Append(s \o t, e)
<1>1. /\ l \in Seq(S)
      /\ Len(l) = Len(s) + Len(t) + 1
      /\ \A i \in 1..Len(l) :
            l[i] = IF i <= Len(s) THEN s[i] ELSE Append(t, e)[i - Len(s)]
  <2>1. Append(t, e) \in Seq(S) /\ Len(Append(t, e)) = Len(t) + 1
    BY AppendProperties
  <2>2. Len(l) = Len(s) + (Len(t) + 1)
    BY <2>1, ConcatProperties
  <2>3. Len(s) + (Len(t) + 1) = Len(s) + Len(t) + 1
    BY LenProperties
  <2>4. \A i \in 1..Len(s) + Len(Append(t, e)) :
          l[i] = IF i <= Len(s) THEN s[i] ELSE Append(t, e)[i - Len(s)]
    BY <2>1, ConcatProperties
  <2>5. l \in Seq(S)
    BY <2>1, ConcatProperties
  <2> HIDE DEF l
  <2> QED
    BY <2>1, <2>2, <2>3, <2>4, <2>5
<1>2. /\ r \in Seq(S)
      /\ Len(r) = Len(s) + Len(t) + 1
      /\ \A i \in 1..Len(s) + Len(t) :
            r[i] = IF i <= Len(s) THEN s[i] ELSE t[i - Len(s)]
      /\ r[Len(s) + Len(t) + 1] = e
  BY ConcatProperties, AppendProperties
<1>3. ASSUME NEW i \in 1..Len(l) PROVE l[i] = r[i]
  <2>1. CASE i <= Len(s)
    BY <2>1, <1>1, <1>2
  <2>2. CASE i > Len(s) /\ i <= Len(s) + Len(t)
    BY <2>2, <1>1, <1>2, AppendProperties
  <2>3. CASE i = Len(s) + Len(t) + 1
    BY <2>3, <1>1, <1>2, AppendProperties
  <2> QED
    BY <1>1, <2>1, <2>2, <2>3
<1> QED
  BY <1>1, <1>2, <1>3, SeqEqual

LEMMA ConcatHeadTail ==
  ASSUME NEW S, NEW s \in Seq(S), NEW t \in Seq(S), s # <<>>
  PROVE  /\ s \o t # <<>>
         /\ Head(s \o t) = Head(s)
         /\ Tail(s \o t) = Tail(s) \o t
<1>1. /\ Len(s) \in Nat \ {0}
      /\ Len(t) \in Nat
  BY EmptySeq, LenProperties
<1>2. s \o t # <<>>
  BY ConcatEqualIffEmpty
<1>3. Head(s \o t) = Head(s)
  BY <1>1, ConcatProperties
<1>4. /\ Tail(s) \in Seq(S)
      /\ Len(Tail(s)) = Len(s) - 1
      /\ \A i \in 1..Len(Tail(s)) : Tail(s)[i] = s[i + 1]
  BY HeadTailProperties
<1>5. /\ Tail(s \o t) \in Seq(S)
      /\ Len(Tail(s \o t)) = Len(s) + Len(t) - 1
      /\ \A i \in 1..Len(Tail(s \o t)) : Tail(s \o t)[i] = (s \o t)[i + 1]
  BY <1>2, ConcatProperties, HeadTailProperties
<1>6. /\ Tail(s) \o t \in Seq(S)
      /\ Len(Tail(s) \o t) = Len(s) - 1 + Len(t)
      /\ \A i \in 1..Len(s) - 1 + Len(t) : (Tail(s) \o t)[i] =
            IF i <= Len(s) - 1 THEN Tail(s)[i] ELSE t[i - (Len(s) - 1)]
  BY <1>4, ConcatProperties
<1>7. ASSUME NEW i \in 1..Len(Tail(s \o t))
      PROVE  Tail(s \o t)[i] = (Tail(s) \o t)[i]
  <2>1. i \in 1..Len(s) - 1 + Len(t) /\ i + 1 \in 1..Len(s) + Len(t)
    BY <1>1, <1>5
  <2>2. (s \o t)[i + 1] = IF i + 1 <= Len(s) THEN s[i + 1]
                                             ELSE t[i + 1 - Len(s)]
    BY <2>1, ConcatProperties
  <2>3. CASE i <= Len(s) - 1
    BY <1>1, <1>4, <1>5, <1>6, <2>1, <2>2, <2>3
  <2>4. CASE i > Len(s) - 1
    <3>1. i + 1 - Len(s) = i - (Len(s) - 1)
      BY <1>1, <2>1
    <3> QED
      BY <1>1, <1>5, <1>6, <2>1, <2>2, <2>4, <3>1
  <2> QED
    BY <1>1, <2>3, <2>4
<1>8. Tail(s \o t) = Tail(s) \o t
  BY <1>1, <1>5, <1>6, <1>7, SeqEqual
<1> QED
  BY <1>2, <1>3, <1>8

(* Every behaviour of the loop is one of the abstract executor: a functor  *)
(* handed over with QueueInLoop runs at most once, and functors run in the *)
(* order they were queued, the swapped batch before what came later.       *)
THEOREM ImplementsExecutor == Spec => ImplementsTaskQueue
<1>1. Init => Executor!Init
  BY ConcatEmptySeq DEF Init, Executor!Init, Stopped
<1>2. LoopInv /\ [Next]_vars => [Executor!Next]_(Executor!vars)
  <2> SUFFICES ASSUME LoopInv, [Next]_vars
               PROVE  [Executor!Next]_(Executor!vars)
    OBVIOUS
  <2> USE DEF LoopInv, TypeOK, LoopPC, queues, Stopped
  <2> DEFINE Stutter == UNCHANGED <<toRun \o pendingFunctors_, ran, Stopped>>
  <2>a. Stutter => UNCHANGED Executor!vars
    BY DEF Executor!vars
  <2>1. CASE EnterLoop
    <3>1. CASE quit_
      BY <2>1, <3>1 DEF EnterLoop, Executor!Next, Executor!Close
    <3>2. CASE ~quit_
      BY <2>a, <2>1, <3>2 DEF EnterLoop
    <3> QED
      BY <3>1, <3>2
  <2>2. CASE CheckQuit
    <3>1. CASE quit_
      BY <2>2, <3>1 DEF CheckQuit, Executor!Next, Executor!Close
    <3>2. CASE ~quit_
      BY <2>a, <2>2, <3>2 DEF CheckQuit
    <3> QED
      BY <3>1, <3>2
  <2>3. CASE Poll
    BY <2>a, <2>3 DEF Poll
  <2>4. CASE PollInterrupted
    BY <2>a, <2>4 DEF PollInterrupted
  <2>5. CASE HandleWakeup
    BY <2>a, <2>5 DEF HandleWakeup
  <2>6. ASSUME NEW ch \in Channels \cup {timerChannel}, HandleEvent(ch)
        PROVE  [Executor!Next]_(Executor!vars)
    BY <2>a, <2>6 DEF HandleEvent
  <2>7. CASE HandlerReturns
    BY <2>a, <2>7 DEF HandlerReturns
  <2>8. CASE DoPendingFunctors
    <3>1. toRun = <<>>
      BY <2>8 DEF DoPendingFunctors, BatchOnlyWhileRunning
    <3>2. (toRun \o pendingFunctors_)' = toRun \o pendingFunctors_
      BY <2>8, <3>1, ConcatEmptySeq DEF DoPendingFunctors
    <3> QED
      BY <2>a, <2>8, <3>2 DEF DoPendingFunctors
  <2>9. CASE RunFunctor
    <3>1. Executor!Execute
      BY <2>9, ConcatHeadTail, SMTT(30) DEF RunFunctor, Executor!Execute
    <3> QED
      BY <3>1 DEF Executor!Next
  <2>10. CASE FunctorReturns
    BY <2>a, <2>10 DEF FunctorReturns
  <2>11. CASE FinishFunctors
    BY <2>a, <2>11 DEF FinishFunctors
  <2>12. ASSUME NEW f \in Functors, QueueFromLoop(f)
         PROVE  [Executor!Next]_(Executor!vars)
    <3>1. Executor!Submit(f)
      BY <2>12, ConcatAppend DEF QueueFromLoop, Executor!Submit
    <3> QED
      BY <3>1 DEF Executor!Next
  <2>13. ASSUME NEW f \in Functors, RunFromLoop(f)
         PROVE  [Executor!Next]_(Executor!vars)
    <3>1. Executor!ExecuteInline(f)
      BY <2>13 DEF RunFromLoop, UserCode, Executor!ExecuteInline
    <3> QED
      BY <3>1 DEF Executor!Next
  <2>14. CASE StopFromLoop
    BY <2>a, <2>14 DEF StopFromLoop
  <2>15. ASSUME NEW t \in Callers, NEW f \in Functors, QueueFromCaller(t, f)
         PROVE  [Executor!Next]_(Executor!vars)
    <3>1. Executor!Submit(f)
      BY <2>15, ConcatAppend DEF QueueFromCaller, Executor!Submit
    <3> QED
      BY <3>1 DEF Executor!Next
  <2>16. ASSUME NEW t \in Callers, StopFromCaller(t)
         PROVE  [Executor!Next]_(Executor!vars)
    BY <2>a, <2>16 DEF StopFromCaller
  <2>17. ASSUME NEW t \in Callers, Wakeup(t)
         PROVE  [Executor!Next]_(Executor!vars)
    BY <2>a, <2>17 DEF Wakeup
  <2>18. ASSUME NEW ch \in Channels, EventArrives(ch)
         PROVE  [Executor!Next]_(Executor!vars)
    BY <2>a, <2>18 DEF EventArrives
  <2>19. CASE TimerExpires
    BY <2>a, <2>19 DEF TimerExpires
  <2>20. CASE UNCHANGED vars
    BY <2>a, <2>20 DEF vars
  <2> QED
    BY <2>1, <2>2, <2>3, <2>4, <2>5, <2>6, <2>7, <2>8, <2>9, <2>10, <2>11,
       <2>12, <2>13, <2>14, <2>15, <2>16, <2>17, <2>18, <2>19, <2>20
    DEF Next, LoopStep, UserStep, CallerStep, KernelStep
<1> QED
  BY <1>1, <1>2, LoopInvariant, PTL DEF Spec, ImplementsTaskQueue, Executor!SafeSpec
=============================================================================
