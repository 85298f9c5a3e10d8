------------------------ MODULE EventLoopThread_proofs ------------------------
(***************************************************************************)
(* Theorems about EventLoopThread and the monitor its two threads share.   *)
(***************************************************************************)
EXTENDS EventLoopThread, TLAPS

MonitorInv == MonitorTypeOK /\ MutexOwned /\ HolderAccurate

(* What any thread does to a monitor.                                      *)
MonitorAction(t) ==
  \/ MonitorStep(t)
  \/ SpuriousWakeup(t)
  \/ NotifyAndUnlock(t)
  \/ Lock(t)
  \/ Unlock(t)
  \/ Wait(t)

(* MutexLock and Condition, for any set of threads: whatever a thread does *)
(* next with them, the mutex has one owner and holder_ tells who it is.    *)
LEMMA MonitorActionKeeps ==
  ASSUME MonitorInv, NEW t \in Threads, MonitorAction(t)
  PROVE  MonitorInv'
<1> USE NobodyAssumption
    DEF MonitorInv, MonitorTypeOK, MonitorPC, MutexOwned, HolderAccurate,
        Inside, Held, Goes
<1>1. CASE Acquire(t)
  BY <1>1 DEF Acquire
<1>2. CASE AssignHolder(t)
  BY <1>2 DEF AssignHolder
<1>3. CASE UnassignHolder(t)
  BY <1>3 DEF UnassignHolder
<1>4. CASE Release(t)
  BY <1>4 DEF Release
<1>5. CASE Sleep(t)
  BY <1>5 DEF Sleep
<1>6. CASE SpuriousWakeup(t)
  BY <1>6 DEF SpuriousWakeup
<1>7. CASE NotifyAndUnlock(t)
  <2>1. CASE mon' = [mon EXCEPT ![t] = "unlock"]
    BY <1>7, <2>1 DEF NotifyAndUnlock
  <2>2. ASSUME NEW s \in Threads, mon[s] = "asleep",
               mon' = [[mon EXCEPT ![s] = "woken"] EXCEPT ![t] = "unlock"]
        PROVE  MonitorInv'
    BY <1>7, <2>2 DEF NotifyAndUnlock
  <2> QED
    BY <1>7, <2>1, <2>2 DEF NotifyAndUnlock
<1>8. CASE Lock(t)
  BY <1>8 DEF Lock
<1>9. CASE Unlock(t)
  BY <1>9 DEF Unlock
<1>10. CASE Wait(t)
  BY <1>10 DEF Wait
<1> QED
  BY <1>1, <1>2, <1>3, <1>4, <1>5, <1>6, <1>7, <1>8, <1>9, <1>10
  DEF MonitorAction, MonitorStep

-----------------------------------------------------------------------------
(* The handshake of startLoop, threadFunc and stopLoop.                    *)

ProgramTypeOK ==
  /\ ownerPC \in OwnerPC
  /\ workerPC \in WorkerPC
  /\ loop_ \in BOOLEAN
  /\ started_ \in BOOLEAN
  /\ quit_ \in BOOLEAN
  /\ wakeup_fd_ \in BOOLEAN
  /\ returned \in {"nothing", "loop", "NULL"}

(* What is left of the invariant once the monitor's part is known.         *)
ProgramInv ==
  /\ ProgramTypeOK
  /\ PlacesAgree
  /\ LoopPublished
  /\ NotStoppedYet
  /\ StartReturnsLoop

LEMMA InvariantParts == HandshakeInv <=> MonitorInv /\ ProgramInv
BY DEF HandshakeInv, MonitorInv, ProgramInv, TypeOK, ProgramTypeOK

(* Every step of the program leaves the monitor alone or uses it as one of *)
(* the two threads may.                                                    *)
LEMMA StepUsesMonitor ==
  ASSUME HandshakeInv, [Next]_vars
  PROVE  UNCHANGED monitorVars \/ \E t \in Threads : MonitorAction(t)
<1> USE ThreadsAssumption DEF MonitorAction
<1>1. CASE StartThread
  BY <1>1 DEF StartThread
<1>2. CASE BeginDestructor
  BY <1>2 DEF BeginDestructor
<1>3. CASE OwnerStep
  BY <1>3 DEF OwnerStep, AwaitLoop, ReturnLoop, StopLoop, WakeupAndWait, Join
<1>4. CASE WorkerStep
  BY <1>4 DEF WorkerStep, ConstructLoop, PublishLoop, EnterLoop, CheckQuit,
              Iterate, RetractLoop, FinishThread
<1>5. CASE StopFromFunctor
  BY <1>5 DEF StopFromFunctor
<1>6. CASE \E t \in Threads : InMonitor(t) \/ Spurious(t)
  BY <1>6 DEF InMonitor, Spurious
<1>7. CASE UNCHANGED vars
  BY <1>7 DEF vars
<1> QED
  BY <1>1, <1>2, <1>3, <1>4, <1>5, <1>6, <1>7 DEF Next

(* startLoop returns the loop and the destructor stops a loop that still   *)
(* exists (startLoop, stopLoop, threadFunc).  Both need to know where each *)
(* thread is in the monitor, that loop_ is set exactly while the loop is   *)
(* published, and that nobody can stop it before startLoop returned.       *)
THEOREM HandshakeInvariant == Spec => []HandshakeInv
<1>1. Init => HandshakeInv
  BY ThreadsAssumption, NobodyAssumption
  DEF Init, MonitorInit, HandshakeInv, TypeOK, MonitorTypeOK, MonitorPC, OwnerPC,
      WorkerPC, MutexOwned, HolderAccurate, Inside, Held, PlacesAgree,
      LoopPublished, NotStoppedYet, StartReturnsLoop, Leaving
<1>2. HandshakeInv /\ [Next]_vars => HandshakeInv'
  <2> SUFFICES ASSUME HandshakeInv, [Next]_vars
               PROVE  HandshakeInv'
    OBVIOUS
  <2>1. MonitorInv /\ ProgramInv
    BY InvariantParts
  <2>2. MonitorInv'
    <3>1. CASE UNCHANGED monitorVars
      BY <2>1, <3>1 DEF MonitorInv, MonitorTypeOK, MutexOwned, HolderAccurate,
                        monitorVars
    <3>2. CASE \E t \in Threads : MonitorAction(t)
      BY <2>1, <3>2, MonitorActionKeeps
    <3> QED
      BY <3>1, <3>2, StepUsesMonitor
  <2>3. ProgramInv'
    <3> USE <2>1, ThreadsAssumption
        DEF ProgramInv, ProgramTypeOK, OwnerPC, WorkerPC, PlacesAgree,
            LoopPublished, NotStoppedYet, StartReturnsLoop, Trying, Leaving,
            OwnerGoes, WorkerGoes, loopVars, MonitorInv, MonitorTypeOK
    <3>1. CASE StartThread
      BY <3>1 DEF StartThread, Lock, Goes
    <3>2. CASE BeginDestructor
      BY <3>2 DEF BeginDestructor, Lock, Goes
    <3>3. CASE AwaitLoop
      BY <3>3 DEF AwaitLoop, Unlock, Wait, Goes
    <3>4. CASE ReturnLoop
      BY <3>4 DEF ReturnLoop, monitorVars
    <3>5. CASE StopLoop
      BY <3>5 DEF StopLoop, Unlock, Goes, monitorVars
    <3>6. CASE WakeupAndWait
      BY <3>6 DEF WakeupAndWait, Wait, Goes
    <3>7. CASE Join
      BY <3>7 DEF Join, monitorVars
    <3>8. CASE ConstructLoop
      BY <3>8 DEF ConstructLoop, Lock, Goes
    <3>9. CASE PublishLoop
      BY <3>9 DEF PublishLoop, NotifyAndUnlock
    <3>10. CASE EnterLoop
      BY <3>10 DEF EnterLoop, monitorVars
    <3>11. CASE CheckQuit
      BY <3>11 DEF CheckQuit, Lock, Goes, monitorVars
    <3>12. CASE Iterate
      BY <3>12 DEF Iterate, monitorVars
    <3>13. CASE RetractLoop
      <4>1. mon[worker] = "in" /\ mon[owner] # "in"
        BY <3>13 DEF RetractLoop, NotifyAndUnlock, MutexOwned, Inside
      <4> QED
        BY <3>13, <4>1 DEF RetractLoop, NotifyAndUnlock
    <3>14. CASE FinishThread
      BY <3>14 DEF FinishThread, monitorVars
    <3>15. CASE StopFromFunctor
      BY <3>15 DEF StopFromFunctor, monitorVars
    <3>16. ASSUME NEW t \in Threads, InMonitor(t) \/ Spurious(t)
           PROVE  ProgramInv'
      BY <3>16 DEF InMonitor, MonitorStep, Acquire, AssignHolder, UnassignHolder,
                   Release, Sleep, Spurious, SpuriousWakeup, Goes
    <3>17. CASE UNCHANGED vars
      BY <3>17 DEF vars, monitorVars
    <3> QED
      BY <3>1, <3>2, <3>3, <3>4, <3>5, <3>6, <3>7, <3>8, <3>9, <3>10, <3>11,
         <3>12, <3>13, <3>14, <3>15, <3>16, <3>17
      DEF Next, OwnerStep, WorkerStep
  <2>4. (MonitorInv /\ ProgramInv)' => HandshakeInv'
    BY DEF HandshakeInv, MonitorInv, ProgramInv, TypeOK, ProgramTypeOK
  <2> QED
    BY <2>2, <2>3, <2>4
<1> QED
  BY <1>1, <1>2, PTL DEF Spec

(* holder_ is the mutex's owner whenever it names a thread, so assertLocked *)
(* and the assertion of ~MutexLock can rely on it.                         *)
THEOREM HolderCorrect == Spec => []HolderAccurate
<1>1. HandshakeInv => HolderAccurate
  BY DEF HandshakeInv
<1> QED
  BY <1>1, HandshakeInvariant, PTL

(* startLoop never returns NULL, though it reads loop_ without the mutex.  *)
THEOREM StartGivesLoop == Spec => []StartReturnsLoop
<1>1. HandshakeInv => StartReturnsLoop
  BY DEF HandshakeInv
<1> QED
  BY <1>1, HandshakeInvariant, PTL

(* stopLoop calls stop() only on a loop that is still on its thread's      *)
(* stack.                                                                  *)
THEOREM StopsLiveLoop == Spec => []StopOnLiveLoop
<1>1. HandshakeInv => StopOnLiveLoop
  BY DEF HandshakeInv, NotStoppedYet, LoopPublished, StopOnLiveLoop
<1> QED
  BY <1>1, HandshakeInvariant, PTL
=============================================================================
