------------------------------- MODULE Monitor -------------------------------
(***************************************************************************)
(* A MutexLock and a Condition on it: the pthread objects, and holder_,    *)
(* the owner's id MutexLock keeps beside them.  holder_ is written in      *)
(* steps of its own, under the mutex but apart from its acquisition and    *)
(* release.                                                                *)
(*                                                                         *)
(* A thread is, as far as the monitor goes, at one of these places:        *)
(*   out        neither inside nor trying                                  *)
(*   lock       in pthread_mutex_lock                                      *)
(*   locked     the mutex is its own, assignHolder comes next              *)
(*   in         inside the critical section                                *)
(*   unlock     MutexLockGuard's destructor, unassignHolder comes next     *)
(*   unassigned pthread_mutex_unlock comes next                            *)
(*   wait       Condition::wait, UnassignGuard's constructor comes next    *)
(*   waiting    pthread_cond_wait comes next                               *)
(*   asleep     on the condition                                           *)
(*   woken      to take the mutex again before pthread_cond_wait returns   *)
(* The program that uses the monitor moves its threads from out to lock    *)
(* and from in to unlock or wait; the steps of this module do the rest.    *)
(***************************************************************************)

CONSTANTS Threads, Nobody

ASSUME NobodyAssumption == Nobody \notin Threads

VARIABLES
  mutex_,    \* the thread that owns the pthread mutex
  holder_,   \* MutexLock's copy of it
  mon        \* where each thread is

monitorVars == <<mutex_, holder_, mon>>

MonitorPC == {"out", "lock", "locked", "in", "unlock", "unassigned", "wait",
              "waiting", "asleep", "woken"}

MonitorTypeOK ==
  /\ mutex_ \in Threads \cup {Nobody}
  /\ holder_ \in Threads \cup {Nobody}
  /\ mon \in [Threads -> MonitorPC]

MonitorInit ==
  /\ mutex_ = Nobody
  /\ holder_ = Nobody
  /\ mon = [t \in Threads |-> "out"]

Goes(t, from, to) ==
  /\ mon[t] = from
  /\ mon' = [mon EXCEPT ![t] = to]

(* pthread_mutex_lock, or the end of pthread_cond_wait. *)
Acquire(t) ==
  /\ Goes(t, "lock", "locked") \/ Goes(t, "woken", "locked")
  /\ mutex_ = Nobody
  /\ mutex_' = t
  /\ UNCHANGED holder_

(* assignHolder, at the end of lock() and in UnassignGuard's destructor. *)
AssignHolder(t) ==
  /\ Goes(t, "locked", "in")
  /\ holder_' = t
  /\ UNCHANGED mutex_

(* Seeded fault: the mutex given up before holder_ is reset.               *)
FaultReleaseFirst(t) ==
  /\ Goes(t, "unlock", "unassigned")
  /\ mutex_' = Nobody
  /\ UNCHANGED holder_

(* unassignHolder, at the start of unlock() and of wait(). *)
UnassignHolder(t) ==
  /\ Goes(t, "unlock", "unassigned") \/ Goes(t, "wait", "waiting")
  /\ holder_' = Nobody
  /\ UNCHANGED mutex_

Release(t) ==
  /\ Goes(t, "unassigned", "out")
  /\ mutex_' = Nobody
  /\ UNCHANGED holder_

(* pthread_cond_wait gives up the mutex and sleeps in one step. *)
Sleep(t) ==
  /\ Goes(t, "waiting", "asleep")
  /\ mutex_' = Nobody
  /\ UNCHANGED holder_

(* pthread_cond_wait may return without a notification. *)
SpuriousWakeup(t) ==
  /\ Goes(t, "asleep", "woken")
  /\ UNCHANGED <<mutex_, holder_>>

(* notify(): one of the threads asleep, if there is one, is woken.  Part   *)
(* of a step of thread t, which goes on to "unlock".                       *)
NotifyAndUnlock(t) ==
  LET asleep == {s \in Threads : mon[s] = "asleep"}
      on(m)  == [m EXCEPT ![t] = "unlock"]
  IN  /\ mon[t] = "in"
      /\ IF asleep = {} THEN mon' = on(mon)
         ELSE \E s \in asleep : mon' = on([mon EXCEPT ![s] = "woken"])
      /\ UNCHANGED <<mutex_, holder_>>

Lock(t) == Goes(t, "out", "lock") /\ UNCHANGED <<mutex_, holder_>>
Unlock(t) == Goes(t, "in", "unlock") /\ UNCHANGED <<mutex_, holder_>>
Wait(t) == Goes(t, "in", "wait") /\ UNCHANGED <<mutex_, holder_>>

MonitorStep(t) ==
  \/ Acquire(t)
  \/ AssignHolder(t)
  \/ UnassignHolder(t)
  \/ Release(t)
  \/ Sleep(t)

-----------------------------------------------------------------------------
(* Properties of the monitor. *)

Inside == {"locked", "in", "unlock", "unassigned", "wait", "waiting"}
Held == {"in", "unlock", "wait"}

(* The mutex is the one thread's that is inside: two are never inside      *)
(* together.                                                               *)
MutexOwned == \A t \in Threads : mon[t] \in Inside <=> mutex_ = t

(* isLockedByThisThread tells the truth: holder_ names a thread only while *)
(* that thread owns the mutex, and names it all through its critical       *)
(* section, around a wait too.                                             *)
HolderAccurate ==
  /\ holder_ # Nobody => mutex_ = holder_
  /\ \A t \in Threads : mon[t] \in Held <=> holder_ = t
=============================================================================
