--------------------------- MODULE EventLoopThread ---------------------------
(***************************************************************************)
(* An EventLoopThread: the thread that owns the object, which calls        *)
(* startLoop and at last the destructor, and the thread it starts, which   *)
(* runs threadFunc.  They meet in mutex_ and cond_ (module Monitor), in    *)
(* loop_, and in the EventLoop on the new thread's stack, of which quit_   *)
(* and the eventfd matter here (module EventLoop has the rest of it).      *)
(***************************************************************************)
EXTENDS Monitor

CONSTANTS owner, worker

ASSUME ThreadsAssumption == Threads = {owner, worker} /\ owner # worker

VARIABLES
  ownerPC,
  workerPC,
  loop_,        \* loop_ points to the loop; FALSE: it is NULL
  started_,     \* Thread::started_
  quit_,
  wakeup_fd_,   \* the loop's eventfd can be read
  returned      \* what startLoop returned: "nothing" yet, "loop" or "NULL"

loopVars == <<quit_, wakeup_fd_>>
vars == <<monitorVars, ownerPC, workerPC, loop_, started_, loopVars, returned>>

OwnerPC == {"new", "startLoop", "return", "running", "stopLoop", "wakeup", "join",
            "destroyed", "aborted"}
WorkerPC == {"none", "threadFunc", "publish", "loop", "check", "poll", "retract",
             "end", "finished", "aborted"}

TypeOK ==
  /\ MonitorTypeOK
  /\ ownerPC \in OwnerPC
  /\ workerPC \in WorkerPC
  /\ loop_ \in BOOLEAN
  /\ started_ \in BOOLEAN
  /\ quit_ \in BOOLEAN
  /\ wakeup_fd_ \in BOOLEAN
  /\ returned \in {"nothing", "loop", "NULL"}

Init ==
  /\ MonitorInit
  /\ ownerPC = "new"
  /\ workerPC = "none"
  /\ loop_ = FALSE
  /\ started_ = FALSE
  /\ quit_ = FALSE
  /\ wakeup_fd_ = FALSE
  /\ returned = "nothing"

OwnerGoes(from, to) == ownerPC = from /\ ownerPC' = to
WorkerGoes(from, to) == workerPC = from /\ workerPC' = to

-----------------------------------------------------------------------------
(* The owner: startLoop. *)

(* Thread::start, and then the lock.                                       *)
StartThread ==
  /\ OwnerGoes("new", "startLoop")
  /\ started_' = TRUE
  /\ WorkerGoes("none", "threadFunc")
  /\ Lock(owner)
  /\ UNCHANGED <<loop_, loopVars, returned>>

(* Seeded fault: one wait, and no second look at loop_.                    *)
FaultWaitOnce ==
  /\ mon[owner] = "in"
  /\ IF loop_ THEN OwnerGoes("startLoop", "return") /\ Unlock(owner)
              ELSE OwnerGoes("startLoop", "return") /\ Goes(owner, "in", "unlock")
                     /\ UNCHANGED <<mutex_, holder_>>
  /\ UNCHANGED <<workerPC, loop_, started_, loopVars, returned>>

(* while (loop_ == NULL) cond_.wait();                                     *)
AwaitLoop ==
  /\ mon[owner] = "in"
  /\ IF loop_ THEN OwnerGoes("startLoop", "return") /\ Unlock(owner)
              ELSE OwnerGoes("startLoop", "startLoop") /\ Wait(owner)
  /\ UNCHANGED <<workerPC, loop_, started_, loopVars, returned>>

(* return loop_, read without the mutex.                                   *)
ReturnLoop ==
  /\ OwnerGoes("return", "running")
  /\ mon[owner] = "out"
  /\ returned' = IF loop_ THEN "loop" ELSE "NULL"
  /\ UNCHANGED <<monitorVars, workerPC, loop_, started_, loopVars>>

-----------------------------------------------------------------------------
(* The owner: the destructor. *)

BeginDestructor ==
  /\ OwnerGoes("running", "stopLoop") \/ OwnerGoes("new", "stopLoop")
  /\ Lock(owner)
  /\ UNCHANGED <<workerPC, loop_, started_, loopVars, returned>>

(* while (loop_ != NULL) { loop_->stop(); cond_.wait(); }                  *)
StopLoop ==
  /\ mon[owner] = "in"
  /\ IF loop_
     THEN OwnerGoes("stopLoop", "wakeup") /\ quit_' = TRUE /\ UNCHANGED monitorVars
     ELSE OwnerGoes("stopLoop", "join") /\ Unlock(owner) /\ UNCHANGED quit_
  /\ UNCHANGED <<workerPC, loop_, started_, wakeup_fd_, returned>>

WakeupAndWait ==
  /\ OwnerGoes("wakeup", "stopLoop")
  /\ wakeup_fd_' = TRUE
  /\ Wait(owner)
  /\ UNCHANGED <<workerPC, loop_, started_, quit_, returned>>

(* thread_.join(), which asserts that the thread was started.              *)
Join ==
  /\ mon[owner] = "out"
  /\ IF started_ THEN OwnerGoes("join", "destroyed") /\ workerPC = "finished"
                 ELSE OwnerGoes("join", "aborted")
  /\ UNCHANGED <<monitorVars, workerPC, loop_, started_, loopVars, returned>>

-----------------------------------------------------------------------------
(* The new thread: threadFunc. *)

(* EventLoop loop; and the lock.                                           *)
ConstructLoop ==
  /\ WorkerGoes("threadFunc", "publish")
  /\ Lock(worker)
  /\ UNCHANGED <<ownerPC, loop_, started_, loopVars, returned>>

(* Seeded fault: loop_ set and nobody notified.                            *)
FaultPublishSilently ==
  /\ WorkerGoes("publish", "loop")
  /\ Unlock(worker)
  /\ loop_' = TRUE
  /\ UNCHANGED <<ownerPC, started_, loopVars, returned>>

PublishLoop ==
  /\ WorkerGoes("publish", "loop")
  /\ NotifyAndUnlock(worker)
  /\ loop_' = TRUE
  /\ UNCHANGED <<ownerPC, started_, loopVars, returned>>

(* loop.loop(): assert(quit_ == false), and then round and round.          *)
EnterLoop ==
  /\ mon[worker] = "out"
  /\ IF quit_ THEN WorkerGoes("loop", "aborted") ELSE WorkerGoes("loop", "check")
  /\ UNCHANGED <<monitorVars, ownerPC, loop_, started_, loopVars, returned>>

(* When quit_ is set the loop is left, and the lock is next.               *)
CheckQuit ==
  /\ IF quit_ THEN WorkerGoes("check", "retract") /\ Lock(worker)
              ELSE WorkerGoes("check", "poll") /\ UNCHANGED monitorVars
  /\ UNCHANGED <<ownerPC, loop_, started_, loopVars, returned>>

(* One iteration, once the eventfd can be read.  A functor of the program  *)
(* may stop the loop, if it was given one.                                 *)
Iterate ==
  /\ wakeup_fd_
  /\ WorkerGoes("poll", "check")
  /\ wakeup_fd_' = FALSE
  /\ UNCHANGED <<monitorVars, ownerPC, loop_, started_, quit_, returned>>

StopFromFunctor ==
  /\ returned = "loop"
  /\ WorkerGoes("poll", "check")
  /\ quit_' = TRUE
  /\ UNCHANGED <<monitorVars, ownerPC, loop_, started_, wakeup_fd_, returned>>

(* Seeded fault: loop_ left pointing to the loop.                          *)
FaultNotRetracted ==
  /\ WorkerGoes("retract", "end")
  /\ NotifyAndUnlock(worker)
  /\ UNCHANGED <<ownerPC, loop_, started_, loopVars, returned>>

RetractLoop ==
  /\ WorkerGoes("retract", "end")
  /\ NotifyAndUnlock(worker)
  /\ loop_' = FALSE
  /\ UNCHANGED <<ownerPC, started_, loopVars, returned>>

(* The loop goes with the stack frame.                                     *)
FinishThread ==
  /\ WorkerGoes("end", "finished")
  /\ mon[worker] = "out"
  /\ UNCHANGED <<monitorVars, ownerPC, loop_, started_, loopVars, returned>>

-----------------------------------------------------------------------------
OwnerStep == AwaitLoop \/ ReturnLoop \/ StopLoop \/ WakeupAndWait \/ Join
WorkerStep ==
  \/ ConstructLoop \/ PublishLoop \/ EnterLoop \/ CheckQuit \/ Iterate
  \/ RetractLoop \/ FinishThread

InMonitor(t) ==
  /\ MonitorStep(t)
  /\ UNCHANGED <<ownerPC, workerPC, loop_, started_, loopVars, returned>>

Spurious(t) ==
  /\ SpuriousWakeup(t)
  /\ UNCHANGED <<ownerPC, workerPC, loop_, started_, loopVars, returned>>

(* A failed assertion ends the process. *)
Aborted == ownerPC = "aborted" \/ workerPC = "aborted"

Next ==
  /\ ~Aborted
  /\ \/ StartThread
     \/ BeginDestructor
     \/ OwnerStep
     \/ WorkerStep
     \/ StopFromFunctor
     \/ \E t \in Threads : InMonitor(t) \/ Spurious(t)

TakesMutex(t) ==
  /\ Acquire(t)
  /\ UNCHANGED <<ownerPC, workerPC, loop_, started_, loopVars, returned>>

(* Both threads run, and neither is overtaken for ever at the mutex: the   *)
(* other one could otherwise wake spuriously, find nothing to do and wait  *)
(* again, without end.  The program need not start or destroy anything.    *)
Fairness ==
  /\ WF_vars(~Aborted /\ (OwnerStep \/ InMonitor(owner)))
  /\ WF_vars(~Aborted /\ (WorkerStep \/ InMonitor(worker)))
  /\ \A t \in Threads : SF_vars(~Aborted /\ TakesMutex(t))

Spec == Init /\ [][Next]_vars /\ Fairness

-----------------------------------------------------------------------------
(* Properties. *)

(* startLoop returns a loop that runs, or is about to: never NULL, though  *)
(* it reads loop_ after it gave up the mutex.                              *)
StartReturnsLoop == returned # "NULL"

(* stop() is called on a loop that still exists: stopLoop keeps the mutex  *)
(* the worker needs to take loop_ back before its stack frame goes.        *)
StopOnLiveLoop ==
  ownerPC = "wakeup" =>
    workerPC \in {"loop", "check", "poll", "retract", "aborted"}

(* loop() asserts that quit_ is not yet set.                               *)
LoopEntered == workerPC # "aborted"

(* Why: where each thread can be in the monitor, given where it is in its  *)
(* program ...                                                             *)
Trying == {"lock", "locked", "in"}
Leaving == {"unlock", "unassigned", "out"}

PlacesAgree ==
  /\ ownerPC \in {"new", "running", "destroyed", "aborted"} => mon[owner] = "out"
  /\ ownerPC \in {"startLoop", "stopLoop"} => mon[owner] \notin Leaving
  /\ ownerPC \in {"return", "join"} => mon[owner] \in Leaving
  /\ ownerPC = "wakeup" => mon[owner] = "in"
  /\ workerPC \in {"publish", "retract"} => mon[worker] \in Trying
  /\ workerPC \in {"loop", "end"} => mon[worker] \in Leaving
  /\ workerPC \notin {"publish", "loop", "retract", "end"} => mon[worker] = "out"

(* ... loop_ points to the loop from its publication to its retraction ... *)
LoopPublished ==
  loop_ <=> workerPC \in {"loop", "check", "poll", "retract", "aborted"}

(* ... and nobody stops the loop before startLoop has returned it.         *)
NotStoppedYet ==
  /\ ownerPC \in {"new", "startLoop", "return"} => ~quit_ /\ returned = "nothing"
  /\ workerPC \in {"retract", "end", "finished"} => quit_
  /\ ownerPC \in {"return", "wakeup"} => loop_

HandshakeInv ==
  /\ TypeOK
  /\ MutexOwned
  /\ HolderAccurate
  /\ PlacesAgree
  /\ LoopPublished
  /\ NotStoppedYet
  /\ StartReturnsLoop

(* startLoop returns, and so does the destructor, when the thread is gone:  *)
(* neither waits for a notification or a join that never comes.            *)
CallsReturn ==
  /\ ownerPC = "startLoop" ~> (ownerPC = "running" \/ Aborted)
  /\ ownerPC = "stopLoop" ~> (ownerPC = "destroyed" \/ Aborted)
=============================================================================
