------------------------------ MODULE TaskQueue ------------------------------
(***************************************************************************)
(* What EventLoop::QueueInLoop and EventLoop::RunInLoop promise to their   *)
(* callers, with no thread, lock or descriptor in sight: an executor that  *)
(* runs the tasks handed to it one at a time, each once, in the order they *)
(* were handed over, until it closes.  Module EventLoop implements it.     *)
(***************************************************************************)
EXTENDS Sequences

CONSTANT Task      \* the callbacks that can be handed over

VARIABLES queue,   \* the tasks handed over and not yet run, oldest first
          ran,     \* the tasks run so far, in the order they were run
          closed   \* the executor has stopped for good

vars == <<queue, ran, closed>>

TypeOK ==
  /\ queue \in Seq(Task)
  /\ ran \in Seq(Task)
  /\ closed \in BOOLEAN

Init ==
  /\ queue = <<>>
  /\ ran = <<>>
  /\ closed = FALSE

(* A task is handed over; a closed executor still accepts it, and keeps it. *)
Submit(t) ==
  /\ queue' = Append(queue, t)
  /\ UNCHANGED <<ran, closed>>

(* The oldest task runs. *)
Execute ==
  /\ ~closed
  /\ queue # <<>>
  /\ ran' = Append(ran, Head(queue))
  /\ queue' = Tail(queue)
  /\ UNCHANGED closed

(* A task the executor hands to itself may run at once, ahead of the queue. *)
ExecuteInline(t) ==
  /\ ~closed
  /\ ran' = Append(ran, t)
  /\ UNCHANGED <<queue, closed>>

Close ==
  /\ ~closed
  /\ closed' = TRUE
  /\ UNCHANGED <<queue, ran>>

Next ==
  \/ \E t \in Task : Submit(t) \/ ExecuteInline(t)
  \/ Execute
  \/ Close

SafeSpec == Init /\ [][Next]_vars

(* It goes on while there is something to run.                             *)
Fairness == WF_vars(Execute)

Spec == SafeSpec /\ Fairness
=============================================================================
