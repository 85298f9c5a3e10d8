----------------------------- MODULE MCTimerQueue -----------------------------
(* A few timers; a second is two ticks. *)
EXTENDS TimerQueue
=============================================================================
