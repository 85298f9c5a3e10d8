-------------------------- MODULE MCEventLoopThread --------------------------
(* One EventLoopThread and its two threads. *)
EXTENDS EventLoopThread
=============================================================================
