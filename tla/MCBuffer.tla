------------------------------- MODULE MCBuffer -------------------------------
(* A few bytes in buffers of two. *)
EXTENDS Buffer
=============================================================================
