--------------------------- MODULE ConnectionLife ---------------------------
(***************************************************************************)
(* What TcpServer promises about a connection, with no loops, queues or    *)
(* channels: it is accepted once, hands input over while it is open, is    *)
(* closed once, and is freed after that and only then, never to come back. *)
(***************************************************************************)
CONSTANT Conns

VARIABLES
  life,     \* where each connection is
  unread    \* the connections whose input the program has not been given

vars == <<life, unread>>

Init == life = [c \in Conns |-> "none"] /\ unread = {}

Move(cs, from, to) ==
  /\ \A c \in cs : life[c] = from
  /\ life' = [c \in Conns |-> IF c \in cs THEN to ELSE life[c]]

Accept(c) == Move({c}, "none", "open") /\ UNCHANGED unread
Close(c) == Move({c}, "open", "closed") /\ UNCHANGED unread

(* Several may be freed at once.                                           *)
Free(cs) == Move(cs, "closed", "gone") /\ UNCHANGED unread

(* Input arrives until the connection is gone, and is handed over while it *)
(* is open, perhaps as the last thing before it is closed.                 *)
Arrive(c) ==
  /\ life[c] \in {"open", "closed"}
  /\ unread' = unread \cup {c}
  /\ UNCHANGED life

HandOver(c) ==
  /\ \E after \in {"open", "closed"} : Move({c}, "open", after)
  /\ unread' = unread \ {c}

Next ==
  \/ \E c \in Conns : Accept(c) \/ Close(c) \/ Arrive(c) \/ HandOver(c)
  \/ \E cs \in SUBSET Conns : Free(cs)

(* Input of an open connection is handed over or the connection closed, and *)
(* a closed connection is freed.                                           *)
Fairness ==
  \A c \in Conns :
    /\ WF_vars(\E cs \in SUBSET Conns : c \in cs /\ Free(cs))
    /\ WF_vars(c \in unread /\ (HandOver(c) \/ Close(c)))

Spec == Init /\ [][Next]_vars /\ Fairness
=============================================================================
