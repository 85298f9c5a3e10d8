\* A thread that holds the connection sends while it is closed.
CONSTANTS
  Base = "base"
  Loops <- OneLoop
  MaxConns = 1
  MaxInputs = 1
  MaxCalls = 1
  Faults = {}
  Acceptor = Acceptor
  SendRoom = 1
  InitSize = 2
  Nul = Nul
  Messages <- FittingOrNot
SPECIFICATION Spec
INVARIANT OwnerOutlivesEvents
\* a server nobody connects to any more, or whose process ended, stops
CHECK_DEADLOCK FALSE
